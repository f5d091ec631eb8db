------------------------ MODULE CommentRelayProofs ------------------------
(***************************************************************************)
(* CommentRelay, proved for every number of texts, versions, messages,     *)
(* faults and reconciliations: the thread of a closed issue that a handler *)
(* has opened is archived again before the next operation runs; a message  *)
(* the relay cannot reach any more is paid for by an interruption; and a   *)
(* copy that no handler is at is one version of the comment as a whole.    *)
(***************************************************************************)
EXTENDS CommentRelay, FiniteSetTheorems, SequenceTheorems, TLAPS

USE CommentAssumption DEF NoText, NoThread, NoMessage

\* An event names what happened, and what was written has a text.
RealEvent == {event \in Event : /\ event.kind \in {"written", "deleted"}
                                /\ event.kind = "written" => event.text \in Text}

EventsAreReal ==
  /\ comment.state = "posted" => comment.text \in Text
  /\ hooks \subseteq RealEvent /\ failed \subseteq RealEvent /\ plan \in RealEvent \cup {NoEvent}
  /\ inbox \in Seq(RealEvent) /\ snapshots \in Seq(RealEvent)

\* A handler runs on a row that is still there.
ClaimsHeld ==
  /\ handler.job = "live" => inbox # <<>>
  /\ handler.job = "snapshot" => snapshots # <<>>
  /\ handler.job = "operation" => ops # <<>>
  /\ handler.step \in {"upsert", "sync", "delete"} =>
       handler.job # "operation" /\ handler.event \in RealEvent
  /\ handler.step \in {"upsert", "sync"} => handler.event.kind = "written"

SyncSteps == {"open", "segment", "attach", "locate", "surplus", "save", "close"}

\* Where the loop over the segments stands.
LoopAgrees ==
  /\ handler.step \in {"open", "segment"} => Len(handler.done) < Len(Parts)
  /\ handler.step \in {"attach", "locate"} =>
       Len(handler.done) > 0 /\ Len(handler.done) <= Len(Parts)
  /\ handler.step \in {"surplus", "save"} => Len(handler.done) = Len(Parts)
  /\ handler.step = "surplus" => Len(handler.old) > Len(Parts)
  /\ handler.step = "erase" => handler.old # <<>>

\* A handler that writes to the thread of a closed issue knows that it has opened it.
OpenedWhileClosed ==
  /\ thread.closed => thread.id # NoThread
  /\ handler.step \in SyncSteps =>
       /\ handler.job = "operation" /\ Head(ops) # DeleteItem
       /\ handler.opened <=> thread.closed
  /\ handler.step \in {"open", "close"} => thread.closed
  /\ handler.step = "attach" => ~thread.closed

\* An open thread of a closed issue is the business of the sync at the head of the queue.
OpenForSync ==
  /\ archived => thread.closed
  /\ thread.closed /\ ~archived /\ ~dead =>
       /\ ops # <<>> /\ Head(ops) # DeleteItem
       /\ handler.job = "operation" => handler.step \in SyncSteps

ArchiveInv ==
  TypeOK /\ EventsAreReal /\ ClaimsHeld /\ LoopAgrees /\ OpenedWhileClosed /\ OpenForSync

-----------------------------------------------------------------------------
(* Types of the parts an action writes.                                    *)

LEMMA TextTypes ==
  /\ Text \subseteq Nat /\ Message \subseteq Nat /\ NoText \notin Text /\ NoMessage \notin Message
  /\ MaxVersion \in Nat /\ Version \subseteq Nat
BY DEF Text, Message, Version

LEMMA RenderingTypes ==
  ASSUME NEW t \in Text \cup {NoText}
  PROVE  /\ Rendering(t) \in Seq(Shown) /\ Len(Rendering(t)) \in {1, 2}
         /\ 0 < Len(Rendering(t))
         /\ \A i \in 1..Len(Rendering(t)) : Rendering(t)[i] \in Shown
<1> DEFINE n == IF t \in Long THEN 2 ELSE 1
<1>1. n \in {1, 2} /\ n \in Nat
  OBVIOUS
<1>2. Rendering(t) = [i \in 1..n |-> [text |-> t, part |-> i]]
  BY DEF Rendering
<1> HIDE DEF n
<1>3. \A i \in 1..n : [text |-> t, part |-> i] \in Shown
  BY <1>1 DEF Shown
<1>4. Rendering(t) \in [1..n -> Shown]
  BY <1>2, <1>3
<1>5. Rendering(t) \in Seq(Shown) /\ Len(Rendering(t)) = n
  BY <1>1, <1>4, SeqDef, LenProperties
<1> QED BY <1>1, <1>4, <1>5

LEMMA IdleTypes ==
  /\ NoEvent \in Event /\ NoEvent.kind = "none" /\ Gone \in Shown
  /\ Idle \in Handler /\ Idle.job = "none" /\ Idle.step = "none"
<1>1. NoEvent \in Event /\ Gone \in Shown
  BY DEF NoEvent, Event, Gone, Shown, Version
<1> QED BY <1>1 DEF Idle, Handler, NoEvent

LEMMA KeyTypes ==
  /\ DeleteItem \in Key /\ \A t \in Text : SyncOf(t) \in Key
BY DEF Key

\* What is real is an event.
LEMMA RealTypes ==
  /\ \A event \in RealEvent : event \in Event
  /\ \A seq \in Seq(RealEvent) : seq \in Seq(Event)
<1>1. RealEvent \subseteq Event
  BY DEF RealEvent
<1> QED BY <1>1, SeqMonotonic

\* What the invariant says of the parts an action reads.
LEMMA HandlerTypes ==
  ASSUME ArchiveInv
  PROVE  /\ handler \in Handler /\ handler.text \in Text \cup {NoText}
         /\ handler.done \in Seq(Message) /\ handler.old \in Seq(Segment)
         /\ Len(handler.done) \in Nat /\ Len(handler.old) \in Nat
         /\ Parts \in Seq(Shown) /\ Len(Parts) \in {1, 2}
         /\ \A i \in 1..Len(Parts) : Parts[i] \in Shown
<1>1. /\ handler \in Handler /\ handler.text \in Text \cup {NoText}
      /\ handler.done \in Seq(Message) /\ handler.old \in Seq(Segment)
  BY DEF ArchiveInv, TypeOK, Handler
<1> QED BY <1>1, LenProperties, RenderingTypes DEF Parts

LEMMA InitArchive == Init => ArchiveInv
<1> SUFFICES ASSUME Init PROVE ArchiveInv
  OBVIOUS
<1>1. /\ comment \in Comment /\ hooks \in SUBSET Event /\ failed \in SUBSET Event
      /\ inbox \in Seq(Event) /\ plan \in Event /\ snapshots \in Seq(Event)
      /\ ops \in Seq(Key) /\ keys \in SUBSET Key
  BY IdleTypes DEF Init, Comment, Version
<1>2. item \in Item /\ segments \in Seq(Segment)
  BY DEF Init, Item
<1>3. thread \in [id : Nat, closed : BOOLEAN] /\ (thread.closed => thread.id # NoThread)
  <2>1. CASE thread = [id |-> NoThread, closed |-> FALSE]
    BY <2>1
  <2>2. CASE thread \in [id : {1}, closed : BOOLEAN]
    BY <2>2
  <2> QED BY <2>1, <2>2 DEF Init
<1>4. archived \in BOOLEAN /\ archived = thread.closed
  BY <1>3, Zenon DEF Init
<1>5. messages \in [Message -> Shown] /\ posted \in Message \cup {NoMessage} /\ threads \in Nat
  BY <1>3, IdleTypes DEF Init
<1>6. /\ handler \in Handler /\ faults \in 0..MaxFaults /\ runs \in 0..MaxRuns
      /\ heard \in Version
  BY IdleTypes DEF Init, Version
<1>7. late \in BOOLEAN /\ returned \in BOOLEAN /\ dead \in BOOLEAN
  BY Zenon DEF Init
<1>8. TypeOK
  BY <1>1, <1>2, <1>3, <1>4, <1>5, <1>6, <1>7 DEF TypeOK
<1>9. EventsAreReal
  BY DEF Init, EventsAreReal
<1>10. ClaimsHeld /\ LoopAgrees /\ OpenedWhileClosed /\ OpenForSync
  BY <1>3, <1>4, IdleTypes DEF Init, ClaimsHeld, LoopAgrees, OpenedWhileClosed, OpenForSync, SyncSteps
<1> QED BY <1>8, <1>9, <1>10 DEF ArchiveInv

-----------------------------------------------------------------------------
(* The author, the webhooks and the reconciliation.                        *)

LEMMA AuthorKeeps ==
  ASSUME ArchiveInv, NEW state \in {"posted", "gone"}, NEW text \in Text, Author(state, text)
  PROVE  ArchiveInv'
<1> DEFINE event == [kind |-> IF state = "posted" THEN "written" ELSE "deleted",
                     text |-> text, version |-> comment'.version]
<1>2. /\ comment' \in Comment /\ comment'.version \in Version /\ comment'.text = text
  <2>1. comment \in Comment
    BY DEF ArchiveInv, TypeOK
  <2>2. comment.version + 1 \in Version
    BY <2>1, TextTypes DEF Author, Comment, Version
  <2> QED BY <2>1, <2>2 DEF Author, Comment
<1>3. event \in RealEvent
  BY <1>2 DEF RealEvent, Event
<1>4. hooks' = hooks \cup {event}
  BY DEF Author
<1> HIDE DEF event
<1>5. returned' \in BOOLEAN
  BY Zenon DEF Author, ArchiveInv, TypeOK
<1>6. UNCHANGED <<queues, failed, plan, record, discord, handler, runs, history>>
  BY DEF Author
<1>7. TypeOK'
  BY <1>2, <1>3, <1>4, <1>5, <1>6, RealTypes DEF ArchiveInv, TypeOK, queues, record, discord, history
<1>8. EventsAreReal'
  BY <1>2, <1>3, <1>4, <1>6 DEF ArchiveInv, EventsAreReal, queues
<1>9. ClaimsHeld' /\ LoopAgrees' /\ OpenedWhileClosed' /\ OpenForSync'
  BY <1>6 DEF ArchiveInv, ClaimsHeld, LoopAgrees, OpenedWhileClosed, OpenForSync, Parts, queues, record,
     discord, history
<1> QED BY <1>7, <1>8, <1>9 DEF ArchiveInv

LEMMA AuthorsKeep ==
  ASSUME ArchiveInv, (\E t \in Text : Post(t) \/ Edit(t)) \/ Remove
  PROVE  ArchiveInv'
<1>1. PICK state \in {"posted", "gone"}, text \in Text : Author(state, text)
  BY DEF Post, Edit, Remove, ArchiveInv, EventsAreReal
<1> QED BY <1>1, AuthorKeeps

\* Steps on the way of an event, which neither the worker nor Discord notices.
LEMMA EventsKeep ==
  ASSUME ArchiveInv, UNCHANGED <<comment, returned, ops, keys, record, discord, handler, heard, late, dead>>,
         hooks' \subseteq RealEvent, failed' \subseteq RealEvent, plan' \in RealEvent \cup {NoEvent},
         inbox' \in Seq(RealEvent), snapshots' \in Seq(RealEvent),
         inbox # <<>> => inbox' # <<>>, snapshots # <<>> => snapshots' # <<>>,
         faults' \in 0..MaxFaults, runs' \in 0..MaxRuns
  PROVE  ArchiveInv'
<1>1. TypeOK'
  <2>1. /\ hooks' \in SUBSET Event /\ failed' \in SUBSET Event /\ plan' \in Event
        /\ inbox' \in Seq(Event) /\ snapshots' \in Seq(Event)
    BY RealTypes, IdleTypes
  <2> QED BY <2>1 DEF ArchiveInv, TypeOK, record, discord
<1>2. EventsAreReal'
  BY DEF ArchiveInv, EventsAreReal
<1>3. ClaimsHeld' /\ LoopAgrees' /\ OpenedWhileClosed' /\ OpenForSync'
  BY DEF ArchiveInv, ClaimsHeld, LoopAgrees, OpenedWhileClosed, OpenForSync, Parts, record, discord
<1> QED BY <1>1, <1>2, <1>3 DEF ArchiveInv

LEMMA WebhooksKeep ==
  ASSUME ArchiveInv,
         (\E event \in hooks : Deliver(event) \/ FailDelivery(event)) \/ Redeliver
  PROVE  ArchiveInv'
<1>1. /\ UNCHANGED <<comment, returned, ops, keys, record, discord, handler, heard, late, dead>>
      /\ UNCHANGED <<plan, snapshots, runs>>
  BY DEF Deliver, FailDelivery, Redeliver, queues, history
<1>2. /\ hooks' \subseteq RealEvent /\ failed' \subseteq RealEvent
      /\ faults' \in 0..MaxFaults
  BY DEF Deliver, FailDelivery, Redeliver, history, ArchiveInv, TypeOK, EventsAreReal
<1>3. inbox' \in Seq(RealEvent) /\ (inbox # <<>> => inbox' # <<>>)
  <2>1. inbox' = inbox \/ \E event \in hooks : inbox' = Append(inbox, event)
    BY DEF Deliver, FailDelivery, Redeliver, queues
  <2>2. inbox \in Seq(RealEvent) /\ hooks \subseteq RealEvent
    BY DEF ArchiveInv, EventsAreReal
  <2> QED BY <2>1, <2>2, AppendProperties
<1> QED BY <1>1, <1>2, <1>3, EventsKeep DEF ArchiveInv, TypeOK, EventsAreReal

LEMMA ReconciliationKeeps ==
  ASSUME ArchiveInv, ReadInventory \/ EnqueueSnapshot
  PROVE  ArchiveInv'
<1>1. /\ UNCHANGED <<comment, returned, ops, keys, record, discord, handler, heard, late, dead>>
      /\ UNCHANGED <<hooks, failed, inbox, faults>>
  BY DEF ReadInventory, EnqueueSnapshot, queues, history
<1>2. plan' \in RealEvent \cup {NoEvent} /\ runs' \in 0..MaxRuns
  <2>1. CASE ReadInventory
    BY <2>1 DEF ReadInventory, ArchiveInv, TypeOK, EventsAreReal, RealEvent, Event, Comment
  <2>2. CASE EnqueueSnapshot
    BY <2>2 DEF EnqueueSnapshot, ArchiveInv, TypeOK
  <2> QED BY <2>1, <2>2
<1>3. snapshots' \in Seq(RealEvent) /\ (snapshots # <<>> => snapshots' # <<>>)
  <2>1. snapshots' = snapshots \/ (plan # NoEvent /\ snapshots' = Append(snapshots, plan))
    BY DEF ReadInventory, EnqueueSnapshot, queues
  <2>2. snapshots \in Seq(RealEvent) /\ plan \in RealEvent \cup {NoEvent}
    BY DEF ArchiveInv, EventsAreReal
  <2> QED BY <2>1, <2>2, AppendProperties
<1> QED BY <1>1, <1>2, <1>3, EventsKeep DEF ArchiveInv, TypeOK, EventsAreReal

-----------------------------------------------------------------------------
(* The worker: claims, ends and failures.                                  *)

LEMMA ClaimEventKeeps ==
  ASSUME ArchiveInv, ClaimEvent \/ ClaimSnapshot
  PROVE  ArchiveInv'
<1>1. PICK event \in RealEvent, job \in {"live", "snapshot"} :
        /\ handler' = [Idle EXCEPT !.job = job, !.event = event, !.step = StepOf(event)]
        /\ job = "live" => inbox # <<>>
        /\ job = "snapshot" => snapshots # <<>>
  <2>1. CASE ClaimEvent
    BY <2>1, HeadTailProperties DEF ClaimEvent, ArchiveInv, EventsAreReal
  <2>2. CASE ClaimSnapshot
    BY <2>2, HeadTailProperties DEF ClaimSnapshot, ArchiveInv, EventsAreReal
  <2> QED BY <2>1, <2>2
<1>2. ClaimOnly
  BY DEF ClaimEvent, ClaimSnapshot
<1>3. /\ handler' \in Handler /\ handler'.job = job /\ handler'.event = event
      /\ \/ handler'.step = "delete"
         \/ handler'.step = "upsert" /\ event.kind = "written"
  BY <1>1, IdleTypes, RealTypes DEF Handler, StepOf, RealEvent
<1>4. TypeOK'
  BY <1>2, <1>3 DEF ClaimOnly, ArchiveInv, TypeOK, outside, queues, record, discord, history
<1>5. EventsAreReal'
  BY <1>2 DEF ClaimOnly, ArchiveInv, EventsAreReal, outside, queues
<1>6. ClaimsHeld' /\ LoopAgrees' /\ OpenedWhileClosed' /\ OpenForSync'
  BY <1>1, <1>2, <1>3 DEF ClaimOnly, ArchiveInv, ClaimsHeld, LoopAgrees, OpenedWhileClosed, OpenForSync,
     SyncSteps, outside, queues, record, discord, history
<1> QED BY <1>4, <1>5, <1>6 DEF ArchiveInv

LEMMA ClaimSyncKeeps ==
  ASSUME ArchiveInv, ClaimSync
  PROVE  ArchiveInv'
<1> DEFINE made   == item.destination # NoMessage
           opened == thread.id # NoThread /\ thread.closed
           step   == IF thread.id # NoThread /\ thread.closed THEN "open" ELSE "segment"
<1>1. /\ item.text \in Text \cup {NoText} /\ segments \in Seq(Segment)
      /\ thread.closed \in BOOLEAN /\ (thread.closed => thread.id # NoThread)
  BY DEF ArchiveInv, TypeOK, Item, OpenedWhileClosed
<1>2. made \in BOOLEAN /\ opened \in BOOLEAN
  BY Zenon
<1>3. (opened <=> thread.closed) /\ step \in {"open", "segment"} /\ (step = "open" => thread.closed)
  BY <1>1
<1>4. handler' = [Idle EXCEPT !.job = "operation", !.text = item.text, !.old = segments,
                              !.made = made, !.opened = opened, !.step = step]
  BY Zenon DEF ClaimSync
<1> HIDE DEF made, opened, step
<1>5. /\ handler' \in Handler /\ handler'.job = "operation" /\ handler'.step = step
      /\ handler'.text = item.text /\ handler'.done = <<>> /\ handler'.opened = opened
  BY <1>1, <1>2, <1>3, <1>4, IdleTypes DEF Handler, Idle
<1>6. ops # <<>> /\ Head(ops) # DeleteItem /\ ClaimOnly
  BY DEF ClaimSync
<1>7. TypeOK'
  BY <1>5, <1>6 DEF ClaimOnly, ArchiveInv, TypeOK, outside, queues, record, discord, history
<1>8. EventsAreReal'
  BY <1>6 DEF ClaimOnly, ArchiveInv, EventsAreReal, outside, queues
<1>9. LoopAgrees'
  <2>1. 0 < Len(Rendering(item.text))
    BY <1>1, RenderingTypes
  <2>2. Len(handler'.done) = 0
    BY <1>5
  <2>3. Len(handler'.done) < Len(Rendering(handler'.text))
    BY <1>5, <2>1, <2>2, Zenon
  <2> QED BY <1>3, <1>5, <2>3 DEF LoopAgrees, Parts
<1>10. ClaimsHeld' /\ OpenedWhileClosed' /\ OpenForSync'
  BY <1>1, <1>3, <1>5, <1>6 DEF ClaimOnly, ArchiveInv, ClaimsHeld, OpenedWhileClosed, OpenForSync,
     SyncSteps, outside, queues, record, discord, history
<1> QED BY <1>7, <1>8, <1>9, <1>10 DEF ArchiveInv

LEMMA ClaimDeleteKeeps ==
  ASSUME ArchiveInv, ClaimDelete
  PROVE  ArchiveInv'
<1> DEFINE step == IF thread.id = NoThread THEN "end" ELSE IF segments = <<>> THEN "mark" ELSE "erase"
<1>1. /\ handler' = [Idle EXCEPT !.job = "operation", !.old = segments, !.step = step]
      /\ ops # <<>> /\ Head(ops) = DeleteItem /\ ClaimOnly
  BY Zenon DEF ClaimDelete
<1>2. step \in {"end", "mark", "erase"} /\ (step = "erase" => segments # <<>>)
  OBVIOUS
<1>3. segments \in Seq(Segment)
  BY DEF ArchiveInv, TypeOK
<1> HIDE DEF step
<1>4. /\ handler' \in Handler /\ handler'.job = "operation" /\ handler'.step = step
      /\ handler'.old = segments
  BY <1>1, <1>2, <1>3, IdleTypes DEF Handler
<1>5. TypeOK'
  BY <1>1, <1>4 DEF ClaimOnly, ArchiveInv, TypeOK, outside, queues, record, discord, history
<1>6. EventsAreReal'
  BY <1>1 DEF ClaimOnly, ArchiveInv, EventsAreReal, outside, queues
<1>7. ClaimsHeld' /\ LoopAgrees' /\ OpenedWhileClosed' /\ OpenForSync'
  BY <1>1, <1>2, <1>4 DEF ClaimOnly, ArchiveInv, ClaimsHeld, LoopAgrees, OpenedWhileClosed, OpenForSync,
     SyncSteps, outside, queues, record, discord, history
<1> QED BY <1>5, <1>6, <1>7 DEF ArchiveInv

LEMMA SettleKeeps ==
  ASSUME ArchiveInv, SettleRow, handler.step = "end" \/ dead',
         faults' \in 0..MaxFaults, dead' \in BOOLEAN, dead => dead'
  PROVE  ArchiveInv'
<1>1. /\ inbox' = inbox \/ (inbox # <<>> /\ inbox' = Tail(inbox))
      /\ snapshots' = snapshots \/ (snapshots # <<>> /\ snapshots' = Tail(snapshots))
      /\ ops' = ops \/ (ops # <<>> /\ ops' = Tail(ops))
  BY DEF SettleRow, ArchiveInv, ClaimsHeld
<1>2. inbox' \in Seq(RealEvent) /\ snapshots' \in Seq(RealEvent) /\ ops' \in Seq(Key)
  <2>1. inbox \in Seq(RealEvent) /\ snapshots \in Seq(RealEvent) /\ ops \in Seq(Key)
    BY DEF ArchiveInv, EventsAreReal, TypeOK
  <2> QED BY <1>1, <2>1, HeadTailProperties
<1>3. handler' = Idle /\ UNCHANGED <<outside, keys, record, discord, heard, late>>
  BY DEF SettleRow
<1>4. TypeOK'
  BY <1>2, <1>3, RealTypes, IdleTypes DEF ArchiveInv, TypeOK, outside, record, discord
<1>5. EventsAreReal'
  BY <1>2, <1>3 DEF ArchiveInv, EventsAreReal, outside
<1>6. ClaimsHeld' /\ LoopAgrees' /\ OpenedWhileClosed'
  BY <1>3, IdleTypes DEF ArchiveInv, ClaimsHeld, LoopAgrees, OpenedWhileClosed, SyncSteps, record
<1>7. OpenForSync'
  <2>1. CASE dead'
    BY <1>3, <2>1 DEF ArchiveInv, OpenForSync, record, discord
  <2>2. CASE handler.job = "operation" /\ handler.step = "end" /\ ~dead
    BY <1>3, <2>2 DEF ArchiveInv, OpenForSync, SyncSteps, record, discord
  <2>3. CASE handler.job # "operation" /\ ~dead
    <3>1. ops' = ops
      BY <2>3 DEF SettleRow
    <3> QED BY <1>3, <2>3, <3>1, IdleTypes DEF ArchiveInv, OpenForSync, record, discord
  <2> QED BY <2>1, <2>2, <2>3
<1> QED BY <1>4, <1>5, <1>6, <1>7 DEF ArchiveInv

LEMMA EndKeeps ==
  ASSUME ArchiveInv, Finish \/ GiveUp \/ NotFound
  PROVE  ArchiveInv'
<1>1. SettleRow /\ (handler.step = "end" \/ dead') /\ (dead => dead')
  BY DEF Finish, GiveUp, NotFound
<1>2. faults' \in 0..MaxFaults
  BY DEF Finish, GiveUp, NotFound, ArchiveInv, TypeOK
<1>3. dead' \in BOOLEAN
  BY Zenon DEF Finish, GiveUp, NotFound, ArchiveInv, TypeOK
<1> QED BY <1>1, <1>2, <1>3, SettleKeeps

LEMMA InterruptKeeps ==
  ASSUME ArchiveInv, Interrupt
  PROVE  ArchiveInv'
<1>1. /\ handler' = Idle /\ plan' \in {plan, NoEvent}
      /\ UNCHANGED <<comment, hooks, failed, runs, returned, queues, record, discord, heard, late,
                     dead>>
  BY DEF Interrupt
<1>2. faults' \in 0..MaxFaults
  BY DEF Interrupt, ArchiveInv, TypeOK
<1>3. TypeOK'
  BY <1>1, <1>2, IdleTypes DEF ArchiveInv, TypeOK, queues, record, discord
<1>4. EventsAreReal'
  BY <1>1 DEF ArchiveInv, EventsAreReal, queues
<1>5. ClaimsHeld' /\ LoopAgrees' /\ OpenedWhileClosed' /\ OpenForSync'
  BY <1>1, IdleTypes DEF ArchiveInv, ClaimsHeld, LoopAgrees, OpenedWhileClosed, OpenForSync, SyncSteps,
     queues, record, discord
<1> QED BY <1>3, <1>4, <1>5 DEF ArchiveInv

-----------------------------------------------------------------------------
(* The event handler.                                                      *)

LEMMA GotoTypes ==
  ASSUME ArchiveInv, NEW step \in SyncSteps \cup {"upsert", "sync", "delete", "erase", "mark", "end"},
         Goto(step)
  PROVE  /\ handler' \in Handler /\ handler'.step = step /\ handler'.job = handler.job
         /\ handler'.event = handler.event /\ handler'.text = handler.text
         /\ handler'.old = handler.old /\ handler'.done = handler.done
         /\ handler'.opened = handler.opened
BY DEF Goto, ArchiveInv, TypeOK, Handler, SyncSteps

LEMMA HearTypes ==
  ASSUME ArchiveInv, Hear, handler.event \in RealEvent
  PROVE  /\ heard' \in Version /\ late' \in BOOLEAN /\ faults' = faults /\ dead' = dead
<1>1. heard' \in Version
  BY DEF Hear, ArchiveInv, TypeOK, RealEvent, Event
<1>2. late' \in BOOLEAN
  BY Zenon DEF Hear
<1> QED BY <1>1, <1>2 DEF Hear

LEMMA UpsertKeeps ==
  ASSUME ArchiveInv, UpsertItem
  PROVE  ArchiveInv'
<1>1. handler.step = "upsert" /\ handler.event \in RealEvent /\ handler.event.kind = "written"
      /\ handler.job # "operation"
  BY DEF UpsertItem, ArchiveInv, ClaimsHeld
<1>2. /\ handler' \in Handler /\ handler'.step = "sync" /\ handler'.job = handler.job
      /\ handler'.event = handler.event
  BY GotoTypes DEF UpsertItem
<1>3. /\ heard' \in Version /\ late' \in BOOLEAN /\ faults' = faults /\ dead' = dead
  BY <1>1, HearTypes DEF UpsertItem
<1>4. item' \in Item
  BY <1>1 DEF UpsertItem, ArchiveInv, TypeOK, Item, RealEvent
<1>5. UNCHANGED <<outside, queues, segments, thread, discord>>
  BY DEF UpsertItem
<1>6. TypeOK'
  BY <1>2, <1>3, <1>4, <1>5 DEF ArchiveInv, TypeOK, outside, queues, discord
<1>7. EventsAreReal'
  BY <1>5 DEF ArchiveInv, EventsAreReal, outside, queues
<1>8. ClaimsHeld' /\ LoopAgrees' /\ OpenedWhileClosed' /\ OpenForSync'
  BY <1>1, <1>2, <1>3, <1>5 DEF ArchiveInv, ClaimsHeld, LoopAgrees, OpenedWhileClosed, OpenForSync,
     SyncSteps, queues, discord
<1> QED BY <1>6, <1>7, <1>8 DEF ArchiveInv

\* A row is added behind those that wait.
LEMMA EnqueueTypes ==
  ASSUME ArchiveInv, NEW key \in Key, Enqueue(key)
  PROVE  /\ ops' \in Seq(Key) /\ keys' \in SUBSET Key
         /\ ops # <<>> => ops' # <<>> /\ Head(ops') = Head(ops)
<1>1. ops' = ops \/ ops' = Append(ops, key)
  BY DEF Enqueue
<1>2. ops \in Seq(Key) /\ keys \in SUBSET Key
  BY DEF ArchiveInv, TypeOK
<1>3. keys' \in SUBSET Key
  BY <1>2 DEF Enqueue
<1> QED BY <1>1, <1>2, <1>3, AppendProperties, HeadTailAppend

LEMMA EventEndKeeps ==
  ASSUME ArchiveInv, handler.job # "operation", Goto("end"),
         ops' \in Seq(Key), keys' \in SUBSET Key,
         ops # <<>> => ops' # <<>> /\ Head(ops') = Head(ops),
         heard' \in Version, late' \in BOOLEAN, UNCHANGED <<faults, dead>>,
         UNCHANGED <<outside, inbox, snapshots, record, discord>>
  PROVE  ArchiveInv'
<1>1. /\ handler' \in Handler /\ handler'.step = "end" /\ handler'.job = handler.job
  BY GotoTypes
<1>2. TypeOK'
  BY <1>1 DEF ArchiveInv, TypeOK, outside, record, discord
<1>3. EventsAreReal'
  BY DEF ArchiveInv, EventsAreReal, outside
<1>4. ClaimsHeld' /\ LoopAgrees' /\ OpenedWhileClosed' /\ OpenForSync'
  BY <1>1 DEF ArchiveInv, ClaimsHeld, LoopAgrees, OpenedWhileClosed, OpenForSync, SyncSteps, record,
     discord
<1> QED BY <1>2, <1>3, <1>4 DEF ArchiveInv

LEMMA EnqueuesKeep ==
  ASSUME ArchiveInv, EnqueueSync \/ EnqueueDelete
  PROVE  ArchiveInv'
<1>1. CASE EnqueueSync
  <2>1. /\ handler.job # "operation" /\ SyncOf(handler.event.text) \in Key
        /\ Enqueue(SyncOf(handler.event.text)) /\ UNCHANGED history
    BY <1>1, KeyTypes DEF EnqueueSync, ArchiveInv, ClaimsHeld, RealEvent
  <2> QED BY <2>1, EnqueueTypes, EventEndKeeps DEF Enqueue, history, ArchiveInv, TypeOK
<1>2. CASE EnqueueDelete
  <2>1. handler.job # "operation" /\ handler.event \in RealEvent /\ Hear
    BY <1>2 DEF EnqueueDelete, ArchiveInv, ClaimsHeld
  <2>2. heard' \in Version /\ late' \in BOOLEAN /\ faults' = faults /\ dead' = dead
    BY <2>1, HearTypes
  <2>3. CASE Enqueue(DeleteItem)
    BY <2>1, <2>2, <2>3, KeyTypes, EnqueueTypes, EventEndKeeps DEF Enqueue
  <2>4. CASE Goto("end") /\ UNCHANGED <<outside, queues, record, discord>>
    BY <2>1, <2>2, <2>4, EventEndKeeps DEF queues, ArchiveInv, TypeOK
  <2> QED BY <1>2, <2>3, <2>4 DEF EnqueueDelete
<1> QED BY <1>1, <1>2

-----------------------------------------------------------------------------
(* discord.item.sync                                                       *)

\* A step of a sync that goes on as one, or ends with the thread as the issue wants it.
LEMMA SyncStepKeeps ==
  ASSUME ArchiveInv, handler.step \in SyncSteps,
         handler' \in Handler, handler'.job = handler.job, handler'.opened = handler.opened,
         handler'.step \in SyncSteps \cup {"end"},
         handler'.step \in {"open", "close"} => thread.closed,
         handler'.step = "attach" => ~thread.closed,
         handler'.step = "end" => (thread.closed => archived'),
         LoopAgrees',
         item' \in Item, segments' \in Seq(Segment),
         thread' \in [id : Nat, closed : BOOLEAN], thread'.closed = thread.closed,
         thread'.closed => thread'.id # NoThread,
         archived' \in BOOLEAN, archived' => thread.closed,
         messages' \in [Message -> Shown], posted' \in Message \cup {NoMessage}, threads' \in Nat,
         UNCHANGED <<outside, queues, history>>
  PROVE  ArchiveInv'
<1>1. TypeOK'
  BY DEF ArchiveInv, TypeOK, outside, queues, history
<1>2. EventsAreReal'
  BY DEF ArchiveInv, EventsAreReal, outside, queues
<1>3. handler.job = "operation" /\ Head(ops) # DeleteItem /\ (handler.opened <=> thread.closed)
      /\ ops # <<>>
  BY DEF ArchiveInv, ClaimsHeld, OpenedWhileClosed
<1>4. ClaimsHeld'
  BY <1>3 DEF ClaimsHeld, SyncSteps, queues
<1>5. OpenedWhileClosed' /\ OpenForSync'
  BY <1>3 DEF ArchiveInv, OpenedWhileClosed, OpenForSync, SyncSteps, queues, history
<1> QED BY <1>1, <1>2, <1>4, <1>5 DEF ArchiveInv

\* What the lemma above asks of the parts a step leaves alone.
LEMMA RecordTypes ==
  ASSUME ArchiveInv
  PROVE  /\ item \in Item /\ segments \in Seq(Segment)
         /\ thread \in [id : Nat, closed : BOOLEAN] /\ (thread.closed => thread.id # NoThread)
         /\ archived \in BOOLEAN /\ (archived => thread.closed)
         /\ messages \in [Message -> Shown] /\ posted \in Message \cup {NoMessage}
         /\ threads \in Nat
BY DEF ArchiveInv, TypeOK, OpenedWhileClosed, OpenForSync

LEMMA OpenThreadKeeps ==
  ASSUME ArchiveInv, OpenThread
  PROVE  ArchiveInv'
<1>1. /\ handler.step = "open" /\ archived' = FALSE /\ Goto("segment")
      /\ UNCHANGED <<outside, queues, record, messages, posted, threads, history>>
  BY DEF OpenThread
<1>2. /\ handler' \in Handler /\ handler'.step = "segment" /\ handler'.job = handler.job
      /\ handler'.text = handler.text /\ handler'.old = handler.old /\ handler'.done = handler.done
      /\ handler'.opened = handler.opened
  BY <1>1, GotoTypes DEF SyncSteps
<1>3. LoopAgrees'
  BY <1>1, <1>2 DEF ArchiveInv, LoopAgrees, Parts
<1> QED BY <1>1, <1>2, <1>3, RecordTypes, SyncStepKeeps DEF SyncSteps, record

\* The loop goes on with one message more.
LEMMA AfterTypes ==
  ASSUME ArchiveInv, handler.step \in {"segment", "locate"}, NEW done \in Seq(Message),
         Len(done) > 0, Len(done) <= Len(Parts), handler' \in Handler,
         handler'.step = AfterSegment(done), handler'.done = done, handler'.old = handler.old,
         handler'.text = handler.text
  PROVE  handler'.step \in {"segment", "surplus", "save"} /\ LoopAgrees'
<1>1. Len(done) \in Nat /\ Len(handler.old) \in Nat /\ Len(Parts) \in Nat /\ Parts' = Parts
  BY HandlerTypes, LenProperties DEF Parts
<1>2. \/ handler'.step = "segment" /\ Len(done) < Len(Parts)
      \/ handler'.step = "surplus" /\ Len(done) = Len(Parts) /\ Len(handler.old) > Len(Parts)
      \/ handler'.step = "save" /\ Len(done) = Len(Parts)
  BY <1>1 DEF AfterSegment
<1> QED BY <1>1, <1>2 DEF LoopAgrees

\* The message at the position of the loop, found or made.
LEMMA AppendTypes ==
  ASSUME ArchiveInv, handler.step = "segment", NEW message \in Message
  PROVE  /\ Append(handler.done, message) \in Seq(Message)
         /\ Len(Append(handler.done, message)) = Position
         /\ Position \in 1..Len(Parts) /\ Parts[Position] \in Shown
<1>1. Len(handler.done) < Len(Parts) /\ Len(handler.done) \in Nat /\ Len(Parts) \in Nat
      /\ handler.done \in Seq(Message)
  BY HandlerTypes DEF ArchiveInv, LoopAgrees
<1>2. Position \in 1..Len(Parts)
  BY <1>1 DEF Position
<1>3. Parts[Position] \in Shown
  BY <1>2, HandlerTypes
<1>4. Append(handler.done, message) \in Seq(Message)
      /\ Len(Append(handler.done, message)) = Position
  BY <1>1, AppendProperties DEF Position
<1> QED BY <1>2, <1>3, <1>4

LEMMA EditSegmentKeeps ==
  ASSUME ArchiveInv, EditSegment
  PROVE  ArchiveInv'
<1> DEFINE segment == handler.old[Position]
           done    == Append(handler.done, segment.message)
<1>1. handler.step = "segment" /\ Position <= Len(handler.old)
  BY DEF EditSegment
<1>2. segment.message \in Message
  <2>1. Position \in 1..Len(handler.old) /\ handler.old \in Seq(Segment)
    BY <1>1, HandlerTypes DEF Position
  <2>2. segment \in Segment
    BY <2>1, ElementOfSeq
  <2> HIDE DEF segment
  <2> QED BY <2>2 DEF Segment
<1>3. done \in Seq(Message) /\ Len(done) = Position /\ Position \in 1..Len(Parts)
      /\ Parts[Position] \in Shown
  BY <1>1, <1>2, AppendTypes
<1>4. \/ NotFound
      \/ /\ handler' = [handler EXCEPT !.done = done, !.step = AfterSegment(done)]
         /\ messages' \in {messages, [messages EXCEPT ![segment.message] = Parts[Position]]}
         /\ UNCHANGED <<outside, queues, record, archived, posted, threads, history>>
  BY DEF EditSegment, ClaimOnly, discord
<1>5. CASE NotFound
  BY <1>5, EndKeeps
<1>6. CASE /\ handler' = [handler EXCEPT !.done = done, !.step = AfterSegment(done)]
           /\ messages' \in {messages, [messages EXCEPT ![segment.message] = Parts[Position]]}
           /\ UNCHANGED <<outside, queues, record, archived, posted, threads, history>>
  <2>1. messages' \in [Message -> Shown]
    BY <1>2, <1>3, <1>6, RecordTypes
  <2> HIDE DEF done, segment
  <2>2. AfterSegment(done) \in {"segment", "surplus", "save"}
    BY DEF AfterSegment
  <2>3. /\ handler' \in Handler /\ handler'.step = AfterSegment(done) /\ handler'.done = done
        /\ handler'.job = handler.job /\ handler'.opened = handler.opened
        /\ handler'.old = handler.old /\ handler'.text = handler.text
    BY <1>3, <1>6, <2>2, HandlerTypes DEF Handler
  <2>4. LoopAgrees'
    <3>1. Len(done) > 0 /\ Len(done) <= Len(Parts)
      BY <1>3, HandlerTypes
    <3> QED BY <1>1, <1>3, <2>3, <3>1, AfterTypes
  <2> QED BY <1>1, <1>6, <2>1, <2>2, <2>3, <2>4, RecordTypes, SyncStepKeeps DEF SyncSteps, record
<1> QED BY <1>4, <1>5, <1>6

LEMMA PostKeeps ==
  ASSUME ArchiveInv, CreateThread \/ CreateMessage
  PROVE  ArchiveInv'
<1> DEFINE done == Append(handler.done, posted')
<1>1. PICK step \in {"attach", "next", "locate"} :
        /\ PostMessage(step)
        /\ threads' \in {threads, threads + 1}
        /\ step = "attach" => thread.id = NoThread
  BY DEF CreateThread, CreateMessage
<1>2. handler.step = "segment"
  BY DEF CreateThread, CreateMessage
<1>3. posted' \in Message
  BY <1>1, RecordTypes DEF PostMessage, Message
<1>4. done \in Seq(Message) /\ Len(done) = Position /\ Position \in 1..Len(Parts)
      /\ Parts[Position] \in Shown
  BY <1>2, <1>3, AppendTypes
<1>5. messages' \in [Message -> Shown] /\ threads' \in Nat
  BY <1>1, <1>3, <1>4, RecordTypes DEF PostMessage
<1> DEFINE next == IF step = "next" THEN AfterSegment(done) ELSE step
<1>6. handler' = [handler EXCEPT !.done = done, !.step = next]
  BY <1>1, Zenon DEF PostMessage
<1> HIDE DEF done
<1>7. next \in {"segment", "surplus", "save", "attach", "locate"}
  BY DEF AfterSegment
<1>8. /\ handler' \in Handler /\ handler'.step = next /\ handler'.done = done
      /\ handler'.job = handler.job /\ handler'.opened = handler.opened
      /\ handler'.old = handler.old /\ handler'.text = handler.text
  BY <1>4, <1>6, <1>7, HandlerTypes DEF Handler
<1>9. LoopAgrees'
  <2>1. Len(done) > 0 /\ Len(done) <= Len(Parts) /\ Parts' = Parts
    BY <1>4, <1>8, HandlerTypes DEF Parts
  <2>2. CASE step = "next"
    BY <1>2, <1>4, <1>8, <2>1, <2>2, AfterTypes
  <2>3. CASE step # "next"
    BY <1>8, <2>1, <2>3 DEF LoopAgrees
  <2> QED BY <2>2, <2>3
<1>10. UNCHANGED <<outside, queues, record, archived, history>>
  BY <1>1 DEF PostMessage
<1>11. next = "attach" => ~thread.closed
  BY <1>1, RecordTypes DEF AfterSegment
<1> HIDE DEF next
<1> QED BY <1>2, <1>3, <1>5, <1>7, <1>8, <1>9, <1>10, <1>11, RecordTypes, SyncStepKeeps
  DEF SyncSteps, record

LEMMA AttachKeeps ==
  ASSUME ArchiveInv, AttachThread
  PROVE  ArchiveInv'
<1>1. /\ handler.step = "attach" /\ thread' = [thread EXCEPT !.id = threads] /\ Goto("locate")
      /\ UNCHANGED <<outside, queues, item, segments, discord, history>>
  BY DEF AttachThread
<1>2. /\ handler' \in Handler /\ handler'.step = "locate" /\ handler'.job = handler.job
      /\ handler'.text = handler.text /\ handler'.old = handler.old /\ handler'.done = handler.done
      /\ handler'.opened = handler.opened
  BY <1>1, GotoTypes DEF SyncSteps
<1>3. LoopAgrees'
  BY <1>1, <1>2 DEF ArchiveInv, LoopAgrees, Parts
<1>4. thread' \in [id : Nat, closed : BOOLEAN] /\ thread'.closed = thread.closed
  BY <1>1, RecordTypes
<1>5. thread'.closed => thread'.id # NoThread
  BY <1>1, <1>4 DEF ArchiveInv, OpenedWhileClosed
<1> QED BY <1>1, <1>2, <1>3, <1>4, <1>5, RecordTypes, SyncStepKeeps DEF SyncSteps, discord

LEMMA LocateKeeps ==
  ASSUME ArchiveInv, SetDestination
  PROVE  ArchiveInv'
<1> DEFINE last == handler.done[Len(handler.done)]
<1>1. /\ handler.step = "locate" /\ item' = [item EXCEPT !.destination = last]
      /\ Goto(AfterSegment(handler.done))
      /\ UNCHANGED <<outside, queues, segments, thread, discord, history>>
  BY DEF SetDestination
<1>2. Len(handler.done) > 0 /\ Len(handler.done) <= Len(Parts)
  BY <1>1 DEF ArchiveInv, LoopAgrees
<1>3. last \in Message
  BY <1>2, HandlerTypes, ElementOfSeq
<1> HIDE DEF last
<1>4. item' \in Item
  BY <1>1, <1>3, RecordTypes DEF Item
<1>5. AfterSegment(handler.done) \in {"segment", "surplus", "save"}
  BY DEF AfterSegment
<1>6. /\ handler' \in Handler /\ handler'.step = AfterSegment(handler.done)
      /\ handler'.job = handler.job
      /\ handler'.text = handler.text /\ handler'.old = handler.old /\ handler'.done = handler.done
      /\ handler'.opened = handler.opened
  BY <1>1, <1>5, GotoTypes DEF SyncSteps
<1>7. LoopAgrees'
  BY <1>1, <1>2, <1>6, HandlerTypes, AfterTypes
<1> QED BY <1>1, <1>4, <1>5, <1>6, <1>7, RecordTypes, SyncStepKeeps DEF SyncSteps, discord

LEMMA SurplusKeeps ==
  ASSUME ArchiveInv, DeleteSurplus
  PROVE  ArchiveInv'
<1> DEFINE surplus == handler.old[Len(Parts) + 1].message
           first   == SubSeq(handler.old, 1, Len(Parts))
           second  == SubSeq(handler.old, Len(Parts) + 2, Len(handler.old))
           rest    == first \o second
           next    == IF Len(rest) > Len(Parts) THEN "surplus" ELSE "save"
<1>1. /\ handler.step = "surplus" /\ Len(handler.old) > Len(Parts)
      /\ Len(handler.done) = Len(Parts)
      /\ handler.old \in Seq(Segment) /\ Len(handler.old) \in Nat /\ Len(Parts) \in Nat
  BY HandlerTypes DEF DeleteSurplus, ArchiveInv, LoopAgrees
<1>2. \A i \in 1..Len(handler.old) : handler.old[i] \in Segment
  BY <1>1, ElementOfSeq
<1>3. surplus \in Message
  <2>1. handler.old[Len(Parts) + 1] \in Segment
    BY <1>1, <1>2
  <2> QED BY <2>1 DEF Segment
<1>4. rest \in Seq(Segment)
  <2>1. first \in Seq(Segment)
    <3>1. \A i \in 1..Len(Parts) : handler.old[i] \in Segment
      BY <1>1, <1>2
    <3> QED BY <1>1, <3>1, SubSeqProperties
  <2>2. second \in Seq(Segment)
    <3>1. \A i \in (Len(Parts) + 2)..Len(handler.old) : handler.old[i] \in Segment
      BY <1>1, <1>2
    <3> QED BY <1>1, <3>1, SubSeqProperties
  <2> HIDE DEF first, second
  <2> QED BY <2>1, <2>2, ConcatProperties
<1>5. \/ NotFound
      \/ /\ messages' = [messages EXCEPT ![surplus] = Gone]
         /\ handler' = [handler EXCEPT !.old = rest, !.step = next]
         /\ UNCHANGED <<outside, queues, record, archived, posted, threads, history>>
  BY Zenon DEF DeleteSurplus
<1>6. CASE NotFound
  BY <1>6, EndKeeps
<1>7. CASE /\ messages' = [messages EXCEPT ![surplus] = Gone]
           /\ handler' = [handler EXCEPT !.old = rest, !.step = next]
           /\ UNCHANGED <<outside, queues, record, archived, posted, threads, history>>
  <2> HIDE DEF surplus, rest
  <2>1. messages' \in [Message -> Shown]
    BY <1>3, <1>7, RecordTypes, IdleTypes
  <2>2. /\ handler' \in Handler /\ handler'.step = next /\ handler'.done = handler.done
        /\ handler'.job = handler.job /\ handler'.opened = handler.opened
        /\ handler'.old = rest /\ handler'.text = handler.text
    BY <1>4, <1>7, HandlerTypes DEF Handler
  <2>3. LoopAgrees'
    <3>1. Parts' = Parts
      BY <2>2 DEF Parts
    <3> QED BY <1>1, <2>2, <3>1 DEF LoopAgrees
  <2> QED BY <1>1, <1>7, <2>1, <2>2, <2>3, RecordTypes, SyncStepKeeps DEF SyncSteps, record
<1> QED BY <1>5, <1>6, <1>7

LEMMA ReplaceKeeps ==
  ASSUME ArchiveInv, ReplaceSegments
  PROVE  ArchiveInv'
<1> DEFINE next == IF handler.opened THEN "close" ELSE "end"
<1>1. /\ handler.step = "save" /\ Goto(next)
      /\ segments' = [i \in 1..Len(Parts) |-> [message |-> handler.done[i], hash |-> Parts[i]]]
      /\ UNCHANGED <<outside, queues, item, thread, discord, history>>
  BY Zenon DEF ReplaceSegments
<1>2. Len(handler.done) = Len(Parts) /\ Len(Parts) \in Nat
  BY <1>1, HandlerTypes DEF ArchiveInv, LoopAgrees
<1>3. segments' \in Seq(Segment)
  <2>1. \A i \in 1..Len(Parts) : handler.done[i] \in Message /\ Parts[i] \in Shown
    BY <1>2, HandlerTypes, ElementOfSeq
  <2>2. \A i \in 1..Len(Parts) : [message |-> handler.done[i], hash |-> Parts[i]] \in Segment
    BY <2>1 DEF Segment
  <2>3. segments' \in [1..Len(Parts) -> Segment]
    BY <1>1, <2>2
  <2> QED BY <1>2, <2>3, SeqDef
<1>4. next \in {"close", "end"} /\ (next = "close" <=> thread.closed)
  BY <1>1 DEF ArchiveInv, OpenedWhileClosed, SyncSteps
<1> HIDE DEF next
<1>5. /\ handler' \in Handler /\ handler'.step = next /\ handler'.job = handler.job
      /\ handler'.opened = handler.opened
  BY <1>1, <1>4, GotoTypes DEF SyncSteps
<1>6. LoopAgrees'
  BY <1>4, <1>5 DEF LoopAgrees
<1> QED BY <1>1, <1>3, <1>4, <1>5, <1>6, RecordTypes, SyncStepKeeps DEF SyncSteps, discord

LEMMA CloseKeeps ==
  ASSUME ArchiveInv, CloseThread
  PROVE  ArchiveInv'
<1>1. /\ handler.step = "close" /\ archived' = TRUE /\ Goto("end") /\ thread.closed
      /\ UNCHANGED <<outside, queues, record, messages, posted, threads, history>>
  BY DEF CloseThread, ArchiveInv, OpenedWhileClosed
<1>2. /\ handler' \in Handler /\ handler'.step = "end" /\ handler'.job = handler.job
      /\ handler'.opened = handler.opened
  BY <1>1, GotoTypes
<1>3. LoopAgrees'
  BY <1>2 DEF LoopAgrees
<1> QED BY <1>1, <1>2, <1>3, RecordTypes, SyncStepKeeps DEF SyncSteps, record

-----------------------------------------------------------------------------
(* discord.item.delete                                                     *)

LEMMA DeleteStepKeeps ==
  ASSUME ArchiveInv, handler.step \in {"erase", "mark"}, handler' \in Handler,
         handler'.job = handler.job, handler'.step \in {"erase", "mark", "end"},
         handler'.step = "erase" => handler'.old # <<>>,
         item' \in Item, segments' \in Seq(Segment), messages' \in [Message -> Shown],
         UNCHANGED <<outside, queues, thread, archived, posted, threads, history>>
  PROVE  ArchiveInv'
<1>1. TypeOK'
  BY DEF ArchiveInv, TypeOK, outside, queues, history
<1>2. EventsAreReal'
  BY DEF ArchiveInv, EventsAreReal, outside, queues
<1>3. ClaimsHeld' /\ LoopAgrees' /\ OpenedWhileClosed'
  BY DEF ArchiveInv, ClaimsHeld, LoopAgrees, OpenedWhileClosed, SyncSteps, queues
<1>4. OpenForSync'
  BY DEF ArchiveInv, OpenForSync, SyncSteps, queues, history
<1> QED BY <1>1, <1>2, <1>3, <1>4 DEF ArchiveInv

LEMMA EraseKeeps ==
  ASSUME ArchiveInv, DeleteMessage
  PROVE  ArchiveInv'
<1> DEFINE message == Head(handler.old).message
           next    == IF Tail(handler.old) = <<>> THEN "mark" ELSE "erase"
<1>1. /\ handler.step = "erase" /\ messages' = [messages EXCEPT ![message] = Gone]
      /\ handler' = [handler EXCEPT !.old = Tail(@), !.step = next]
      /\ UNCHANGED <<outside, queues, record, archived, posted, threads, history>>
  BY DEF DeleteMessage
<1>2. handler.old \in Seq(Segment) /\ handler.old # <<>>
  BY <1>1, HandlerTypes DEF ArchiveInv, LoopAgrees
<1>3. message \in Message /\ Tail(handler.old) \in Seq(Segment)
  <2>1. Head(handler.old) \in Segment /\ Tail(handler.old) \in Seq(Segment)
    BY <1>2, HeadTailProperties
  <2> QED BY <2>1 DEF Segment
<1> HIDE DEF message
<1>4. /\ handler' \in Handler /\ handler'.job = handler.job /\ handler'.step = next
      /\ handler'.old = Tail(handler.old)
  BY <1>1, <1>3, HandlerTypes DEF Handler
<1>5. messages' \in [Message -> Shown]
  BY <1>1, <1>3, RecordTypes, IdleTypes
<1> QED BY <1>1, <1>4, <1>5, RecordTypes, DeleteStepKeeps DEF record

LEMMA MarkKeeps ==
  ASSUME ArchiveInv, MarkDeleted
  PROVE  ArchiveInv'
<1>1. /\ handler.step = "mark" /\ Goto("end") /\ segments' = <<>>
      /\ item' = [item EXCEPT !.state = "DELETED", !.destination = NoMessage]
      /\ UNCHANGED <<outside, queues, thread, discord, history>>
  BY DEF MarkDeleted
<1>2. item' \in Item /\ segments' \in Seq(Segment)
  <2>1. item \in Item
    BY RecordTypes
  <2>2. item' \in Item
    BY <1>1, <2>1 DEF Item
  <2> QED BY <1>1, <2>2
<1>3. /\ handler' \in Handler /\ handler'.job = handler.job /\ handler'.step = "end"
  BY <1>1, GotoTypes
<1> QED BY <1>1, <1>2, <1>3, RecordTypes, DeleteStepKeeps DEF discord

-----------------------------------------------------------------------------

LEMMA StutterKeeps ==
  ASSUME ArchiveInv, UNCHANGED vars
  PROVE  ArchiveInv'
<1>1. TypeOK' /\ EventsAreReal'
  BY DEF vars, ArchiveInv, TypeOK, EventsAreReal
<1>2. ClaimsHeld' /\ LoopAgrees' /\ OpenedWhileClosed' /\ OpenForSync'
  BY DEF vars, ArchiveInv, ClaimsHeld, LoopAgrees, OpenedWhileClosed, OpenForSync, Parts
<1> QED BY <1>1, <1>2 DEF ArchiveInv

LEMMA ArchiveStep == ArchiveInv /\ [Next]_vars => ArchiveInv'
<1> SUFFICES ASSUME ArchiveInv, [Next]_vars PROVE ArchiveInv'
  OBVIOUS
<1>1. CASE (\E t \in Text : Post(t) \/ Edit(t)) \/ Remove
  BY <1>1, AuthorsKeep
<1>2. CASE (\E event \in hooks : Deliver(event) \/ FailDelivery(event)) \/ Redeliver
  BY <1>2, WebhooksKeep
<1>3. CASE ReadInventory \/ EnqueueSnapshot
  BY <1>3, ReconciliationKeeps
<1>4. CASE ClaimEvent \/ ClaimSnapshot \/ ClaimSync \/ ClaimDelete
  BY <1>4, ClaimEventKeeps, ClaimSyncKeeps, ClaimDeleteKeeps
<1>5. CASE Finish \/ GiveUp \/ Interrupt
  BY <1>5, EndKeeps, InterruptKeeps
<1>6. CASE UpsertItem \/ EnqueueSync \/ EnqueueDelete
  BY <1>6, UpsertKeeps, EnqueuesKeep
<1>7. CASE OpenThread \/ EditSegment \/ CreateThread \/ CreateMessage \/ AttachThread
  BY <1>7, OpenThreadKeeps, EditSegmentKeeps, PostKeeps, AttachKeeps
<1>8. CASE SetDestination \/ DeleteSurplus \/ ReplaceSegments \/ CloseThread
  BY <1>8, LocateKeeps, SurplusKeeps, ReplaceKeeps, CloseKeeps
<1>9. CASE DeleteMessage \/ MarkDeleted
  BY <1>9, EraseKeeps, MarkKeeps
<1>10. CASE UNCHANGED vars
  BY <1>10, StutterKeeps
<1> QED
  BY <1>1, <1>2, <1>3, <1>4, <1>5, <1>6, <1>7, <1>8, <1>9, <1>10 DEF Next, Work

-----------------------------------------------------------------------------

\* The variables of the comment relay keep their types: no step of #syncDiscordItem reads a
\* segment or a message past the end of what it has read or made.
THEOREM CommentTypeCorrect == Spec => []TypeOK
<1>1. ArchiveInv => TypeOK
  BY DEF ArchiveInv
<1> QED BY <1>1, InitArchive, ArchiveStep, PTL DEF Spec

\* A thread that was opened to write into it does not stay open: once the operations of a
\* closed issue are settled its thread is archived, however often a handler was
\* interrupted between the two (temporarilyUnarchived of #syncDiscordItem).
THEOREM OpenedThreadsAreArchived == Spec => []ArchivedAgain
<1>1. ArchiveInv => ArchivedAgain
  <2> SUFFICES ASSUME ArchiveInv, handler = Idle, ops = <<>>, ~dead PROVE archived = thread.closed
    BY DEF ArchivedAgain
  <2>1. archived \in BOOLEAN /\ thread.closed \in BOOLEAN
    BY RecordTypes
  <2>2. archived <=> thread.closed
    BY DEF ArchiveInv, OpenForSync
  <2> QED BY <2>1, <2>2
<1> QED BY <1>1, InitArchive, ArchiveStep, PTL DEF Spec
-----------------------------------------------------------------------------
(* What the loop over the segments has read is what is on record, and what *)
(* it holds is either that or new.                                         *)

Loop == SyncSteps \ {"close"}

\* An operation is of an item that has had a text.
ItemHasText ==
  /\ item.state # "none" => item.text \in Text
  /\ ops # <<>> \/ handler.step = "sync" => item.state # "none"

\* The segments on record are those of the text.
Shows(t) ==
  /\ Len(segments) = Len(Rendering(t))
  /\ \A i \in 1..Len(segments) : segments[i].hash = Rendering(t)[i]

SegmentsWhole ==
  /\ segments = <<>> \/ \E t \in Text : Shows(t)
  /\ \A i \in 1..Len(segments) : segments[i].message <= posted
  /\ \A i, j \in 1..Len(segments) : i # j => segments[i].message # segments[j].message
  /\ segments # <<>> => thread.id # NoThread

\* The loop has read the segments, of which it forgets those it has deleted.
LoopReads ==
  handler.step \in Loop =>
    /\ handler.text = item.text /\ handler.text \in Text
    /\ Len(handler.old) <= Len(segments)
    /\ \A i \in 1..Len(handler.old) : handler.old[i] = segments[i]
    /\ \A i \in 1..Len(segments) :
         i > Len(handler.old) => messages[segments[i].message] = Gone
    /\ handler.step = "save" => Len(handler.old) <= Len(Parts)
    /\ Len(handler.done) > 0 /\ handler.step # "attach" => thread.id # NoThread

\* It takes the message of the segment at its position, or makes one.
LoopMakes ==
  handler.step \in Loop =>
    /\ \A i \in 1..Len(handler.done) : handler.done[i] <= posted
    /\ \A i, j \in 1..Len(handler.done) : i # j => handler.done[i] # handler.done[j]
    /\ \A i \in 1..Len(handler.done) :
         i <= Len(handler.old) => handler.done[i] = handler.old[i].message

\* Outside the loop a handler holds no message that is not on record.
HeldNamed ==
  /\ handler.step \notin Loop => Held \subseteq Named
  /\ handler.step \in {"erase", "mark"} => handler.done = <<>>

\* A deletion does not forget a segment before its message is gone.
DeleteReads ==
  handler.step \in {"erase", "mark"} =>
    /\ handler.job = "operation" /\ Head(ops) = DeleteItem
    /\ \A i \in 1..Len(segments) :
         \/ messages[segments[i].message] = Gone
         \/ handler.step = "erase" /\ \E j \in 1..Len(handler.old) :
              handler.old[j].message = segments[i].message

ThreadCount ==
  /\ handler.step = "attach" => threads > 0
  /\ threads - 1 <= faults
  /\ thread.id = NoThread /\ handler.step # "attach" => threads <= faults

LoopInv ==
  /\ ItemHasText /\ SegmentsWhole /\ LoopReads /\ LoopMakes /\ HeldNamed /\ DeleteReads
  /\ ThreadCount

LEMMA InitLoop == Init => LoopInv
<1> SUFFICES ASSUME Init PROVE LoopInv
  OBVIOUS
<1>1. handler.step = "none" /\ handler.done = <<>> /\ segments = <<>> /\ ops = <<>>
  BY DEF Init, Idle
<1>2. ItemHasText /\ SegmentsWhole
  BY <1>1 DEF Init, ItemHasText, SegmentsWhole
<1>3. LoopReads /\ LoopMakes /\ DeleteReads
  BY <1>1 DEF LoopReads, LoopMakes, DeleteReads, Loop, SyncSteps
<1>4. HeldNamed
  BY <1>1 DEF HeldNamed, Held, Loop, SyncSteps
<1>5. ThreadCount
  <2>1. thread.id \in {0, 1} /\ threads = thread.id /\ faults = 0
    BY DEF Init
  <2> QED BY <1>1, <2>1 DEF ThreadCount
<1> QED BY <1>2, <1>3, <1>4, <1>5 DEF LoopInv

\* Steps the item, its segments and its messages take no part in.
LEMMA SameLoop ==
  ASSUME ArchiveInv, ArchiveInv', LoopInv,
         UNCHANGED <<ops, record, discord, handler>>, faults <= faults'
  PROVE  LoopInv'
<1>1. UNCHANGED <<ops, item, segments, thread, archived, messages, posted, threads, handler>>
  BY DEF record, discord
<1>2. faults \in Nat /\ faults' \in Nat /\ threads \in Nat
  BY DEF ArchiveInv, TypeOK
<1>3. ItemHasText' /\ SegmentsWhole' /\ LoopReads' /\ LoopMakes' /\ DeleteReads'
  BY <1>1 DEF LoopInv, ItemHasText, SegmentsWhole, Shows, LoopReads, LoopMakes, DeleteReads, Parts
<1>4. HeldNamed'
  BY <1>1 DEF LoopInv, HeldNamed, Held, Named
<1>5. ThreadCount'
  <2>1. threads - 1 <= faults' /\ (threads <= faults => threads <= faults')
    BY <1>2 DEF LoopInv, ThreadCount
  <2> QED BY <1>1, <2>1 DEF LoopInv, ThreadCount
<1> QED BY <1>3, <1>4, <1>5 DEF LoopInv

\* A handler that is not in the loop and takes nothing into its hands.
LEMMA OutsideLoop ==
  ASSUME ArchiveInv, ArchiveInv', LoopInv, UNCHANGED <<segments, thread, discord>>,
         handler'.step \notin Loop \cup {"erase", "mark"},
         handler'.done = <<>> \/ (handler'.done = handler.done /\ handler.step \notin Loop),
         handler.step = "attach" => faults < faults', faults <= faults',
         ItemHasText'
  PROVE  LoopInv'
<1>1. UNCHANGED <<segments, thread, archived, messages, posted, threads>>
  BY DEF discord
<1>2. faults \in Nat /\ faults' \in Nat /\ threads \in Nat
  BY DEF ArchiveInv, TypeOK
<1>3. SegmentsWhole' /\ LoopReads' /\ LoopMakes' /\ DeleteReads'
  BY <1>1 DEF LoopInv, SegmentsWhole, Shows, LoopReads, LoopMakes, DeleteReads
<1>4. HeldNamed'
  <2>1. Named' = Named
    BY <1>1 DEF Named
  <2>2. CASE handler'.done = <<>>
    BY <2>2 DEF HeldNamed, Held
  <2>3. CASE handler'.done = handler.done /\ handler.step \notin Loop
    <3>1. Held' = Held
      BY <2>3 DEF Held
    <3> QED BY <2>1, <2>3, <3>1 DEF LoopInv, HeldNamed
  <2> QED BY <2>2, <2>3
<1>5. ThreadCount'
  <2>1. threads' = threads /\ thread' = thread /\ handler'.step # "attach"
    BY <1>1 DEF Loop, SyncSteps
  <2>2. threads - 1 <= faults'
    BY <1>2 DEF LoopInv, ThreadCount
  <2>3. thread.id = NoThread => threads <= faults'
    BY <1>2 DEF LoopInv, ThreadCount
  <2> QED BY <2>1, <2>2, <2>3 DEF ThreadCount
<1> QED BY <1>3, <1>4, <1>5 DEF LoopInv

LEMMA EndLoop ==
  ASSUME ArchiveInv, ArchiveInv', LoopInv, Finish \/ GiveUp \/ NotFound \/ Interrupt,
         handler.step = "attach" => ~NotFound
  PROVE  LoopInv'
<1>1. UNCHANGED <<item, segments, thread, discord>> /\ handler' = Idle
  BY DEF Finish, GiveUp, NotFound, Interrupt, SettleRow, record
<1>2. faults <= faults' /\ (handler.step = "attach" => faults < faults')
  BY DEF Finish, GiveUp, NotFound, Interrupt, ArchiveInv, TypeOK
<1>3. ops' # <<>> => ops # <<>>
  BY DEF Finish, GiveUp, NotFound, Interrupt, SettleRow, queues, ArchiveInv, ClaimsHeld
<1>4. ItemHasText'
  BY <1>1, <1>3 DEF LoopInv, ItemHasText, Idle
<1>5. handler'.step \notin Loop \cup {"erase", "mark"} /\ handler'.done = <<>>
  BY <1>1 DEF Idle, Loop, SyncSteps
<1> QED BY <1>1, <1>2, <1>4, <1>5, OutsideLoop

LEMMA ClaimEventLoop ==
  ASSUME ArchiveInv, ArchiveInv', LoopInv, ClaimEvent \/ ClaimSnapshot
  PROVE  LoopInv'
<1>1. handler = Idle /\ handler'.step \in {"upsert", "delete"} /\ handler'.done = <<>>
  BY DEF ClaimEvent, ClaimSnapshot, StepOf, Idle
<1>2. UNCHANGED <<item, ops, segments, thread, discord, faults>>
  BY DEF ClaimEvent, ClaimSnapshot, ClaimOnly, queues, record, history
<1>3. ItemHasText'
  BY <1>1, <1>2 DEF LoopInv, ItemHasText
<1>4. faults <= faults' /\ handler.step # "attach"
  BY <1>1, <1>2 DEF ArchiveInv, TypeOK, Idle
<1>5. handler'.step \notin Loop \cup {"erase", "mark"}
  BY <1>1 DEF Loop, SyncSteps
<1> QED BY <1>1, <1>2, <1>3, <1>4, <1>5, OutsideLoop

LEMMA EventLoop ==
  ASSUME ArchiveInv, ArchiveInv', LoopInv, UpsertItem \/ EnqueueSync \/ EnqueueDelete
  PROVE  LoopInv'
<1>1. /\ handler.step \in {"upsert", "sync", "delete"} /\ handler'.step \in {"sync", "end"}
      /\ handler'.done = handler.done
  BY GotoTypes DEF UpsertItem, EnqueueSync, EnqueueDelete, Enqueue
<1>2. UNCHANGED <<segments, thread, discord, faults>>
  BY DEF UpsertItem, EnqueueSync, EnqueueDelete, Enqueue, Hear, record, history
<1>3. ItemHasText'
  <2>1. CASE UpsertItem
    <3>1. handler.event.text \in Text
      BY <2>1 DEF UpsertItem, ArchiveInv, ClaimsHeld, RealEvent
    <3>2. item'.state = "ACTIVE" /\ item'.text = handler.event.text
      BY <2>1, RecordTypes DEF UpsertItem, Item
    <3> QED BY <3>1, <3>2 DEF ItemHasText
  <2>2. CASE EnqueueSync \/ EnqueueDelete
    <3>1. item' = item /\ handler'.step = "end"
      BY <2>2, GotoTypes DEF EnqueueSync, EnqueueDelete, Enqueue, record
    <3>2. item.state # "none" \/ ops' = ops
      BY <2>2 DEF EnqueueSync, EnqueueDelete, Enqueue, LoopInv, ItemHasText, queues
    <3> QED BY <3>1, <3>2 DEF LoopInv, ItemHasText
  <2> QED BY <2>1, <2>2
<1>4. faults <= faults'
  BY <1>2 DEF ArchiveInv, TypeOK
<1> QED BY <1>1, <1>2, <1>3, <1>4, OutsideLoop DEF Loop, SyncSteps

LEMMA ClaimDeleteLoop ==
  ASSUME ArchiveInv, ArchiveInv', LoopInv, ClaimDelete
  PROVE  LoopInv'
<1>1. /\ handler' = [Idle EXCEPT !.job = "operation", !.old = segments,
                             !.step = IF thread.id = NoThread THEN "end"
                                      ELSE IF segments = <<>> THEN "mark" ELSE "erase"]
      /\ handler = Idle /\ Head(ops) = DeleteItem /\ ClaimOnly
  BY DEF ClaimDelete
<1>2. /\ handler'.step \in {"end", "mark", "erase"} /\ (handler'.step = "mark" => segments = <<>>)
      /\ handler'.old = segments /\ handler'.done = <<>> /\ handler'.job = "operation"
  BY <1>1 DEF Idle
<1>3. UNCHANGED <<item, ops, segments, thread, archived, messages, posted, threads, faults>>
  BY <1>1 DEF ClaimOnly, queues, record, discord, history
<1>4. ItemHasText' /\ SegmentsWhole'
  BY <1>2, <1>3 DEF LoopInv, ItemHasText, SegmentsWhole, Shows
<1>5. LoopReads' /\ LoopMakes'
  BY <1>2 DEF LoopReads, LoopMakes, Loop, SyncSteps
<1>6. HeldNamed'
  BY <1>2 DEF HeldNamed, Held
<1>7. DeleteReads'
  BY <1>1, <1>2, <1>3 DEF DeleteReads
<1>8. ThreadCount'
  BY <1>1, <1>2, <1>3 DEF LoopInv, ThreadCount, Idle
<1> QED BY <1>4, <1>5, <1>6, <1>7, <1>8 DEF LoopInv

LEMMA ClaimSyncLoop ==
  ASSUME ArchiveInv, ArchiveInv', LoopInv, ClaimSync
  PROVE  LoopInv'
<1>1. handler = Idle /\ ops # <<>> /\ ClaimOnly
  BY DEF ClaimSync
<1>2. /\ handler'.step \in {"open", "segment"} /\ handler'.text = item.text
      /\ handler'.old = segments /\ handler'.done = <<>>
  BY DEF ClaimSync, Idle
<1>3. UNCHANGED <<item, ops, segments, thread, archived, messages, posted, threads, faults>>
  BY <1>1 DEF ClaimOnly, queues, record, discord, history
<1>4. ItemHasText' /\ SegmentsWhole'
  BY <1>2, <1>3 DEF LoopInv, ItemHasText, SegmentsWhole, Shows
<1>5. LoopReads'
  <2>1. item.text \in Text
    BY <1>1 DEF LoopInv, ItemHasText
  <2>2. Len(segments) \in Nat
    BY RecordTypes, LenProperties
  <2> QED BY <1>2, <1>3, <2>1, <2>2 DEF LoopReads
<1>6. LoopMakes' /\ HeldNamed' /\ DeleteReads'
  BY <1>2 DEF LoopMakes, HeldNamed, Held, DeleteReads
<1>7. ThreadCount'
  BY <1>1, <1>2, <1>3 DEF LoopInv, ThreadCount, Idle
<1> QED BY <1>4, <1>5, <1>6, <1>7 DEF LoopInv

LEMMA SegmentFacts ==
  ASSUME ArchiveInv, LoopInv
  PROVE  /\ Len(segments) \in 0..2 /\ segments \in Seq(Segment)
         /\ \A i \in 1..Len(segments) : segments[i] \in Segment /\ segments[i].message \in Message
<1>1. segments \in Seq(Segment) /\ Len(segments) \in Nat
  BY RecordTypes, LenProperties
<1>2. Len(segments) \in 0..2
  <2>1. CASE segments = <<>>
    BY <2>1
  <2>2. CASE \E t \in Text : Shows(t)
    BY <2>2, RenderingTypes DEF Shows
  <2> QED BY <2>1, <2>2 DEF LoopInv, SegmentsWhole
<1>3. \A i \in 1..Len(segments) : segments[i] \in Segment
  BY <1>1, ElementOfSeq
<1> QED BY <1>1, <1>2, <1>3 DEF Segment

\* A step of the loop that takes no message.
LEMMA GoesOn ==
  ASSUME ArchiveInv, ArchiveInv', LoopInv, handler.step \in Loop, handler'.step \in Loop,
         handler'.text = handler.text, handler'.old = handler.old, handler'.done = handler.done,
         handler'.step = "save" => Len(handler.old) <= Len(Parts),
         item'.state = item.state, item'.text = item.text,
         UNCHANGED <<ops, segments, messages, posted>>,
         thread.id # NoThread => thread'.id # NoThread,
         handler'.step # "attach" /\ handler.step = "attach" => thread'.id # NoThread,
         handler'.step = "attach" => handler.step = "attach",
         ThreadCount'
  PROVE  LoopInv'
<1>1. handler.step # "sync" /\ handler'.step \notin {"sync", "erase", "mark"}
  BY DEF Loop, SyncSteps
<1>2. ItemHasText' /\ SegmentsWhole'
  BY <1>1 DEF LoopInv, ItemHasText, SegmentsWhole, Shows
<1>3. Parts' = Parts
  BY DEF Parts
<1>4. LoopReads' /\ LoopMakes'
  BY <1>3 DEF LoopInv, LoopReads, LoopMakes
<1>5. HeldNamed' /\ DeleteReads'
  BY <1>1 DEF HeldNamed, DeleteReads
<1> QED BY <1>2, <1>4, <1>5 DEF LoopInv

LEMMA ThreadSteps ==
  ASSUME ArchiveInv, ArchiveInv', LoopInv, OpenThread \/ AttachThread \/ SetDestination
  PROVE  LoopInv'
<1>1. /\ handler.step \in {"open", "attach", "locate"}
      /\ handler'.step \in {"segment", "locate", "surplus", "save"}
      /\ handler'.text = handler.text /\ handler'.old = handler.old /\ handler'.done = handler.done
      /\ handler'.step = "save" => handler'.step = AfterSegment(handler.done)
  <2>1. AfterSegment(handler.done) \in {"segment", "surplus", "save"}
    BY DEF AfterSegment
  <2>2. PICK step \in {"segment", "locate", AfterSegment(handler.done)} : Goto(step)
    BY DEF OpenThread, AttachThread, SetDestination
  <2>3. handler'.step = step /\ step \in SyncSteps
    BY <2>1, <2>2, GotoTypes DEF SyncSteps
  <2> QED BY <2>1, <2>2, <2>3, GotoTypes DEF OpenThread, AttachThread, SetDestination
<1>2. handler'.step = "save" => Len(handler.old) <= Len(Parts)
  BY <1>1, HandlerTypes DEF AfterSegment
<1>3. UNCHANGED <<ops, segments, messages, posted, threads, faults>>
  BY DEF OpenThread, AttachThread, SetDestination, queues, record, discord, history
<1>4. item'.state = item.state /\ item'.text = item.text
  BY RecordTypes DEF OpenThread, AttachThread, SetDestination, record, Item
<1>5. /\ handler.step = "attach" => thread'.id = threads
      /\ handler.step # "attach" => thread' = thread
  BY RecordTypes DEF OpenThread, AttachThread, SetDestination, record
<1>6. handler.step = "attach" => threads > 0 /\ threads \in Nat
  BY RecordTypes DEF LoopInv, ThreadCount
<1>7. ThreadCount'
  BY <1>1, <1>3, <1>5, <1>6 DEF LoopInv, ThreadCount
<1>8. handler.step \in Loop /\ handler'.step \in Loop /\ handler'.step # "attach"
  BY <1>1 DEF Loop, SyncSteps
<1> QED BY <1>1, <1>2, <1>3, <1>4, <1>5, <1>6, <1>7, <1>8, GoesOn

\* A step of the loop that takes a message for its position.
LEMMA Takes ==
  ASSUME ArchiveInv, ArchiveInv', LoopInv, handler.step = "segment", handler'.step \in Loop,
         NEW message \in Message, message <= posted', posted <= posted',
         \A i \in 1..Len(handler.done) : handler.done[i] # message,
         Position <= Len(handler.old) => message = handler.old[Position].message,
         handler'.text = handler.text, handler'.old = handler.old,
         handler'.done = Append(handler.done, message),
         handler'.step = "save" => Len(handler.old) <= Len(Parts),
         \A i \in 1..Len(segments) : messages[segments[i].message] = Gone
                                       => messages'[segments[i].message] = Gone,
         handler'.step # "attach" => thread.id # NoThread,
         UNCHANGED <<ops, record>>,
         ThreadCount'
  PROVE  LoopInv'
<1>1. handler'.step \notin {"sync", "erase", "mark"} /\ handler.step \in Loop
  BY DEF Loop, SyncSteps
<1>2. UNCHANGED <<item, segments, thread>> /\ Parts' = Parts
  BY DEF record, Parts
<1>3. /\ posted \in Nat /\ posted' \in Nat /\ message \in Nat
      /\ \A i \in 1..Len(segments) : segments[i].message \in Nat
      /\ handler.done \in Seq(Message) /\ Len(handler.done) \in Nat
      /\ \A i \in 1..Len(handler.done) : handler.done[i] \in Nat
  <2>1. Message \subseteq Nat /\ 0 \in Nat
    BY TextTypes
  <2>2. posted \in Nat /\ posted' \in Nat
    BY <2>1 DEF ArchiveInv, TypeOK
  <2>3. \A i \in 1..Len(segments) : segments[i].message \in Nat
    BY <2>1, SegmentFacts
  <2>4. handler.done \in Seq(Message) /\ Len(handler.done) \in Nat
    BY HandlerTypes
  <2>5. \A i \in 1..Len(handler.done) : handler.done[i] \in Message
    BY <2>4, ElementOfSeq
  <2> QED BY <2>1, <2>2, <2>3, <2>4, <2>5
<1>4. ItemHasText'
  BY <1>1, <1>2 DEF LoopInv, ItemHasText
<1>5. SegmentsWhole'
  <2>1. \A i \in 1..Len(segments) : segments[i].message <= posted'
    BY <1>3 DEF LoopInv, SegmentsWhole
  <2> QED BY <1>2, <2>1 DEF LoopInv, SegmentsWhole, Shows
<1>6. LoopReads'
  BY <1>1, <1>2 DEF LoopInv, LoopReads
<1>7. /\ Len(handler'.done) = Len(handler.done) + 1
      /\ handler'.done[Len(handler.done) + 1] = message
      /\ \A i \in 1..Len(handler.done) : handler'.done[i] = handler.done[i]
  BY <1>3, AppendProperties
<1>8. LoopMakes'
  <2>1. \A i \in 1..Len(handler'.done) :
          i = Len(handler.done) + 1 \/ (i \in 1..Len(handler.done) /\ i # Len(handler.done) + 1)
    BY <1>3, <1>7
  <2>2. \A i \in 1..Len(handler'.done) : handler'.done[i] <= posted'
    <3>1. \A i \in 1..Len(handler.done) : handler.done[i] <= posted'
      BY <1>1, <1>3 DEF LoopInv, LoopMakes
    <3> QED BY <1>7, <2>1, <3>1
  <2>3. \A i, j \in 1..Len(handler'.done) : i # j => handler'.done[i] # handler'.done[j]
    BY <1>1, <1>7, <2>1 DEF LoopInv, LoopMakes
  <2>4. \A i \in 1..Len(handler'.done) :
          i <= Len(handler'.old) => handler'.done[i] = handler'.old[i].message
    BY <1>1, <1>7, <2>1 DEF LoopInv, LoopMakes, Position
  <2> QED BY <2>2, <2>3, <2>4 DEF LoopMakes
<1>9. HeldNamed' /\ DeleteReads'
  BY <1>1 DEF HeldNamed, DeleteReads
<1> QED BY <1>4, <1>5, <1>6, <1>8, <1>9 DEF LoopInv

LEMMA AfterLoop ==
  ASSUME ArchiveInv, NEW done
  PROVE  /\ AfterSegment(done) \in Loop \ {"attach", "open", "locate"}
         /\ AfterSegment(done) = "save" => Len(handler.old) <= Len(Parts)
BY HandlerTypes DEF AfterSegment, Loop, SyncSteps

\* The segment at the position is one on record, and those before it are done.
LEMMA EditFacts ==
  ASSUME ArchiveInv, LoopInv, EditSegment
  PROVE  /\ Position \in 1..Len(segments) /\ handler.old[Position] = segments[Position]
         /\ \A i \in 1..Len(handler.done) : /\ i \in 1..Len(segments) /\ i # Position
                                            /\ handler.done[i] = segments[i].message
<1>1. handler.step \in Loop /\ Position <= Len(handler.old)
  BY DEF EditSegment, Loop, SyncSteps
<1>2. /\ Len(handler.done) \in Nat /\ Len(handler.old) \in Nat /\ Len(segments) \in Nat
      /\ Len(handler.old) <= Len(segments) /\ Len(handler.done) + 1 <= Len(handler.old)
  BY <1>1, HandlerTypes, SegmentFacts DEF LoopInv, LoopReads, Position
<1>3. Position \in 1..Len(handler.old) /\ Position \in 1..Len(segments)
  BY <1>2 DEF Position
<1>4. \A i \in 1..Len(handler.done) :
        /\ i \in 1..Len(segments) /\ i # Position /\ i \in 1..Len(handler.old)
        /\ i <= Len(handler.old)
  BY <1>2 DEF Position
<1>5. \A i \in 1..Len(handler.old) : handler.old[i] = segments[i]
  BY <1>1 DEF LoopInv, LoopReads
<1>6. \A i \in 1..Len(handler.done) : i <= Len(handler.old) => handler.done[i] = handler.old[i].message
  BY <1>1 DEF LoopInv, LoopMakes
<1> QED BY <1>3, <1>4, <1>5, <1>6

LEMMA EditLoop ==
  ASSUME ArchiveInv, ArchiveInv', LoopInv, EditSegment
  PROVE  LoopInv'
<1> DEFINE message == handler.old[Position].message
           done    == Append(handler.done, message)
<1>1. handler.step = "segment" /\ Position <= Len(handler.old)
  BY DEF EditSegment
<1>2. CASE NotFound
  BY <1>1, <1>2, EndLoop
<1>3. CASE /\ handler' = [handler EXCEPT !.done = done, !.step = AfterSegment(done)]
           /\ \/ messages' = messages
              \/ /\ messages[message] # Gone
                 /\ messages' = [messages EXCEPT ![message] = Parts[Position]]
           /\ UNCHANGED <<outside, queues, record, archived, posted, threads, history>>
  <2>1. handler.step \in Loop
    BY <1>1 DEF Loop, SyncSteps
  <2>2. Position \in 1..Len(segments) /\ handler.old[Position] = segments[Position]
        /\ \A i \in 1..Len(handler.done) : /\ i \in 1..Len(segments) /\ i # Position
                                           /\ handler.done[i] = segments[i].message
    BY EditFacts
  <2>3. message \in Message /\ message <= posted
    BY <2>2, SegmentFacts DEF LoopInv, SegmentsWhole
  <2>4. \A i \in 1..Len(handler.done) : handler.done[i] # message
    BY <2>2 DEF LoopInv, SegmentsWhole
  <2>5. thread.id # NoThread
    BY <2>2 DEF LoopInv, SegmentsWhole
  <2>6. \A i \in 1..Len(segments) : messages[segments[i].message] = Gone
                                      => messages'[segments[i].message] = Gone
    BY <1>3, <2>3, SegmentFacts, RecordTypes
  <2> HIDE DEF message
  <2>7. handler'.done = done /\ handler'.old = handler.old /\ handler'.text = handler.text
        /\ handler'.step = AfterSegment(done)
    BY <1>3, HandlerTypes DEF Handler
  <2> HIDE DEF done
  <2>8. handler'.step \in Loop /\ handler'.step # "attach"
        /\ (handler'.step = "save" => Len(handler.old) <= Len(Parts))
    BY <2>7, AfterLoop
  <2>9. UNCHANGED <<ops, record, posted, threads, faults, thread>>
    BY <1>3 DEF queues, record, history
  <2>10. ThreadCount'
    BY <1>1, <2>8, <2>9 DEF LoopInv, ThreadCount
  <2>11. posted \in Nat /\ posted <= posted' /\ message <= posted'
    BY <2>3, <2>9, RecordTypes, TextTypes
  <2>12. Position <= Len(handler.old) => message = handler.old[Position].message
    BY DEF message
  <2> QED BY <1>1, <2>3, <2>4, <2>5, <2>6, <2>7, <2>8, <2>9, <2>10, <2>11, <2>12, Takes DEF done
<1> QED BY <1>2, <1>3 DEF EditSegment, ClaimOnly, discord

LEMMA PostLoop ==
  ASSUME ArchiveInv, ArchiveInv', LoopInv, CreateThread \/ CreateMessage
  PROVE  LoopInv'
<1> DEFINE done == Append(handler.done, posted')
<1>1. PICK step \in {"attach", "next", "locate"} :
        /\ PostMessage(step)
        /\ step = "attach" => thread.id = NoThread /\ threads' = threads + 1
        /\ step # "attach" => thread.id # NoThread /\ threads' = threads
  BY DEF CreateThread, CreateMessage
<1>2. handler.step = "segment" /\ Position > Len(handler.old) /\ handler.step \in Loop
  BY DEF CreateThread, CreateMessage, Loop, SyncSteps
<1>3. /\ posted' = posted + 1 /\ posted' \in Message /\ posted \in Nat /\ posted <= posted'
      /\ posted' <= posted'
  BY <1>1, RecordTypes, TextTypes DEF PostMessage, Message
<1>4. messages' = [messages EXCEPT ![posted'] = Parts[Position]]
      /\ UNCHANGED <<ops, record, thread, faults>>
  BY <1>1 DEF PostMessage, queues, record, history
<1> DEFINE next == IF step = "next" THEN AfterSegment(done) ELSE step
<1>5. handler' = [handler EXCEPT !.done = done, !.step = next]
  BY <1>1, Zenon DEF PostMessage
<1>6. next \in Loop /\ (next = "attach" <=> step = "attach")
      /\ (next = "save" => Len(handler.old) <= Len(Parts))
  <2>1. AfterSegment(done) \in Loop \ {"attach", "open", "locate"}
        /\ (AfterSegment(done) = "save" => Len(handler.old) <= Len(Parts))
    BY AfterLoop
  <2> HIDE DEF done
  <2> QED BY <2>1 DEF Loop, SyncSteps
<1> HIDE DEF next, done
<1>7. /\ handler'.done = done /\ handler'.old = handler.old /\ handler'.text = handler.text
      /\ handler'.step = next
  BY <1>5, HandlerTypes DEF Handler
<1>8. \A i \in 1..Len(handler.done) : handler.done[i] # posted'
  BY <1>2, <1>3 DEF LoopInv, LoopMakes
<1>9. \A i \in 1..Len(segments) : messages[segments[i].message] = Gone
                                    => messages'[segments[i].message] = Gone
  <2>1. \A i \in 1..Len(segments) : segments[i].message # posted' /\ segments[i].message \in Message
    BY <1>3, SegmentFacts DEF LoopInv, SegmentsWhole
  <2> QED BY <1>3, <1>4, <2>1, RecordTypes
<1>10. ThreadCount'
  <2>1. threads \in Nat /\ threads' \in Nat /\ faults \in Nat
    BY DEF ArchiveInv, TypeOK
  <2>2. CASE step = "attach"
    <3>1. threads <= faults
      BY <1>1, <1>2, <2>2 DEF LoopInv, ThreadCount
    <3>2. threads' > 0 /\ threads' - 1 <= faults
      BY <1>1, <2>1, <2>2, <3>1
    <3> QED BY <1>4, <1>6, <1>7, <2>2, <3>2 DEF ThreadCount
  <2>3. CASE step # "attach"
    BY <1>1, <1>4, <1>6, <1>7, <2>3 DEF LoopInv, ThreadCount
  <2> QED BY <2>2, <2>3
<1>11. Position <= Len(handler.old) => posted' = handler.old[Position].message
  BY <1>2, HandlerTypes DEF Position
<1> QED BY <1>1, <1>2, <1>3, <1>4, <1>6, <1>7, <1>8, <1>9, <1>10, <1>11, Takes DEF done

\* What is surplus is the second of two messages.
LEMMA SurplusFacts ==
  ASSUME ArchiveInv, LoopInv, handler.step = "surplus"
  PROVE  /\ Len(Parts) = 1 /\ Len(handler.old) = 2 /\ Len(segments) = 2 /\ Len(handler.done) = 1
         /\ handler.old[1] = segments[1] /\ handler.old[2] = segments[2]
         /\ handler.done[1] = segments[1].message
         /\ SubSeq(handler.old, 1, Len(Parts))
              \o SubSeq(handler.old, Len(Parts) + 2, Len(handler.old)) = <<handler.old[1]>>
<1>1. handler.step \in Loop
  BY DEF Loop, SyncSteps
<1>2. Len(Parts) = 1 /\ Len(handler.old) = 2 /\ Len(segments) = 2 /\ Len(handler.done) = 1
  <2>1. /\ Len(handler.old) > Len(Parts) /\ Len(handler.done) = Len(Parts)
        /\ Len(handler.old) <= Len(segments)
    BY <1>1 DEF ArchiveInv, LoopAgrees, LoopInv, LoopReads
  <2> QED BY <2>1, HandlerTypes, SegmentFacts
<1>3. handler.old[1] = segments[1] /\ handler.old[2] = segments[2]
  BY <1>1, <1>2 DEF LoopInv, LoopReads
<1>4. handler.done[1] = segments[1].message
  BY <1>1, <1>2, <1>3 DEF LoopInv, LoopMakes
<1>5. SubSeq(handler.old, 1, 1) = <<handler.old[1]>> /\ SubSeq(handler.old, 3, 2) = <<>>
  <2>1. handler.old \in Seq(Segment) /\ \A i \in 1..2 : handler.old[i] \in Segment
    BY <1>2, HandlerTypes, ElementOfSeq
  <2>2. /\ SubSeq(handler.old, 1, 1) \in Seq(Segment) /\ Len(SubSeq(handler.old, 1, 1)) = 1
        /\ SubSeq(handler.old, 1, 1)[1] = handler.old[1]
    BY <2>1, SubSeqProperties
  <2>3. SubSeq(handler.old, 1, 1) = <<handler.old[1]>>
    <3> DEFINE first == SubSeq(handler.old, 1, 1)
               one   == <<handler.old[1]>>
    <3>1. one \in Seq(Segment) /\ Len(one) = 1 /\ one[1] = handler.old[1]
      BY <2>1
    <3>2. Len(first) = Len(one) /\ \A i \in 1..Len(first) : first[i] = one[i]
      BY <2>2, <3>1
    <3> HIDE DEF first, one
    <3>3. first \in Seq(Segment)
      BY <2>2 DEF first
    <3>4. first = one
      BY <3>1, <3>2, <3>3, SeqEqual
    <3> QED BY <3>4 DEF first, one
  <2> QED BY <2>3, SubSeqEmpty
<1>6. <<handler.old[1]>> \o <<>> = <<handler.old[1]>>
  OBVIOUS
<1>7. SubSeq(handler.old, 1, Len(Parts))
        \o SubSeq(handler.old, Len(Parts) + 2, Len(handler.old)) = <<handler.old[1]>>
  <2>1. Len(Parts) + 2 = 3
    BY <1>2
  <2> QED BY <1>2, <1>5, <1>6, <2>1
<1> QED BY <1>2, <1>3, <1>4, <1>7

LEMMA SurplusLoop ==
  ASSUME ArchiveInv, ArchiveInv', LoopInv, DeleteSurplus
  PROVE  LoopInv'
<1>1. handler.step = "surplus" /\ handler.step \in Loop
  BY DEF DeleteSurplus, Loop, SyncSteps
<1>2. CASE NotFound
  BY <1>1, <1>2, EndLoop
<1>3. CASE /\ messages' = [messages EXCEPT ![segments[2].message] = Gone]
           /\ handler' = [handler EXCEPT !.old = <<segments[1]>>, !.step = "save"]
           /\ UNCHANGED <<outside, queues, record, archived, posted, threads, history>>
  <2>1. /\ handler'.step = "save" /\ handler'.old = <<segments[1]>> /\ handler'.text = handler.text
        /\ handler'.done = handler.done /\ Parts' = Parts
    BY <1>3, HandlerTypes DEF Handler, Parts
  <2>2. UNCHANGED <<ops, item, segments, thread, posted, threads, faults>>
    BY <1>3 DEF queues, record, history
  <2>3. ItemHasText' /\ SegmentsWhole' /\ ThreadCount'
    BY <1>1, <2>1, <2>2 DEF LoopInv, ItemHasText, SegmentsWhole, Shows, ThreadCount
  <2>4. messages'[segments[2].message] = Gone
    BY <1>3, SegmentFacts, SurplusFacts, <1>1, RecordTypes
  <2>5. Len(handler'.old) = 1 /\ handler'.old[1] = segments[1]
    BY <2>1
  <2>6. LoopReads'
    <3>1. /\ handler.text = item.text /\ handler.text \in Text
          /\ Len(handler.done) > 0 => thread.id # NoThread
      BY <1>1 DEF LoopInv, LoopReads
    <3>2. /\ Len(handler'.old) <= Len(segments) /\ Len(handler'.old) <= Len(Parts)
          /\ \A i \in 1..Len(handler'.old) : handler'.old[i] = segments[i]
      BY <1>1, <2>5, SurplusFacts
    <3>3. \A i \in 1..Len(segments) : i > Len(handler'.old) => i = 2
      <4>1. Len(segments) = 2
        BY <1>1, SurplusFacts
      <4> QED BY <2>5, <4>1
    <3> QED BY <2>1, <2>2, <2>4, <3>1, <3>2, <3>3 DEF LoopReads
  <2>7. LoopMakes'
    <3>1. \A i \in 1..Len(handler.done) :
            i <= Len(handler'.old) => handler.done[i] = handler'.old[i].message
      BY <1>1, <2>5, SurplusFacts
    <3> QED BY <1>1, <2>1, <2>2, <3>1 DEF LoopInv, LoopMakes
  <2>8. HeldNamed' /\ DeleteReads'
    BY <2>1 DEF HeldNamed, DeleteReads, Loop, SyncSteps
  <2> QED BY <2>3, <2>6, <2>7, <2>8 DEF LoopInv
<1>4. \/ NotFound
      \/ /\ messages' = [messages EXCEPT ![segments[2].message] = Gone]
         /\ handler' = [handler EXCEPT !.old = <<segments[1]>>, !.step = "save"]
         /\ UNCHANGED <<outside, queues, record, archived, posted, threads, history>>
  <2> DEFINE rest == SubSeq(handler.old, 1, Len(Parts))
                       \o SubSeq(handler.old, Len(Parts) + 2, Len(handler.old))
  <2>1. rest = <<segments[1]>> /\ ~(Len(rest) > Len(Parts)) /\ handler.old[Len(Parts) + 1] = segments[2]
    <3>1. rest = <<segments[1]>> /\ Len(Parts) = 1
      BY <1>1, SurplusFacts
    <3>2. Len(<<segments[1]>>) = 1 /\ Len(Parts) + 1 = 2
      BY <3>1
    <3> HIDE DEF rest
    <3> QED BY <1>1, <3>1, <3>2, SurplusFacts
  <2>2. \/ NotFound
        \/ /\ messages' = [messages EXCEPT ![handler.old[Len(Parts) + 1].message] = Gone]
           /\ handler' = [handler EXCEPT !.old = rest,
                            !.step = IF Len(rest) > Len(Parts) THEN "surplus" ELSE "save"]
           /\ UNCHANGED <<outside, queues, record, archived, posted, threads, history>>
    BY Zenon DEF DeleteSurplus
  <2> HIDE DEF rest
  <2> QED BY <2>1, <2>2
<1> QED BY <1>2, <1>3, <1>4

LEMMA ReplaceLoop ==
  ASSUME ArchiveInv, ArchiveInv', LoopInv, ReplaceSegments
  PROVE  LoopInv'
<1>1. /\ handler.step = "save" /\ handler.step \in Loop
      /\ segments' = [i \in 1..Len(Parts) |-> [message |-> handler.done[i], hash |-> Parts[i]]]
      /\ UNCHANGED <<ops, item, thread, messages, posted, threads, faults>>
  BY DEF ReplaceSegments, Loop, SyncSteps, queues, discord, history
<1>2. handler'.step \in {"close", "end"} /\ handler'.done = handler.done
  BY GotoTypes DEF ReplaceSegments, SyncSteps
<1>3. Len(handler.done) = Len(Parts) /\ Len(Parts) \in {1, 2}
  BY <1>1, HandlerTypes DEF ArchiveInv, LoopAgrees
<1>4. /\ Len(segments') = Len(Parts)
      /\ \A i \in 1..Len(Parts) : segments'[i].message = handler.done[i] /\ segments'[i].hash = Parts[i]
  <2>1. segments' \in Seq(Segment) /\ DOMAIN segments' = 1..Len(Parts)
    BY <1>1 DEF ArchiveInv, TypeOK
  <2>2. Len(segments') = Len(Parts)
    BY <1>3, <2>1, LenProperties
  <2> QED BY <1>1, <2>2
<1>5. ItemHasText'
  BY <1>1, <1>2 DEF LoopInv, ItemHasText
<1>6. SegmentsWhole'
  <2>1. handler.text \in Text /\ Shows(handler.text)'
    <3>1. handler.text \in Text
      BY <1>1 DEF LoopInv, LoopReads
    <3>2. handler'.text = handler.text
      BY GotoTypes DEF ReplaceSegments, SyncSteps
    <3> QED BY <1>4, <3>1, <3>2 DEF Shows, Parts
  <2>2. handler.text' = handler.text
    BY GotoTypes DEF ReplaceSegments, SyncSteps
  <2>3. thread.id # NoThread
    <3>1. Len(handler.done) > 0
      <4>1. handler.text \in Text \cup {NoText}
        BY HandlerTypes
      <4>2. 0 < Len(Parts)
        BY <4>1, RenderingTypes DEF Parts
      <4> QED BY <1>3, <4>2
    <3> QED BY <1>1, <3>1 DEF LoopInv, LoopReads
  <2>4. \E t \in Text : Shows(t)'
    BY <2>1, <2>2 DEF Shows
  <2> QED BY <1>1, <1>3, <1>4, <2>3, <2>4 DEF LoopInv, LoopMakes, SegmentsWhole
<1>7. LoopReads' /\ LoopMakes' /\ DeleteReads'
  BY <1>2 DEF LoopReads, LoopMakes, DeleteReads, Loop, SyncSteps
<1>8. HeldNamed'
  <2>1. Held' = Named'
    BY <1>2, <1>3, <1>4 DEF Held, Named
  <2> QED BY <1>2, <2>1 DEF HeldNamed
<1>9. ThreadCount'
  BY <1>1, <1>2 DEF LoopInv, ThreadCount
<1> QED BY <1>5, <1>6, <1>7, <1>8, <1>9 DEF LoopInv

LEMMA CloseLoop ==
  ASSUME ArchiveInv, ArchiveInv', LoopInv, CloseThread
  PROVE  LoopInv'
<1>1. handler.step = "close" /\ handler'.step = "end" /\ handler'.done = handler.done
  BY GotoTypes DEF CloseThread
<1>2. UNCHANGED <<ops, item, segments, thread, messages, posted, threads, faults>>
  BY DEF CloseThread, queues, record, history
<1>3. ItemHasText' /\ SegmentsWhole'
  BY <1>1, <1>2 DEF LoopInv, ItemHasText, SegmentsWhole, Shows
<1>4. LoopReads' /\ LoopMakes' /\ DeleteReads'
  BY <1>1 DEF LoopReads, LoopMakes, DeleteReads, Loop, SyncSteps
<1>5. HeldNamed'
  BY <1>1, <1>2 DEF LoopInv, HeldNamed, Held, Named, Loop, SyncSteps
<1>6. ThreadCount'
  BY <1>1, <1>2 DEF LoopInv, ThreadCount
<1> QED BY <1>3, <1>4, <1>5, <1>6 DEF LoopInv

LEMMA EraseLoop ==
  ASSUME ArchiveInv, ArchiveInv', LoopInv, DeleteMessage
  PROVE  LoopInv'
<1> DEFINE next == IF Tail(handler.old) = <<>> THEN "mark" ELSE "erase"
<1>1. /\ handler.step = "erase" /\ messages' = [messages EXCEPT ![Head(handler.old).message] = Gone]
      /\ handler' = [handler EXCEPT !.old = Tail(@), !.step = next]
      /\ UNCHANGED <<ops, item, segments, thread, posted, threads, faults>>
  BY DEF DeleteMessage, queues, record, history
<1>2. /\ handler'.step = next /\ handler'.old = Tail(handler.old) /\ handler'.job = handler.job
      /\ handler'.done = handler.done /\ handler'.step \in {"erase", "mark"}
  BY <1>1, HandlerTypes DEF Handler
<1>3. ItemHasText' /\ SegmentsWhole'
  BY <1>1, <1>2 DEF LoopInv, ItemHasText, SegmentsWhole, Shows
<1>4. LoopReads' /\ LoopMakes'
  BY <1>2 DEF LoopReads, LoopMakes, Loop, SyncSteps
<1>5. HeldNamed'
  <2>1. handler'.done = <<>>
    BY <1>1, <1>2 DEF LoopInv, HeldNamed
  <2> QED BY <2>1 DEF HeldNamed, Held
<1>6. DeleteReads'
  <2>1. handler.old \in Seq(Segment) /\ handler.old # <<>> /\ Len(handler.old) \in Nat
    BY <1>1, HandlerTypes DEF ArchiveInv, LoopAgrees
  <2>2. /\ Tail(handler.old) \in Seq(Segment) /\ Len(Tail(handler.old)) = Len(handler.old) - 1
        /\ \A j \in 1..Len(Tail(handler.old)) : Tail(handler.old)[j] = handler.old[j + 1]
        /\ Head(handler.old) = handler.old[1]
    BY <2>1, HeadTailProperties
  <2>3. ASSUME NEW i \in 1..Len(segments), messages'[segments[i].message] # Gone
        PROVE  handler'.step = "erase" /\ \E j \in 1..Len(handler'.old) :
                 handler'.old[j].message = segments[i].message
    <3>1. segments[i].message # Head(handler.old).message /\ messages[segments[i].message] # Gone
      BY <1>1, <2>3, SegmentFacts, RecordTypes
    <3>2. PICK j \in 1..Len(handler.old) : handler.old[j].message = segments[i].message
      BY <1>1, <3>1 DEF LoopInv, DeleteReads
    <3>3. j # 1
      BY <2>2, <3>1, <3>2
    <3>4. j - 1 \in 1..Len(Tail(handler.old)) /\ Tail(handler.old)[j - 1] = handler.old[j]
      BY <2>1, <2>2, <3>3
    <3>5. Len(Tail(handler.old)) # 0
      BY <2>1, <2>2, <3>4
    <3>6. Tail(handler.old) # <<>>
      BY <3>5, EmptySeq
    <3> QED BY <1>2, <3>2, <3>4, <3>6
  <2>4. handler'.job = "operation" /\ Head(ops') = DeleteItem
    BY <1>1, <1>2 DEF LoopInv, DeleteReads
  <2> QED BY <1>1, <2>3, <2>4 DEF DeleteReads
<1>7. ThreadCount'
  BY <1>1, <1>2 DEF LoopInv, ThreadCount
<1> QED BY <1>3, <1>4, <1>5, <1>6, <1>7 DEF LoopInv

LEMMA MarkLoop ==
  ASSUME ArchiveInv, ArchiveInv', LoopInv, MarkDeleted
  PROVE  LoopInv'
<1>1. /\ handler.step = "mark" /\ handler'.step = "end" /\ handler'.done = handler.done
      /\ segments' = <<>> /\ item' = [item EXCEPT !.state = "DELETED", !.destination = NoMessage]
      /\ UNCHANGED <<ops, thread, messages, posted, threads, faults>>
  BY GotoTypes DEF MarkDeleted, queues, discord, history
<1>2. ItemHasText'
  <2>1. item.state # "none"
    BY <1>1 DEF LoopInv, ItemHasText, DeleteReads, ArchiveInv, ClaimsHeld
  <2>2. item'.text = item.text /\ item'.state = "DELETED"
    BY <1>1, RecordTypes DEF Item
  <2> QED BY <1>1, <2>1, <2>2 DEF LoopInv, ItemHasText
<1>3. SegmentsWhole'
  BY <1>1 DEF SegmentsWhole
<1>4. LoopReads' /\ LoopMakes' /\ DeleteReads'
  BY <1>1 DEF LoopReads, LoopMakes, DeleteReads, Loop, SyncSteps
<1>5. HeldNamed'
  <2>1. handler'.done = <<>>
    BY <1>1 DEF LoopInv, HeldNamed
  <2> QED BY <1>1, <2>1 DEF HeldNamed, Held
<1>6. ThreadCount'
  BY <1>1 DEF LoopInv, ThreadCount
<1> QED BY <1>2, <1>3, <1>4, <1>5, <1>6 DEF LoopInv

LEMMA LoopStep == ArchiveInv /\ LoopInv /\ [Next]_vars => LoopInv'
<1> SUFFICES ASSUME ArchiveInv, LoopInv, [Next]_vars PROVE LoopInv'
  OBVIOUS
<1> ArchiveInv'
  BY ArchiveStep
<1>1. faults \in Nat
  BY DEF ArchiveInv, TypeOK
<1>2. CASE (\E t \in Text : Post(t) \/ Edit(t)) \/ Remove
  <2>1. UNCHANGED <<ops, record, discord, handler, faults>>
    BY <1>2 DEF Post, Edit, Remove, Author, queues, history
  <2> QED BY <1>1, <2>1, SameLoop
<1>3. CASE (\E event \in hooks : Deliver(event) \/ FailDelivery(event)) \/ Redeliver
  <2>1. UNCHANGED <<ops, record, discord, handler>> /\ (faults' = faults \/ faults' = faults + 1)
    BY <1>3 DEF Deliver, FailDelivery, Redeliver, queues, history
  <2>2. faults <= faults'
    BY <1>1, <2>1
  <2> QED BY <2>1, <2>2, SameLoop
<1>4. CASE ReadInventory \/ EnqueueSnapshot
  <2>1. UNCHANGED <<ops, record, discord, handler, faults>>
    BY <1>4 DEF ReadInventory, EnqueueSnapshot, queues, history
  <2> QED BY <1>1, <2>1, SameLoop
<1>5. CASE ClaimEvent \/ ClaimSnapshot \/ ClaimSync \/ ClaimDelete
  BY <1>5, ClaimEventLoop, ClaimSyncLoop, ClaimDeleteLoop
<1>6. CASE Finish \/ GiveUp \/ Interrupt
  <2>1. handler.step = "attach" => ~NotFound \/ ~Finish
    BY DEF Finish
  <2>2. CASE handler.step = "attach"
    <3>1. faults < faults'
      BY <1>1, <1>6, <2>2 DEF Finish, GiveUp, Interrupt
    <3>2. ~NotFound
      BY <1>1, <3>1 DEF NotFound
    <3> QED BY <1>6, <3>2, EndLoop
  <2> QED BY <1>6, <2>2, EndLoop
<1>7. CASE UpsertItem \/ EnqueueSync \/ EnqueueDelete
  BY <1>7, EventLoop
<1>8. CASE OpenThread \/ EditSegment \/ CreateThread \/ CreateMessage \/ AttachThread \/ SetDestination
  BY <1>8, ThreadSteps, EditLoop, PostLoop
<1>9. CASE DeleteSurplus \/ ReplaceSegments \/ CloseThread \/ DeleteMessage \/ MarkDeleted
  BY <1>9, SurplusLoop, ReplaceLoop, CloseLoop, EraseLoop, MarkLoop
<1>10. CASE UNCHANGED vars
  <2>1. UNCHANGED <<ops, record, discord, handler, faults>>
    BY <1>10 DEF vars, record, discord
  <2> QED BY <1>1, <2>1, SameLoop
<1> QED
  BY <1>2, <1>3, <1>4, <1>5, <1>6, <1>7, <1>8, <1>9, <1>10 DEF Next, Work

LEMMA LoopAlways == Spec => [](ArchiveInv /\ LoopInv)
<1> QED BY InitArchive, ArchiveStep, InitLoop, LoopStep, PTL DEF Spec

-----------------------------------------------------------------------------
(* The messages no segment names are counted.                              *)

Forgotten == Live \ (Named \cup Held)

ForgottenCount == Cardinality(Forgotten) <= 2 * faults

LEMMA MessagesFinite ==
  ASSUME NEW S \in SUBSET Message
  PROVE  IsFiniteSet(S) /\ Cardinality(S) \in Nat
<1>1. IsFiniteSet(Message)
  BY FS_Interval DEF Message
<1> QED BY <1>1, FS_Subset, FS_CardinalityType

LEMMA OneMore ==
  ASSUME NEW T, IsFiniteSet(T), NEW a
  PROVE  /\ IsFiniteSet(T \cup {a}) /\ Cardinality(T) \in Nat /\ Cardinality(T \cup {a}) \in Nat
         /\ Cardinality(T \cup {a}) <= Cardinality(T) + 1
<1>1. IsFiniteSet(T \cup {a}) /\ Cardinality(T) \in Nat
  BY FS_AddElement, FS_CardinalityType
<1>2. Cardinality(T \cup {a}) = IF a \in T THEN Cardinality(T) ELSE Cardinality(T) + 1
  BY FS_AddElement
<1> QED BY <1>1, <1>2

LEMMA TwoMoreMessages ==
  ASSUME NEW S \in SUBSET Message, NEW T \in SUBSET Message, NEW a, NEW b, S \subseteq T \cup {a, b}
  PROVE  Cardinality(S) <= Cardinality(T) + 2
<1> DEFINE U == T \cup {a}
           V == U \cup {b}
<1>1. IsFiniteSet(T) /\ Cardinality(T) \in Nat /\ IsFiniteSet(S) /\ Cardinality(S) \in Nat
  BY MessagesFinite
<1>2. IsFiniteSet(U) /\ Cardinality(U) \in Nat /\ Cardinality(U) <= Cardinality(T) + 1
  BY <1>1, OneMore
<1>3. S \subseteq V
  OBVIOUS
<1> HIDE DEF U
<1>4. IsFiniteSet(V) /\ Cardinality(V) \in Nat /\ Cardinality(V) <= Cardinality(U) + 1
  BY <1>2, OneMore
<1> HIDE DEF V
<1>5. Cardinality(S) <= Cardinality(V)
  BY <1>3, <1>4, FS_Subset
<1> QED BY <1>1, <1>2, <1>4, <1>5

LEMMA TwiceMore ==
  ASSUME NEW a \in Nat, NEW b \in Nat, a <= b, NEW c \in Nat, c <= 2 * a
  PROVE  c <= 2 * b
OBVIOUS

\* A step that forgets nothing.
LEMMA NothingForgotten ==
  ASSUME ArchiveInv, ArchiveInv', ForgottenCount, Forgotten' \subseteq Forgotten, faults <= faults'
  PROVE  ForgottenCount'
<1>1. Forgotten \in SUBSET Message /\ Forgotten' \in SUBSET Message
  BY DEF Forgotten, Live
<1>2. IsFiniteSet(Forgotten) /\ Cardinality(Forgotten) \in Nat /\ Cardinality(Forgotten') \in Nat
  BY <1>1, MessagesFinite
<1>3. Cardinality(Forgotten') <= Cardinality(Forgotten)
  BY <1>2, FS_Subset
<1>4. faults \in Nat /\ faults' \in Nat
  BY DEF ArchiveInv, TypeOK
<1>5. Cardinality(Forgotten') <= 2 * faults
  BY <1>2, <1>3, <1>4 DEF ForgottenCount
<1>6. Cardinality(Forgotten') <= 2 * faults'
  BY <1>2, <1>4, <1>5, TwiceMore
<1> QED BY <1>6 DEF ForgottenCount

\* The handler that ends lets go of at most the two messages of a text.
LEMMA TwoForgotten ==
  ASSUME ArchiveInv, ArchiveInv', LoopInv, ForgottenCount, faults' = faults + 1, handler' = Idle,
         UNCHANGED <<segments, messages>>
  PROVE  ForgottenCount'
<1>1. Live' = Live /\ Named' = Named /\ Held' = {}
  BY DEF Live, Named, Held, Idle
<1>2. CASE handler.step \notin Loop
  <2>1. Forgotten' \subseteq Forgotten
    BY <1>1, <1>2 DEF Forgotten, LoopInv, HeldNamed
  <2>2. faults <= faults'
    BY DEF ArchiveInv, TypeOK
  <2> QED BY <2>1, <2>2, NothingForgotten
<1>3. CASE handler.step \in Loop
  <2>1. Len(handler.done) <= 2
    BY <1>3, HandlerTypes DEF ArchiveInv, LoopAgrees, Loop, SyncSteps
  <2>2. Held \subseteq {handler.done[1], handler.done[2]}
    BY <2>1, HandlerTypes DEF Held
  <2>3. Forgotten' \subseteq Forgotten \cup {handler.done[1], handler.done[2]}
    BY <1>1, <2>2 DEF Forgotten
  <2>4. Forgotten \in SUBSET Message /\ Forgotten' \in SUBSET Message
    BY DEF Forgotten, Live
  <2>5. Cardinality(Forgotten') <= Cardinality(Forgotten) + 2
    BY <2>3, <2>4, TwoMoreMessages
  <2>6. Cardinality(Forgotten) \in Nat /\ Cardinality(Forgotten') \in Nat /\ faults \in Nat
    BY <2>4, MessagesFinite DEF ArchiveInv, TypeOK
  <2>7. 2 * (faults + 1) = 2 * faults + 2
    BY <2>6
  <2> QED BY <2>5, <2>6, <2>7 DEF ForgottenCount
<1> QED BY <1>2, <1>3

\* The message of a segment that is not found is the only one the handler loses.
LEMMA NotFoundKept ==
  ASSUME ArchiveInv, LoopInv, EditSegment \/ DeleteSurplus, NotFound
  PROVE  Forgotten' \subseteq Forgotten
<1>1. handler.step \in Loop /\ Len(handler.done) <= Len(handler.old)
  <2>1. CASE EditSegment
    BY <2>1, HandlerTypes DEF EditSegment, Position, Loop, SyncSteps
  <2>2. CASE DeleteSurplus
    <3>1. handler.step = "surplus"
      BY <2>2 DEF DeleteSurplus
    <3>2. Len(handler.done) = 1 /\ Len(handler.old) = 2
      BY <3>1, SurplusFacts
    <3> QED BY <3>1, <3>2 DEF Loop, SyncSteps
  <2> QED BY <2>1, <2>2
<1>2. Held \subseteq Named
  <2>1. Len(handler.done) \in Nat /\ Len(handler.old) \in Nat /\ Len(segments) \in Nat
    BY HandlerTypes, SegmentFacts
  <2>2. Len(handler.old) <= Len(segments)
    BY <1>1 DEF LoopInv, LoopReads
  <2>3. ASSUME NEW i \in 1..Len(handler.done)
        PROVE  i \in 1..Len(segments) /\ handler.done[i] = segments[i].message
    <3>1. i \in 1..Len(handler.old) /\ i \in 1..Len(segments) /\ i <= Len(handler.old)
      BY <1>1, <2>1, <2>2
    <3> QED BY <1>1, <3>1 DEF LoopInv, LoopReads, LoopMakes
  <2> QED BY <2>3 DEF Held, Named
<1>3. Live' = Live /\ Named' = Named /\ Held' = {}
  BY DEF NotFound, SettleRow, record, discord, Live, Named, Held, Idle
<1> QED BY <1>2, <1>3 DEF Forgotten

\* A step that makes no message, drops no segment and lets go of no message.
LEMMA NothingMade ==
  ASSUME Live' \subseteq Live, Held \subseteq Held', UNCHANGED segments
  PROVE  Forgotten' \subseteq Forgotten
<1>1. Named' = Named
  BY DEF Named
<1> QED BY <1>1 DEF Forgotten

LEMMA HeldMore ==
  ASSUME ArchiveInv, NEW message \in Message, handler'.done = Append(handler.done, message)
  PROVE  Held \subseteq Held' /\ message \in Held'
<1>1. handler.done \in Seq(Message) /\ Len(handler.done) \in Nat
  BY HandlerTypes
<1>2. /\ Len(handler'.done) = Len(handler.done) + 1
      /\ handler'.done[Len(handler.done) + 1] = message
      /\ \A i \in 1..Len(handler.done) : handler'.done[i] = handler.done[i]
  BY <1>1, AppendProperties
<1>3. /\ Len(handler.done) + 1 \in 1..Len(handler'.done)
      /\ \A i \in 1..Len(handler.done) : i \in 1..Len(handler'.done)
  BY <1>1, <1>2
<1> QED BY <1>2, <1>3 DEF Held

LEMMA EditForgets ==
  ASSUME ArchiveInv, LoopInv, EditSegment, ~NotFound
  PROVE  Forgotten' \subseteq Forgotten
<1> DEFINE message == handler.old[Position].message
           done    == Append(handler.done, message)
<1>1. /\ handler' = [handler EXCEPT !.done = done, !.step = AfterSegment(done)]
      /\ \/ messages' = messages
         \/ /\ messages[message] # Gone
            /\ messages' = [messages EXCEPT ![message] = Parts[Position]]
      /\ UNCHANGED segments
  BY DEF EditSegment, ClaimOnly, record, discord
<1>2. message \in Message
  <2>1. Position \in 1..Len(handler.old) /\ handler.old \in Seq(Segment)
    BY HandlerTypes DEF EditSegment, Position
  <2>2. handler.old[Position] \in Segment
    BY <2>1, ElementOfSeq
  <2> QED BY <2>2 DEF Segment
<1>3. Live' \subseteq Live
  BY <1>1, <1>2, RecordTypes DEF Live
<1> HIDE DEF message
<1>4. handler'.done = Append(handler.done, message)
  BY <1>1, HandlerTypes DEF Handler
<1>5. Held \subseteq Held'
  BY <1>2, <1>4, HeldMore
<1> QED BY <1>1, <1>3, <1>5, NothingMade

LEMMA PostForgets ==
  ASSUME ArchiveInv, CreateThread \/ CreateMessage
  PROVE  Forgotten' \subseteq Forgotten
<1>1. PICK step : PostMessage(step)
  BY DEF CreateThread, CreateMessage
<1>2. posted' \in Message
  BY <1>1, RecordTypes, TextTypes DEF PostMessage, Message
<1>3. messages' = [messages EXCEPT ![posted'] = Parts[Position]] /\ segments' = segments
      /\ handler'.done = Append(handler.done, posted')
  BY <1>1, HandlerTypes DEF PostMessage, record, Handler
<1>4. Live' \subseteq Live \cup {posted'}
  BY <1>2, <1>3, RecordTypes DEF Live
<1>5. Held \subseteq Held' /\ posted' \in Held'
  BY <1>2, <1>3, HeldMore
<1>6. Named' = Named
  BY <1>3 DEF Named
<1> QED BY <1>4, <1>5, <1>6 DEF Forgotten

LEMMA ReplaceForgets ==
  ASSUME ArchiveInv, LoopInv, ReplaceSegments
  PROVE  Forgotten' \subseteq Forgotten
<1>1. handler.step = "save" /\ handler.step \in Loop /\ UNCHANGED messages
  BY DEF ReplaceSegments, Loop, SyncSteps, discord
<1>2. Held' = Held /\ Live' = Live
  BY <1>1, GotoTypes DEF ReplaceSegments, SyncSteps, Held, Live
<1>3. Named \cap Live \subseteq Held
  <2>1. /\ Len(handler.old) <= Len(Parts) /\ Len(handler.done) = Len(Parts)
        /\ Len(handler.old) \in Nat /\ Len(Parts) \in Nat /\ Len(segments) \in Nat
    BY <1>1, HandlerTypes, SegmentFacts DEF ArchiveInv, LoopAgrees, LoopInv, LoopReads
  <2>2. ASSUME NEW i \in 1..Len(segments), segments[i].message \in Live
        PROVE  segments[i].message \in Held
    <3>1. ~(i > Len(handler.old))
      BY <1>1, <2>2 DEF LoopInv, LoopReads, Live
    <3>2. i \in 1..Len(handler.old) /\ i \in 1..Len(handler.done) /\ i <= Len(handler.old)
      BY <2>1, <3>1
    <3>3. handler.done[i] = segments[i].message
      BY <1>1, <3>2 DEF LoopInv, LoopReads, LoopMakes
    <3> QED BY <3>2, <3>3 DEF Held
  <2> QED BY <2>2 DEF Named
<1> QED BY <1>2, <1>3 DEF Forgotten

LEMMA MarkForgets ==
  ASSUME ArchiveInv, LoopInv, MarkDeleted
  PROVE  Forgotten' \subseteq Forgotten
<1>1. handler.step = "mark" /\ UNCHANGED messages /\ handler'.done = handler.done
  BY GotoTypes DEF MarkDeleted, discord
<1>2. Named \cap Live = {}
  BY <1>1 DEF Named, Live, LoopInv, DeleteReads
<1>3. Held' = Held /\ Live' = Live
  BY <1>1 DEF Held, Live
<1> QED BY <1>2, <1>3 DEF Forgotten

LEMMA EraseForgets ==
  ASSUME ArchiveInv, LoopInv, DeleteMessage \/ (DeleteSurplus /\ ~NotFound)
  PROVE  Forgotten' \subseteq Forgotten
<1>1. PICK message : messages' = [messages EXCEPT ![message] = Gone]
  BY DEF DeleteMessage, DeleteSurplus
<1>2. Live' \subseteq Live
  BY <1>1, RecordTypes DEF Live
<1>3. handler'.done = handler.done /\ segments' = segments
  BY HandlerTypes DEF DeleteMessage, DeleteSurplus, record, Handler
<1>4. Held' = Held
  BY <1>3 DEF Held
<1> QED BY <1>2, <1>3, <1>4, NothingMade

LEMMA OthersForget ==
  ASSUME UNCHANGED <<segments, messages>>, handler'.done = handler.done
  PROVE  Forgotten' \subseteq Forgotten
BY DEF Forgotten, Live, Named, Held

LEMMA ForgottenStep == ArchiveInv /\ LoopInv /\ ForgottenCount /\ [Next]_vars => ForgottenCount'
<1> SUFFICES ASSUME ArchiveInv, LoopInv, ForgottenCount, [Next]_vars PROVE ForgottenCount'
  OBVIOUS
<1> ArchiveInv'
  BY ArchiveStep
<1>1. CASE Interrupt \/ GiveUp
  <2>1. faults' = faults + 1 /\ handler' = Idle /\ UNCHANGED <<segments, messages>>
    BY <1>1 DEF Interrupt, GiveUp, SettleRow, record, discord
  <2> QED BY <2>1, TwoForgotten
<1>2. CASE (\E t \in Text : Post(t) \/ Edit(t)) \/ Remove
  <2>1. UNCHANGED <<segments, messages, handler, faults>>
    BY <1>2 DEF Post, Edit, Remove, Author, record, discord, history
  <2> QED BY <2>1, OthersForget, NothingForgotten DEF ArchiveInv, TypeOK
<1>3. CASE (\E event \in hooks : Deliver(event) \/ FailDelivery(event)) \/ Redeliver
  <2>1. UNCHANGED <<segments, messages, handler>> /\ (faults' = faults \/ faults' = faults + 1)
    BY <1>3 DEF Deliver, FailDelivery, Redeliver, record, discord, history
  <2>2. faults <= faults'
    BY <2>1 DEF ArchiveInv, TypeOK
  <2> QED BY <2>1, <2>2, OthersForget, NothingForgotten
<1>4. CASE ReadInventory \/ EnqueueSnapshot \/ UNCHANGED vars
  <2>1. UNCHANGED <<segments, messages, handler, faults>>
    BY <1>4 DEF ReadInventory, EnqueueSnapshot, vars, record, discord, history
  <2> QED BY <2>1, OthersForget, NothingForgotten DEF ArchiveInv, TypeOK
<1>5. CASE ClaimEvent \/ ClaimSnapshot \/ ClaimSync \/ ClaimDelete
  <2>1. handler = Idle /\ handler'.done = <<>> /\ UNCHANGED <<segments, messages, faults>>
    BY <1>5 DEF ClaimEvent, ClaimSnapshot, ClaimSync, ClaimDelete, ClaimOnly, record, discord, history, Idle
  <2>2. handler'.done = handler.done
    BY <2>1 DEF Idle
  <2> QED BY <2>1, <2>2, OthersForget, NothingForgotten DEF ArchiveInv, TypeOK
<1>6. CASE Finish
  <2>1. handler.step = "end" /\ UNCHANGED <<segments, messages, faults>> /\ handler' = Idle
    BY <1>6 DEF Finish, SettleRow, record, discord
  <2>2. Held \subseteq Named
    BY <2>1 DEF LoopInv, HeldNamed, Loop, SyncSteps
  <2>3. Named' = Named /\ Live' = Live /\ Held' = {}
    BY <2>1 DEF Named, Live, Held, Idle
  <2>4. Forgotten' \subseteq Forgotten
    BY <2>2, <2>3 DEF Forgotten
  <2> QED BY <2>1, <2>4, NothingForgotten DEF ArchiveInv, TypeOK
<1>7. CASE UpsertItem \/ EnqueueSync \/ EnqueueDelete
  <2>1. UNCHANGED <<segments, messages, faults>>
    BY <1>7 DEF UpsertItem, EnqueueSync, EnqueueDelete, Enqueue, Hear, record, discord, history
  <2>2. handler'.done = handler.done
    BY <1>7, GotoTypes DEF UpsertItem, EnqueueSync, EnqueueDelete, Enqueue
  <2> QED BY <2>1, <2>2, OthersForget, NothingForgotten DEF ArchiveInv, TypeOK
<1>8. CASE OpenThread \/ AttachThread \/ SetDestination \/ CloseThread
  <2>1. UNCHANGED <<segments, messages, faults>>
    BY <1>8 DEF OpenThread, AttachThread, SetDestination, CloseThread, record, discord, history
  <2>2. PICK step : Goto(step)
    BY <1>8 DEF OpenThread, AttachThread, SetDestination, CloseThread
  <2>3. handler'.done = handler.done
    BY <2>2, HandlerTypes DEF Goto, Handler
  <2> QED BY <2>1, <2>3, OthersForget, NothingForgotten DEF ArchiveInv, TypeOK
<1>9. CASE EditSegment \/ DeleteSurplus \/ CreateThread \/ CreateMessage \/ ReplaceSegments
           \/ DeleteMessage \/ MarkDeleted
  <2>1. UNCHANGED faults
    BY <1>9 DEF EditSegment, DeleteSurplus, CreateThread, CreateMessage, PostMessage, ReplaceSegments,
       DeleteMessage, MarkDeleted, NotFound, ClaimOnly, history
  <2>2. Forgotten' \subseteq Forgotten
    BY <1>9, NotFoundKept, EditForgets, PostForgets, ReplaceForgets, EraseForgets, MarkForgets
  <2> QED BY <2>1, <2>2, NothingForgotten DEF ArchiveInv, TypeOK
<1> QED
  BY <1>1, <1>2, <1>3, <1>4, <1>5, <1>6, <1>7, <1>8, <1>9 DEF Next, Work

\* A message that nobody remembers, or a second thread, is the price of an interruption: at
\* most two of the one and one of the other for every handler that did not get to record
\* what it had made (#syncDiscordItem).
THEOREM DuplicatesArePaidFor == Spec => []DuplicatesPerInterruption
<1>1. ArchiveInv /\ LoopInv /\ ForgottenCount => DuplicatesPerInterruption
  <2> SUFFICES ASSUME ArchiveInv, LoopInv, ForgottenCount PROVE DuplicatesPerInterruption
    OBVIOUS
  <2>1. threads \in Nat /\ faults \in Nat
    BY DEF ArchiveInv, TypeOK
  <2>2. threads <= faults + (IF thread.id # NoThread \/ handler.step = "attach" THEN 1 ELSE 0)
    BY <2>1 DEF LoopInv, ThreadCount
  <2> QED BY <2>2 DEF ForgottenCount, Forgotten, DuplicatesPerInterruption
<1>2. Init => ForgottenCount
  <2> SUFFICES ASSUME Init PROVE ForgottenCount
    OBVIOUS
  <2>1. Forgotten = {}
    BY DEF Init, Forgotten, Live
  <2> QED BY <2>1, FS_EmptySet DEF Init, ForgottenCount
<1> QED BY <1>1, <1>2, ForgottenStep, LoopAlways, PTL DEF Spec
-----------------------------------------------------------------------------
(* What is still to be heard of a comment, and what the item shows.        *)

\* The events on their way, and the one a reconciliation would read next.
OnTheWay ==
  hooks \cup failed \cup {inbox[i] : i \in 1..Len(inbox)} \cup {plan}
    \cup {snapshots[i] : i \in 1..Len(snapshots)} \cup {handler.event}
    \cup (IF comment.state = "posted"
          THEN {[kind |-> "written", text |-> comment.text, version |-> comment.version]} ELSE {})

Written == {event \in OnTheWay : event.kind = "written"}

\* The texts are those the comment has had, in versions up to the present one.
TextsUsed ==
  /\ \A event \in Written : event.version <= comment.version /\ event.text \in comment.used
  /\ item.text \in comment.used \cup {NoText}
  /\ \A t \in Text : segments # <<>> /\ Shows(t) => t \in comment.used

\* Until the author goes back to a text, a text is a version; and until events overtake each
\* other, one that is not older than what was heard of and has the text on record is of the
\* item's own text.
TextsAreVersions ==
  ~returned =>
    /\ \A e, f \in Written : e.text = f.text <=> e.version = f.version
    /\ \A e \in Written : e.text = item.text => e.version <= heard
    /\ ~late => \A e \in Written, t \in Text :
         segments # <<>> /\ Shows(t) /\ e.text = t /\ e.version >= heard => item.text = t

VersionInv == TextsUsed /\ TextsAreVersions

LEMMA RenderingTexts ==
  ASSUME NEW t, NEW i \in 1..Len(Rendering(t)), Len(Rendering(t)) \in Nat
  PROVE  Rendering(t)[i].text = t /\ Rendering(t)[i].part = i
<1> DEFINE n == IF t \in Long THEN 2 ELSE 1
<1>1. n \in Nat
  OBVIOUS
<1>2. Rendering(t) = [j \in 1..n |-> [text |-> t, part |-> j]]
  BY DEF Rendering
<1> HIDE DEF n
<1>3. DOMAIN Rendering(t) = 1..n /\ \A j \in 1..n : Rendering(t)[j] = [text |-> t, part |-> j]
  BY <1>2
<1>4. Len(Rendering(t)) = n
  <2>1. \E k \in Nat : DOMAIN Rendering(t) = 1..k
    BY <1>1, <1>3
  <2>2. Rendering(t) \in Seq({[text |-> t, part |-> j] : j \in 1..n})
    <3>1. Rendering(t) \in [1..n -> {[text |-> t, part |-> j] : j \in 1..n}]
      BY <1>2
    <3> QED BY <1>1, <3>1, SeqDef
  <2> QED BY <1>1, <1>3, <2>2, LenProperties
<1> QED BY <1>3, <1>4

\* A segment on record names the text all of them show.
LEMMA ShownText ==
  ASSUME ArchiveInv, NEW t \in Text, Shows(t), NEW i \in 1..Len(segments)
  PROVE  segments[i].hash.text = t
<1>1. i \in 1..Len(Rendering(t)) /\ Len(Rendering(t)) \in Nat /\ segments[i].hash = Rendering(t)[i]
  BY RenderingTypes DEF Shows
<1> QED BY <1>1, RenderingTexts

LEMMA ShownOnce ==
  ASSUME ArchiveInv, NEW t \in Text, NEW u \in Text, Shows(t), Shows(u), segments # <<>>
  PROVE  t = u
<1>1. Len(segments) \in Nat \ {0}
  BY RecordTypes, EmptySeq
<1>2. 1 \in 1..Len(segments)
  BY <1>1
<1> QED BY <1>2, ShownText

\* The elements of a queue that grows or loses its head.
LEMMA AppendElements ==
  ASSUME NEW S, NEW s \in Seq(S), NEW x \in S
  PROVE  {Append(s, x)[i] : i \in 1..Len(Append(s, x))} \subseteq {s[i] : i \in 1..Len(s)} \cup {x}
<1>1. /\ Len(s) \in Nat /\ Len(Append(s, x)) = Len(s) + 1 /\ Append(s, x)[Len(s) + 1] = x
      /\ \A i \in 1..Len(s) : Append(s, x)[i] = s[i]
  BY AppendProperties, LenProperties
<1>2. \A i \in 1..Len(Append(s, x)) : i \in 1..Len(s) \/ i = Len(s) + 1
  BY <1>1
<1> QED BY <1>1, <1>2

LEMMA TailElements ==
  ASSUME NEW S, NEW s \in Seq(S), s # <<>>
  PROVE  /\ {Tail(s)[i] : i \in 1..Len(Tail(s))} \subseteq {s[i] : i \in 1..Len(s)}
         /\ Head(s) \in {s[i] : i \in 1..Len(s)}
<1>1. /\ Len(s) \in Nat \ {0} /\ Len(Tail(s)) = Len(s) - 1 /\ Head(s) = s[1]
      /\ \A i \in 1..Len(Tail(s)) : Tail(s)[i] = s[i + 1]
  BY HeadTailProperties, EmptySeq
<1>2. 1 \in 1..Len(s) /\ \A i \in 1..Len(Tail(s)) : i + 1 \in 1..Len(s)
  BY <1>1
<1> QED BY <1>1, <1>2

LEMMA WrittenTypes ==
  ASSUME ArchiveInv
  PROVE  /\ \A event \in Written : event \in Event /\ event.version \in Nat
         /\ comment.version \in Nat /\ heard \in Nat /\ comment.used \subseteq Text
<1>1. comment \in Comment /\ heard \in Nat /\ comment.version \in Nat /\ comment.used \subseteq Text
  BY TextTypes DEF ArchiveInv, TypeOK, Comment
<1>2. \A i \in 1..Len(inbox) : inbox[i] \in Event
  BY ElementOfSeq DEF ArchiveInv, TypeOK
<1>3. \A i \in 1..Len(snapshots) : snapshots[i] \in Event
  BY ElementOfSeq DEF ArchiveInv, TypeOK
<1>4. [kind |-> "written", text |-> comment.text, version |-> comment.version] \in Event
  BY <1>1 DEF Comment, Event
<1>5. /\ hooks \subseteq Event /\ failed \subseteq Event /\ plan \in Event
      /\ handler.event \in Event
  BY DEF ArchiveInv, TypeOK, Handler
<1>6. OnTheWay \subseteq Event
  BY <1>2, <1>3, <1>4, <1>5 DEF OnTheWay
<1>7. \A event \in Event : event.version \in Nat
  BY TextTypes DEF Event
<1> QED BY <1>1, <1>6, <1>7 DEF Written

LEMMA InitVersions == Init => VersionInv
<1> SUFFICES ASSUME Init PROVE VersionInv
  OBVIOUS
<1>1. OnTheWay \subseteq {NoEvent}
  <2>1. comment.state # "posted" /\ plan = NoEvent /\ handler.event = NoEvent /\ hooks = {}
        /\ failed = {}
    BY DEF Init, Idle
  <2>2. {inbox[i] : i \in 1..Len(inbox)} = {} /\ {snapshots[i] : i \in 1..Len(snapshots)} = {}
    BY DEF Init
  <2> QED BY <2>1, <2>2 DEF OnTheWay
<1>2. Written = {}
  BY <1>1, IdleTypes DEF Written
<1> QED BY <1>2 DEF Init, VersionInv, TextsUsed, TextsAreVersions

\* Steps that announce nothing, and change neither the item's text nor its segments.
LEMMA SameVersions ==
  ASSUME ArchiveInv, ArchiveInv', VersionInv, Written' \subseteq Written,
         comment.version <= comment'.version, comment.used \subseteq comment'.used,
         item'.text = item.text, UNCHANGED segments,
         heard <= heard', late => late', returned => returned'
  PROVE  VersionInv'
<1>1. /\ \A event \in Written : event.version \in Nat
      /\ comment.version \in Nat /\ heard \in Nat /\ comment'.version \in Nat /\ heard' \in Nat
  BY WrittenTypes DEF ArchiveInv, TypeOK, Comment, Version
<1>2. \A t \in Text : Shows(t)' <=> Shows(t)
  BY DEF Shows
<1>3. TextsUsed'
  <2>1. \A event \in Written' : event.version <= comment'.version /\ event.text \in comment'.used
    BY <1>1 DEF VersionInv, TextsUsed
  <2>2. item'.text \in comment'.used \cup {NoText}
    BY DEF VersionInv, TextsUsed
  <2>3. \A t \in Text : segments' # <<>> /\ Shows(t)' => t \in comment'.used
    BY <1>2 DEF VersionInv, TextsUsed
  <2> QED BY <2>1, <2>2, <2>3 DEF TextsUsed
<1>4. TextsAreVersions'
  <2> SUFFICES ASSUME ~returned' PROVE TextsAreVersions'
    BY DEF TextsAreVersions
  <2>1. \A e, f \in Written' : e.text = f.text <=> e.version = f.version
    BY DEF VersionInv, TextsAreVersions
  <2>2. \A e \in Written' : e.text = item'.text => e.version <= heard'
    BY <1>1 DEF VersionInv, TextsAreVersions
  <2>3. ~late' => \A e \in Written', t \in Text :
          segments' # <<>> /\ Shows(t)' /\ e.text = t /\ e.version >= heard' => item'.text = t
    <3> SUFFICES ASSUME ~late', NEW e \in Written', NEW t \in Text,
                        segments' # <<>>, Shows(t)', e.text = t, e.version >= heard'
                 PROVE  item'.text = t
      OBVIOUS
    <3>1. e.version >= heard /\ e \in Written
      BY <1>1
    <3> QED BY <1>2, <3>1 DEF VersionInv, TextsAreVersions
  <2> QED BY <2>1, <2>2, <2>3 DEF TextsAreVersions
<1> QED BY <1>3, <1>4 DEF VersionInv

\* The author writes: the only new event, of a text the comment has not had.
LEMMA WriteVersions ==
  ASSUME ArchiveInv, ArchiveInv', VersionInv, NEW text \in Text, Author("posted", text)
  PROVE  VersionInv'
<1> DEFINE new == [kind |-> "written", text |-> text, version |-> comment.version + 1]
<1>1. /\ comment'.version = comment.version + 1 /\ comment'.used = comment.used \cup {text}
      /\ comment'.text = text
      /\ (~returned' => ~returned /\ text \notin comment.used)
      /\ UNCHANGED <<failed, plan, inbox, snapshots, item, segments, handler, heard, late>>
  BY DEF Author, queues, record, history
<1>2. /\ \A event \in Written : event \in Event /\ event.version \in Nat
      /\ comment.version \in Nat /\ heard \in Nat /\ comment.used \subseteq Text
  BY WrittenTypes
<1>3. Written' \subseteq Written \cup {new}
  <2>1. hooks' = hooks \cup {new}
    BY DEF Author
  <2>2. OnTheWay' \subseteq OnTheWay \cup {new}
    BY <1>1, <2>1 DEF OnTheWay
  <2> QED BY <2>2 DEF Written
<1>4. new.text = text /\ new.version = comment.version + 1
  OBVIOUS
<1> HIDE DEF new
<1>5. \A t \in Text : Shows(t)' <=> Shows(t)
  BY <1>1 DEF Shows
<1>6. \A e \in Written : e.version <= comment.version /\ e.text \in comment.used
  BY DEF VersionInv, TextsUsed
<1>7. TextsUsed'
  <2>1. \A e \in Written' : e.version <= comment'.version /\ e.text \in comment'.used
    BY <1>1, <1>2, <1>3, <1>4, <1>6
  <2>2. item'.text \in comment'.used \cup {NoText}
        /\ \A t \in Text : segments' # <<>> /\ Shows(t)' => t \in comment'.used
    BY <1>1, <1>5 DEF VersionInv, TextsUsed
  <2> QED BY <2>1, <2>2 DEF TextsUsed
<1>8. TextsAreVersions'
  <2> SUFFICES ASSUME ~returned' PROVE TextsAreVersions'
    BY DEF TextsAreVersions
  <2>1. text \notin comment.used /\ ~returned
    BY <1>1
  <2>2. \A e, f \in Written' : e.text = f.text <=> e.version = f.version
    <3>1. \A e, f \in Written : e.text = f.text <=> e.version = f.version
      BY <2>1 DEF VersionInv, TextsAreVersions
    <3>2. \A e \in Written : e.text # new.text /\ e.version # new.version
      BY <1>2, <1>4, <1>6, <2>1
    <3> QED BY <1>3, <3>1, <3>2
  <2>3. \A e \in Written' : e.text = item'.text => e.version <= heard'
    <3>1. new.text # item.text
      BY <1>4, <2>1, TextTypes DEF VersionInv, TextsUsed
    <3> QED BY <1>1, <1>3, <2>1, <3>1 DEF VersionInv, TextsAreVersions
  <2>4. ~late' => \A e \in Written', t \in Text :
          segments' # <<>> /\ Shows(t)' /\ e.text = t /\ e.version >= heard' => item'.text = t
    <3>1. \A t \in Text : segments # <<>> /\ Shows(t) => new.text # t
      BY <1>4, <2>1 DEF VersionInv, TextsUsed
    <3> QED BY <1>1, <1>3, <1>5, <2>1, <3>1 DEF VersionInv, TextsAreVersions
  <2> QED BY <2>2, <2>3, <2>4 DEF TextsAreVersions
<1> QED BY <1>7, <1>8 DEF VersionInv

LEMMA AuthorVersions ==
  ASSUME ArchiveInv, ArchiveInv', VersionInv, (\E t \in Text : Post(t) \/ Edit(t)) \/ Remove
  PROVE  VersionInv'
<1>1. CASE \E t \in Text : Post(t) \/ Edit(t)
  BY <1>1, WriteVersions DEF Post, Edit
<1>2. CASE Remove
  <2>1. /\ comment'.version = comment.version + 1 /\ comment'.used = comment.used \cup {comment.text}
        /\ comment'.state = "gone" /\ (returned => returned')
        /\ UNCHANGED <<failed, plan, inbox, snapshots, item, segments, handler, heard, late>>
    BY <1>2 DEF Remove, Author, queues, record, history
  <2> DEFINE event == [kind |-> "deleted", text |-> comment.text, version |-> comment'.version]
  <2>2. hooks' = hooks \cup {event} /\ event.kind = "deleted"
    BY <1>2 DEF Remove, Author
  <2> HIDE DEF event
  <2>3. Written' \subseteq Written
    BY <2>1, <2>2 DEF OnTheWay, Written
  <2>4. comment.version <= comment'.version /\ heard <= heard'
    BY <2>1, WrittenTypes
  <2> QED BY <2>1, <2>3, <2>4, SameVersions
<1> QED BY <1>1, <1>2

\* The events the worker takes are on their way, and those it has settled are not any more.
LEMMA SettleWritten ==
  ASSUME ArchiveInv, SettleRow \/ (handler' = Idle /\ UNCHANGED <<inbox, snapshots>>),
         UNCHANGED <<comment, hooks, failed>>, plan' \in {plan, NoEvent}
  PROVE  Written' \subseteq Written
<1>1. /\ inbox' = inbox \/ (inbox # <<>> /\ inbox' = Tail(inbox))
      /\ snapshots' = snapshots \/ (snapshots # <<>> /\ snapshots' = Tail(snapshots))
  BY DEF SettleRow, ArchiveInv, ClaimsHeld
<1>2. inbox \in Seq(Event) /\ snapshots \in Seq(Event)
  BY DEF ArchiveInv, TypeOK
<1>3. {inbox'[i] : i \in 1..Len(inbox')} \subseteq {inbox[i] : i \in 1..Len(inbox)}
  BY <1>1, <1>2, TailElements
<1>4. {snapshots'[i] : i \in 1..Len(snapshots')} \subseteq {snapshots[i] : i \in 1..Len(snapshots)}
  BY <1>1, <1>2, TailElements
<1>5. handler'.event = NoEvent
  BY DEF SettleRow, Idle
<1>6. OnTheWay' \subseteq OnTheWay \cup {NoEvent}
  BY <1>3, <1>4, <1>5 DEF OnTheWay
<1> QED BY <1>6, IdleTypes DEF Written

LEMMA ClaimWritten ==
  ASSUME ArchiveInv, ClaimEvent \/ ClaimSnapshot \/ ClaimSync \/ ClaimDelete
  PROVE  Written' \subseteq Written
<1>1. UNCHANGED <<comment, hooks, failed, plan, inbox, snapshots>>
  BY DEF ClaimEvent, ClaimSnapshot, ClaimSync, ClaimDelete, ClaimOnly, outside, queues
<1>2. /\ inbox # <<>> => Head(inbox) \in OnTheWay
      /\ snapshots # <<>> => Head(snapshots) \in OnTheWay
  <2>1. inbox # <<>> => Head(inbox) \in {inbox[i] : i \in 1..Len(inbox)}
    BY TailElements DEF ArchiveInv, TypeOK
  <2>2. snapshots # <<>> => Head(snapshots) \in {snapshots[i] : i \in 1..Len(snapshots)}
    BY TailElements DEF ArchiveInv, TypeOK
  <2> QED BY <2>1, <2>2 DEF OnTheWay
<1>3. handler'.event \in OnTheWay \cup {NoEvent}
  BY <1>2 DEF ClaimEvent, ClaimSnapshot, ClaimSync, ClaimDelete, Idle
<1>4. OnTheWay' \subseteq OnTheWay \cup {NoEvent}
  BY <1>1, <1>3 DEF OnTheWay
<1> QED BY <1>4, IdleTypes DEF Written

LEMMA QueueWritten ==
  ASSUME ArchiveInv,
         \/ (\E event \in hooks : Deliver(event) \/ FailDelivery(event)) \/ Redeliver
         \/ ReadInventory \/ EnqueueSnapshot
  PROVE  Written' \subseteq Written
<1>1. comment' = comment /\ handler' = handler
  BY DEF Deliver, FailDelivery, Redeliver, ReadInventory, EnqueueSnapshot
<1>2. CASE (\E event \in hooks : Deliver(event) \/ FailDelivery(event)) \/ Redeliver
  <2>1. UNCHANGED <<plan, snapshots>> /\ hooks' \cup failed' \subseteq hooks \cup failed
    BY <1>2 DEF Deliver, FailDelivery, Redeliver, queues
  <2>2. inbox' = inbox \/ \E event \in hooks : inbox' = Append(inbox, event)
    BY <1>2 DEF Deliver, FailDelivery, Redeliver, queues
  <2>3. {inbox'[i] : i \in 1..Len(inbox')} \subseteq {inbox[i] : i \in 1..Len(inbox)} \cup hooks
    <3>1. CASE inbox' = inbox
      BY <3>1
    <3>2. CASE \E event \in hooks : inbox' = Append(inbox, event)
      <4>1. PICK event \in hooks : inbox' = Append(inbox, event)
        BY <3>2
      <4>2. inbox \in Seq(Event) /\ event \in Event
        BY DEF ArchiveInv, TypeOK
      <4>3. {inbox'[i] : i \in 1..Len(inbox')} \subseteq {inbox[i] : i \in 1..Len(inbox)} \cup {event}
        BY <4>1, <4>2, AppendElements
      <4> QED BY <4>3
    <3> QED BY <2>2, <3>1, <3>2
  <2>4. OnTheWay' \subseteq OnTheWay
    BY <1>1, <2>1, <2>3 DEF OnTheWay
  <2> QED BY <2>4 DEF Written
<1>3. CASE ReadInventory
  <2>1. UNCHANGED <<hooks, failed, inbox, snapshots>> /\ comment.state = "posted"
        /\ plan' = [kind |-> "written", text |-> comment.text, version |-> comment.version]
    BY <1>3 DEF ReadInventory, queues
  <2>2. OnTheWay' \subseteq OnTheWay
    BY <1>1, <2>1 DEF OnTheWay
  <2> QED BY <2>2 DEF Written
<1>4. CASE EnqueueSnapshot
  <2>1. UNCHANGED <<hooks, failed, inbox>> /\ snapshots' = Append(snapshots, plan) /\ plan' = NoEvent
    BY <1>4 DEF EnqueueSnapshot
  <2>2. {snapshots'[i] : i \in 1..Len(snapshots')}
          \subseteq {snapshots[i] : i \in 1..Len(snapshots)} \cup {plan}
    BY <2>1, AppendElements DEF ArchiveInv, TypeOK
  <2>3. OnTheWay' \subseteq OnTheWay \cup {NoEvent}
    BY <1>1, <2>1, <2>2 DEF OnTheWay
  <2> QED BY <2>3, IdleTypes DEF Written
<1> QED BY <1>2, <1>3, <1>4

\* The other steps, which leave the events where they are.
LEMMA SameWritten ==
  ASSUME handler'.event = handler.event, UNCHANGED <<comment, hooks, failed, plan, inbox, snapshots>>
  PROVE  Written' \subseteq Written
BY DEF Written, OnTheWay

\* The history only grows.
LEMMA HearGrows ==
  ASSUME ArchiveInv, Hear
  PROVE  /\ heard <= heard' /\ (late => late')
         /\ ~late' => ~late /\ heard <= handler.event.version
<1>1. heard \in Nat /\ handler.event.version \in Nat
  BY TextTypes DEF ArchiveInv, TypeOK, Handler, Event
<1>2. heard' = IF handler.event.version > heard THEN handler.event.version ELSE heard
  BY DEF Hear
<1>3. (late => late') /\ (~late' => ~late /\ ~(handler.event.version < heard))
  BY Zenon DEF Hear
<1> QED BY <1>1, <1>2, <1>3

LEMMA UpsertVersions ==
  ASSUME ArchiveInv, ArchiveInv', VersionInv, UpsertItem
  PROVE  VersionInv'
<1> DEFINE event == handler.event
<1>1. event \in Written /\ event.kind = "written"
  BY DEF UpsertItem, ArchiveInv, ClaimsHeld, Written, OnTheWay
<1>2. /\ item'.text = event.text
      /\ UNCHANGED <<comment, hooks, failed, plan, inbox, snapshots, segments, returned>>
  BY RecordTypes DEF UpsertItem, Item, outside, queues
<1>3. Written' \subseteq Written
  <2>1. handler'.event = handler.event
    BY GotoTypes DEF UpsertItem
  <2> QED BY <1>2, <2>1, SameWritten
<1>4. /\ \A e \in Written : e.version \in Nat
      /\ heard \in Nat /\ heard' \in Nat
  BY WrittenTypes DEF ArchiveInv, TypeOK, Version
<1>5. /\ heard' = IF event.version > heard THEN event.version ELSE heard
      /\ ~late' => ~late /\ ~(event.version < heard)
  BY DEF UpsertItem, Hear
<1> HIDE DEF event
<1>6. event.version \in Nat /\ event.version <= heard'
      /\ (~late' => heard <= event.version /\ heard' = event.version)
  BY <1>1, <1>4, <1>5
<1>7. \A t \in Text : Shows(t)' <=> Shows(t)
  BY <1>2 DEF Shows
<1>8. TextsUsed'
  BY <1>1, <1>2, <1>3, <1>7 DEF VersionInv, TextsUsed
<1>9. TextsAreVersions'
  <2> SUFFICES ASSUME ~returned PROVE TextsAreVersions'
    BY <1>2 DEF TextsAreVersions
  <2>1. \A e, f \in Written : e.text = f.text <=> e.version = f.version
    BY DEF VersionInv, TextsAreVersions
  <2>2. \A e \in Written' : e.text = item'.text => e.version <= heard'
    BY <1>1, <1>2, <1>3, <1>6, <2>1
  <2>3. ASSUME ~late', NEW e \in Written', NEW t \in Text,
               segments' # <<>>, Shows(t)', e.text = t, e.version >= heard'
        PROVE  item'.text = t
    <3>1. e.version >= heard /\ e \in Written
      BY <1>3, <1>4, <1>6, <2>3
    <3>2. item.text = t
      BY <1>2, <1>5, <1>7, <2>3, <3>1 DEF VersionInv, TextsAreVersions
    <3>3. e.version <= heard
      BY <2>3, <3>1, <3>2 DEF VersionInv, TextsAreVersions
    <3>4. e.version = event.version
      BY <1>4, <1>6, <2>3, <3>1, <3>3
    <3> QED BY <1>1, <1>2, <2>1, <2>3, <3>1, <3>4
  <2> QED BY <1>2, <1>3, <2>1, <2>2, <2>3 DEF TextsAreVersions
<1> QED BY <1>8, <1>9 DEF VersionInv

\* What is recorded is the item's text.
LEMMA ReplaceVersions ==
  ASSUME ArchiveInv, ArchiveInv', LoopInv, LoopInv', VersionInv, ReplaceSegments
  PROVE  VersionInv'
<1>1. /\ handler.step = "save" /\ handler.step \in Loop
      /\ segments' = [i \in 1..Len(Parts) |-> [message |-> handler.done[i], hash |-> Parts[i]]]
      /\ UNCHANGED <<comment, hooks, failed, plan, inbox, snapshots, item, returned, heard, late>>
  BY DEF ReplaceSegments, Loop, SyncSteps, outside, queues, history
<1>2. handler.text = item.text /\ item.text \in Text
  BY <1>1 DEF LoopInv, LoopReads
<1>3. Written' \subseteq Written
  <2>1. handler'.event = handler.event
    BY GotoTypes DEF ReplaceSegments, SyncSteps
  <2> QED BY <1>1, <2>1, SameWritten
<1>4. 1 \in 1..Len(Parts) /\ Parts[1].text = item.text
  <2>1. 0 < Len(Rendering(item.text)) /\ Len(Rendering(item.text)) \in Nat
    BY <1>2, RenderingTypes
  <2>2. 1 \in 1..Len(Rendering(item.text))
    BY <2>1
  <2> QED BY <1>2, <2>1, <2>2, RenderingTexts DEF Parts
<1>5. \A t \in Text : Shows(t)' => t = item.text
  <2> SUFFICES ASSUME NEW t \in Text, Shows(t)' PROVE t = item.text
    OBVIOUS
  <2>1. segments'[1].hash = Parts[1]
    BY <1>1, <1>4
  <2>2. 1 \in 1..Len(segments')
    <3>1. segments' \in Seq(Segment) /\ DOMAIN segments' = 1..Len(Parts)
      BY <1>1 DEF ArchiveInv, TypeOK
    <3>2. DOMAIN segments' = 1..Len(segments')
      BY <3>1, LenProperties
    <3> QED BY <1>4, <3>1, <3>2
  <2>3. Len(segments') = Len(Rendering(t)) /\ segments'[1].hash = Rendering(t)[1]
    BY <2>2 DEF Shows
  <2>4. 1 \in 1..Len(Rendering(t)) /\ Len(Rendering(t)) \in Nat
    BY <2>2, <2>3, RenderingTypes
  <2>5. Rendering(t)[1].text = t
    BY <2>4, RenderingTexts
  <2> QED BY <1>4, <2>1, <2>3, <2>5
<1>6. TextsUsed'
  <2>1. item.text \in comment.used
    BY <1>2, TextTypes DEF VersionInv, TextsUsed
  <2> QED BY <1>1, <1>3, <1>5, <2>1 DEF VersionInv, TextsUsed
<1>7. TextsAreVersions'
  BY <1>1, <1>3, <1>5 DEF VersionInv, TextsAreVersions
<1> QED BY <1>6, <1>7 DEF VersionInv

LEMMA MarkVersions ==
  ASSUME ArchiveInv, ArchiveInv', VersionInv, MarkDeleted
  PROVE  VersionInv'
<1>1. /\ segments' = <<>> /\ item'.text = item.text
      /\ UNCHANGED <<comment, hooks, failed, plan, inbox, snapshots, returned, heard, late>>
  BY RecordTypes DEF MarkDeleted, Item, outside, queues, history
<1>2. Written' \subseteq Written
  <2>1. handler'.event = handler.event
    BY GotoTypes DEF MarkDeleted
  <2> QED BY <1>1, <2>1, SameWritten
<1> QED BY <1>1, <1>2 DEF VersionInv, TextsUsed, TextsAreVersions

LEMMA VersionStep == ArchiveInv /\ LoopInv /\ VersionInv /\ [Next]_vars => VersionInv'
<1> SUFFICES ASSUME ArchiveInv, LoopInv, VersionInv, [Next]_vars PROVE VersionInv'
  OBVIOUS
<1> ArchiveInv' /\ LoopInv'
  BY ArchiveStep, LoopStep
<1>1. comment.version \in Nat /\ heard \in Nat
  BY WrittenTypes
<1>2. CASE (\E t \in Text : Post(t) \/ Edit(t)) \/ Remove
  BY <1>2, AuthorVersions
<1>3. CASE (\E event \in hooks : Deliver(event) \/ FailDelivery(event)) \/ Redeliver
           \/ ReadInventory \/ EnqueueSnapshot
  <2>1. UNCHANGED <<comment, item, segments, heard, late, returned>>
    BY <1>3 DEF Deliver, FailDelivery, Redeliver, ReadInventory, EnqueueSnapshot, record, history
  <2>2. Written' \subseteq Written
    BY <1>3, QueueWritten
  <2> QED BY <1>1, <2>1, <2>2, SameVersions
<1>4. CASE ClaimEvent \/ ClaimSnapshot \/ ClaimSync \/ ClaimDelete
  <2>1. UNCHANGED <<comment, item, segments, heard, late, returned>>
    BY <1>4 DEF ClaimEvent, ClaimSnapshot, ClaimSync, ClaimDelete, ClaimOnly, outside, record, history
  <2>2. Written' \subseteq Written
    BY <1>4, ClaimWritten
  <2> QED BY <1>1, <2>1, <2>2, SameVersions
<1>5. CASE Finish \/ GiveUp \/ Interrupt \/ NotFound
  <2>1. UNCHANGED <<comment, item, segments, heard, late, returned>>
    BY <1>5 DEF Finish, GiveUp, Interrupt, NotFound, SettleRow, outside, record
  <2>2. Written' \subseteq Written
    BY <1>5, SettleWritten DEF Finish, GiveUp, Interrupt, NotFound, SettleRow, outside, queues
  <2> QED BY <1>1, <2>1, <2>2, SameVersions
<1>6. CASE UpsertItem
  BY <1>6, UpsertVersions
<1>7. CASE EnqueueSync \/ EnqueueDelete
  <2>1. UNCHANGED <<comment, hooks, failed, plan, inbox, snapshots, item, segments, returned>>
    BY <1>7 DEF EnqueueSync, EnqueueDelete, Enqueue, outside, queues, record
  <2>2. handler'.event = handler.event
    BY <1>7, GotoTypes DEF EnqueueSync, EnqueueDelete, Enqueue
  <2>3. heard <= heard' /\ (late => late')
    <3>1. CASE EnqueueSync
      BY <1>1, <3>1 DEF EnqueueSync, history
    <3>2. CASE EnqueueDelete
      BY <3>2, HearGrows DEF EnqueueDelete
    <3> QED BY <1>7, <3>1, <3>2
  <2> QED BY <1>1, <2>1, <2>2, <2>3, SameWritten, SameVersions
<1>8. CASE (EditSegment /\ ~NotFound) \/ CreateThread \/ CreateMessage \/ (DeleteSurplus /\ ~NotFound)
           \/ DeleteMessage \/ OpenThread \/ AttachThread \/ SetDestination \/ CloseThread
  <2>1. UNCHANGED <<comment, hooks, failed, plan, inbox, snapshots, segments, returned, heard, late>>
    BY <1>8 DEF EditSegment, CreateThread, CreateMessage, PostMessage, DeleteSurplus, DeleteMessage,
       OpenThread, AttachThread, SetDestination, CloseThread, ClaimOnly, outside, queues, record, history
  <2>2. item'.text = item.text
    BY <1>8, RecordTypes DEF EditSegment, CreateThread, CreateMessage, PostMessage, DeleteSurplus,
       DeleteMessage, OpenThread, AttachThread, SetDestination, CloseThread, ClaimOnly, record, Item
  <2>3. handler'.event = handler.event
    BY <1>8, HandlerTypes DEF EditSegment, CreateThread, CreateMessage, PostMessage, DeleteSurplus,
       DeleteMessage, OpenThread, AttachThread, SetDestination, CloseThread, Goto, Handler
  <2> QED BY <1>1, <2>1, <2>2, <2>3, SameWritten, SameVersions
<1>9. CASE ReplaceSegments
  BY <1>9, ReplaceVersions
<1>10. CASE MarkDeleted
  BY <1>10, MarkVersions
<1>11. CASE UNCHANGED vars
  BY <1>1, <1>11, SameWritten, SameVersions DEF vars
<1> QED
  BY <1>2, <1>3, <1>4, <1>5, <1>6, <1>7, <1>8, <1>9, <1>10, <1>11 DEF Next, Work

-----------------------------------------------------------------------------
(* The messages show what the segments say, unless an operation is to come *)
(* that will see to it.                                                    *)

Matches == \A i \in 1..Len(segments) : messages[segments[i].message] = segments[i].hash

Calm == ~dead /\ (faults = 0 \/ ~(late \/ returned))

MismatchPends ==
  Calm /\ ~Matches =>
    /\ ops # <<>>
    /\ Head(ops) = DeleteItem \/ ~Shows(item.text)
    /\ faults = 0 => handler.step \in Loop \cup {"erase", "mark"}

DoneShows ==
  Calm =>
    /\ handler.step \in Loop =>
         \A i \in 1..Len(handler.done) : messages[handler.done[i]] = Parts[i]
    /\ handler.job = "operation" /\ handler.step \in {"close", "end"} => Matches

MatchInv == MismatchPends /\ DoneShows

LEMMA InitMatch == Init => MatchInv
<1> SUFFICES ASSUME Init PROVE MatchInv
  OBVIOUS
<1>1. Matches
  BY DEF Init, Matches
<1> QED BY <1>1, IdleTypes DEF Init, MatchInv, MismatchPends, DoneShows, Loop, SyncSteps

\* What disturbs the calm never ends.
LEMMA CalmBefore ==
  ASSUME ArchiveInv, [Next]_vars, Calm'
  PROVE  Calm
<1>1. faults \in Nat
  BY DEF ArchiveInv, TypeOK
<1>2. (dead => dead') /\ (late => late') /\ (returned => returned') /\ (faults' = 0 => faults = 0)
  <2>1. CASE (\E t \in Text : Post(t) \/ Edit(t)) \/ Remove
    <3>1. PICK state, text : Author(state, text)
      BY <2>1 DEF Post, Edit, Remove
    <3>2. returned => returned'
      BY <3>1, Zenon DEF Author
    <3> QED BY <3>1, <3>2 DEF Author, history
  <2>2. CASE (\E event \in hooks : Deliver(event) \/ FailDelivery(event)) \/ Redeliver
             \/ ReadInventory \/ EnqueueSnapshot \/ Interrupt \/ GiveUp \/ NotFound \/ Finish
    BY <1>1, <2>2 DEF Deliver, FailDelivery, Redeliver, ReadInventory, EnqueueSnapshot, Interrupt, GiveUp,
       NotFound, Finish, SettleRow, outside, history
  <2>3. CASE ClaimEvent \/ ClaimSnapshot \/ ClaimSync \/ ClaimDelete
    BY <2>3 DEF ClaimEvent, ClaimSnapshot, ClaimSync, ClaimDelete, ClaimOnly, outside, history
  <2>4. CASE UpsertItem \/ EnqueueSync \/ EnqueueDelete
    <3>1. returned' = returned /\ dead' = dead /\ faults' = faults
      BY <2>4 DEF UpsertItem, EnqueueSync, EnqueueDelete, Enqueue, Hear, outside, history
    <3>2. late => late'
      BY <2>4, HearGrows DEF UpsertItem, EnqueueSync, EnqueueDelete, history
    <3> QED BY <3>1, <3>2
  <2>5. CASE OpenThread \/ (EditSegment /\ ~NotFound) \/ CreateThread \/ CreateMessage \/ AttachThread
             \/ SetDestination \/ (DeleteSurplus /\ ~NotFound) \/ ReplaceSegments \/ CloseThread
             \/ DeleteMessage \/ MarkDeleted
    BY <2>5 DEF OpenThread, EditSegment, CreateThread, CreateMessage, PostMessage, AttachThread,
       SetDestination, DeleteSurplus, ReplaceSegments, CloseThread, DeleteMessage, MarkDeleted, ClaimOnly,
       outside, history
  <2>6. CASE UNCHANGED vars
    BY <2>6 DEF vars
  <2> QED BY <2>1, <2>2, <2>3, <2>4, <2>5, <2>6 DEF Next, Work
<1> QED BY <1>2 DEF Calm

\* Steps that leave the messages, the segments and the item's text alone.
LEMMA SameMatch ==
  ASSUME MatchInv, Calm' => Calm, UNCHANGED <<segments, messages>>, item'.text = item.text,
         Calm /\ ~Matches /\ ops # <<>> => ops' # <<>> /\ Head(ops') = Head(ops),
         faults' = 0 => faults = 0,
         \/ faults' # 0
         \/ handler.step \notin Loop \cup {"erase", "mark"}
         \/ handler'.step \in Loop \cup {"erase", "mark"},
         DoneShows'
  PROVE  MatchInv'
<1>1. Matches' = Matches /\ (Shows(item.text)' <=> Shows(item.text))
  BY DEF Matches, Shows
<1>2. MismatchPends'
  BY <1>1 DEF MatchInv, MismatchPends
<1> QED BY <1>2 DEF MatchInv

LEMMA EventMatch ==
  ASSUME MatchInv, Calm' => Calm, UNCHANGED <<ops, item, segments, messages, handler>>,
         faults' = 0 => faults = 0
  PROVE  MatchInv'
<1>1. DoneShows'
  BY DEF MatchInv, DoneShows, Matches, Parts
<1> QED BY <1>1, SameMatch

LEMMA ClaimMatch ==
  ASSUME ArchiveInv, LoopInv, MatchInv, Calm' => Calm,
         ClaimEvent \/ ClaimSnapshot \/ ClaimSync \/ ClaimDelete
  PROVE  MatchInv'
<1>1. handler = Idle /\ UNCHANGED <<ops, item, segments, messages, faults>>
  BY DEF ClaimEvent, ClaimSnapshot, ClaimSync, ClaimDelete, ClaimOnly, queues, record, discord, history
<1>2. handler.step \notin Loop \cup {"erase", "mark"}
  BY <1>1 DEF Idle, Loop, SyncSteps
<1>3. handler'.done = <<>>
  BY DEF ClaimEvent, ClaimSnapshot, ClaimSync, ClaimDelete, Idle
<1>4. handler'.job = "operation" /\ handler'.step \in {"close", "end"} => segments = <<>>
  <2>1. CASE ClaimEvent \/ ClaimSnapshot
    BY <2>1 DEF ClaimEvent, ClaimSnapshot, Idle
  <2>2. CASE ClaimSync
    BY <2>2 DEF ClaimSync, Idle
  <2>3. CASE ClaimDelete
    <3>1. handler'.step = "end" => thread.id = NoThread
      BY <2>3 DEF ClaimDelete, Idle
    <3>2. handler'.step # "close"
      BY <2>3 DEF ClaimDelete, Idle
    <3> QED BY <3>1, <3>2 DEF LoopInv, SegmentsWhole
  <2> QED BY <2>1, <2>2, <2>3
<1>5. DoneShows'
  BY <1>1, <1>3, <1>4 DEF DoneShows, Matches
<1> QED BY <1>1, <1>2, <1>5, SameMatch

LEMMA EndMatch ==
  ASSUME ArchiveInv, LoopInv, MatchInv, Calm' => Calm, Finish \/ Interrupt \/ GiveUp \/ NotFound
  PROVE  MatchInv'
<1>1. CASE GiveUp \/ NotFound
  BY <1>1 DEF GiveUp, NotFound, MatchInv, MismatchPends, DoneShows, Calm
<1>2. CASE Finish \/ Interrupt
  <2>1. UNCHANGED <<item, segments, messages>> /\ handler' = Idle
    BY <1>2 DEF Finish, Interrupt, SettleRow, record, discord
  <2>2. DoneShows'
    BY <2>1 DEF DoneShows, Idle, Loop, SyncSteps
  <2>3. CASE Finish
    <3>1. handler.step = "end" /\ faults' = faults
          /\ (handler.job # "operation" => ops' = ops)
      BY <2>3 DEF Finish, SettleRow
    <3>2. Calm /\ ~Matches => handler.job # "operation"
      BY <3>1 DEF MatchInv, DoneShows
    <3>3. handler.step \notin Loop \cup {"erase", "mark"}
      BY <3>1 DEF Loop, SyncSteps
    <3> QED BY <2>1, <2>2, <3>1, <3>2, <3>3, SameMatch
  <2>4. CASE Interrupt
    <3>1. faults' # 0 /\ ops' = ops
      BY <2>4 DEF Interrupt, queues, ArchiveInv, TypeOK
    <3> QED BY <2>1, <2>2, <3>1, SameMatch
  <2> QED BY <1>2, <2>3, <2>4
<1> QED BY <1>1, <1>2

LEMMA UpsertMatch ==
  ASSUME ArchiveInv, LoopInv, VersionInv, MatchInv, Calm' => Calm, UpsertItem
  PROVE  MatchInv'
<1>1. /\ handler.step = "upsert" /\ handler'.step = "sync" /\ handler'.done = handler.done
      /\ handler.event \in Written /\ handler.event.kind = "written" /\ handler.event.text \in Text
  <2>1. handler'.step = "sync" /\ handler'.done = handler.done
    BY GotoTypes DEF UpsertItem
  <2> QED BY <2>1 DEF UpsertItem, ArchiveInv, ClaimsHeld, RealEvent, Written, OnTheWay
<1>2. item'.text = handler.event.text /\ UNCHANGED <<ops, segments, messages, faults, returned, dead>>
  BY RecordTypes DEF UpsertItem, Item, Hear, outside, queues, discord
<1>3. ~late' => ~late /\ handler.event.version >= heard
  <2>1. heard \in Nat /\ handler.event.version \in Nat
    BY <1>1, WrittenTypes
  <2> QED BY <2>1, HearGrows DEF UpsertItem
<1>4. handler.step \notin Loop \cup {"erase", "mark", "close", "end"}
  BY <1>1 DEF Loop, SyncSteps
<1>5. DoneShows'
  BY <1>1 DEF DoneShows, Loop, SyncSteps
<1>6. MismatchPends'
  <2> SUFFICES ASSUME Calm', ~Matches' PROVE MismatchPends'
    BY DEF MismatchPends
  <2>1. Calm /\ ~Matches /\ faults # 0
    BY <1>2, <1>4 DEF Matches, MatchInv, MismatchPends
  <2>2. ~late' /\ ~returned
    BY <1>2, <2>1 DEF Calm
  <2>3. ops # <<>> /\ (Head(ops) = DeleteItem \/ ~Shows(item.text))
    BY <2>1 DEF MatchInv, MismatchPends
  <2>4. segments # <<>>
    BY <2>1 DEF Matches
  <2>5. Shows(handler.event.text) => item.text = handler.event.text
    BY <1>1, <1>3, <2>2, <2>4 DEF VersionInv, TextsAreVersions
  <2>6. Shows(item.text)' <=> Shows(handler.event.text)
    BY <1>2 DEF Shows
  <2>7. Head(ops') = DeleteItem \/ ~Shows(item.text)'
    BY <1>2, <2>3, <2>5, <2>6
  <2> QED BY <1>2, <2>1, <2>3, <2>7 DEF MismatchPends
<1> QED BY <1>5, <1>6 DEF MatchInv

LEMMA EnqueueMatch ==
  ASSUME ArchiveInv, LoopInv, MatchInv, Calm' => Calm, EnqueueSync \/ EnqueueDelete
  PROVE  MatchInv'
<1>1. handler.step \in {"sync", "delete"} /\ handler'.step = "end" /\ handler'.job = handler.job
      /\ handler.job # "operation"
  BY GotoTypes DEF EnqueueSync, EnqueueDelete, Enqueue, ArchiveInv, ClaimsHeld
<1>2. UNCHANGED <<item, segments, messages, faults>>
  BY DEF EnqueueSync, EnqueueDelete, Enqueue, Hear, record, discord, history
<1>3. ops # <<>> => ops' # <<>> /\ Head(ops') = Head(ops)
  <2>1. CASE EnqueueSync
    <3>1. SyncOf(handler.event.text) \in Key
      BY <2>1, KeyTypes DEF EnqueueSync, ArchiveInv, ClaimsHeld, RealEvent
    <3> QED BY <2>1, <3>1, EnqueueTypes DEF EnqueueSync
  <2>2. CASE EnqueueDelete
    BY <2>2, KeyTypes, EnqueueTypes DEF EnqueueDelete, queues
  <2> QED BY <2>1, <2>2
<1>4. handler.step \notin Loop \cup {"erase", "mark"} /\ handler'.step \notin Loop
  BY <1>1 DEF Loop, SyncSteps
<1>5. DoneShows'
  BY <1>1, <1>4 DEF DoneShows
<1> QED BY <1>2, <1>3, <1>4, <1>5, SameMatch

LEMMA GotoMatch ==
  ASSUME ArchiveInv, LoopInv, MatchInv, Calm' => Calm,
         OpenThread \/ AttachThread \/ SetDestination \/ CloseThread
  PROVE  MatchInv'
<1>1. UNCHANGED <<ops, segments, messages, faults>>
  BY DEF OpenThread, AttachThread, SetDestination, CloseThread, queues, record, discord, history
<1>2. item'.text = item.text
  BY RecordTypes DEF OpenThread, AttachThread, SetDestination, CloseThread, record, Item
<1>3. PICK step : Goto(step)
  BY DEF OpenThread, AttachThread, SetDestination, CloseThread
<1>4. /\ handler'.done = handler.done /\ handler'.text = handler.text /\ handler'.step = step
      /\ handler'.job = handler.job
  BY <1>3, HandlerTypes DEF Goto, Handler
<1>5. CASE CloseThread
  <2>1. handler.step = "close" /\ handler'.step = "end" /\ handler.job = "operation"
    BY <1>5, <1>4, GotoTypes DEF CloseThread, ArchiveInv, OpenedWhileClosed, SyncSteps
  <2>2. DoneShows'
    BY <1>1, <2>1 DEF MatchInv, DoneShows, Matches, Loop, SyncSteps
  <2>3. handler.step \notin Loop \cup {"erase", "mark"}
    BY <2>1 DEF Loop, SyncSteps
  <2> QED BY <1>1, <1>2, <2>2, <2>3, SameMatch
<1>6. CASE OpenThread \/ AttachThread \/ SetDestination
  <2>1. handler.step \in Loop /\ handler'.step \in Loop
    <3>1. AfterSegment(handler.done) \in Loop
      BY AfterLoop
    <3>2. handler'.step \in {"segment", "locate", AfterSegment(handler.done)}
      BY <1>6, HandlerTypes DEF OpenThread, AttachThread, SetDestination, Goto, Handler
    <3> QED BY <1>6, <3>1, <3>2 DEF OpenThread, AttachThread, SetDestination, Loop, SyncSteps
  <2>2. DoneShows'
    <3>1. handler'.step \notin {"close", "end"} /\ Parts' = Parts
      BY <1>4, <2>1 DEF Loop, SyncSteps, Parts
    <3> QED BY <1>1, <1>4, <2>1, <3>1 DEF MatchInv, DoneShows
  <2> QED BY <1>1, <1>2, <2>1, <2>2, SameMatch
<1> QED BY <1>5, <1>6

\* The loop has one message more, which shows its part.
LEMMA TakesShow ==
  ASSUME ArchiveInv, handler.step = "segment", handler'.step \in Loop, handler'.text = handler.text,
         NEW message \in Message, handler'.done = Append(handler.done, message),
         Calm' => /\ messages'[message] = Parts[Position]
                  /\ \A i \in 1..Len(handler.done) : messages'[handler.done[i]] = Parts[i]
  PROVE  DoneShows'
<1>1. handler.done \in Seq(Message) /\ Len(handler.done) \in Nat
  BY HandlerTypes
<1>2. /\ Len(handler'.done) = Len(handler.done) + 1
      /\ handler'.done[Len(handler.done) + 1] = message
      /\ \A i \in 1..Len(handler.done) : handler'.done[i] = handler.done[i]
  BY <1>1, AppendProperties
<1>3. \A i \in 1..Len(handler'.done) : i \in 1..Len(handler.done) \/ i = Position
  BY <1>1, <1>2 DEF Position
<1>4. Calm' => \A i \in 1..Len(handler'.done) : messages'[handler'.done[i]] = Parts[i]
  BY <1>2, <1>3 DEF Position
<1>5. Parts' = Parts /\ handler'.step \notin {"close", "end"}
  BY DEF Parts, Loop, SyncSteps
<1> QED BY <1>4, <1>5 DEF DoneShows

LEMMA EditMatch ==
  ASSUME ArchiveInv, LoopInv, MatchInv, Calm' => Calm, EditSegment, ~NotFound
  PROVE  MatchInv'
<1> DEFINE segment == handler.old[Position]
           message == segment.message
           done    == Append(handler.done, message)
<1>1. handler.step = "segment" /\ handler.step \in Loop
  BY DEF EditSegment, Loop, SyncSteps
<1>2. /\ Position \in 1..Len(segments) /\ segment = segments[Position]
      /\ \A i \in 1..Len(handler.done) : /\ i \in 1..Len(segments) /\ i # Position
                                         /\ handler.done[i] = segments[i].message
      /\ message \in Message
  BY EditFacts, SegmentFacts
<1>3. /\ handler' = [handler EXCEPT !.done = done, !.step = AfterSegment(done)]
      /\ \/ segment.hash = Parts[Position] /\ messages' = messages
         \/ /\ segment.hash # Parts[Position]
            /\ messages' = [messages EXCEPT ![message] = Parts[Position]]
      /\ UNCHANGED <<ops, item, segments, faults>>
  BY DEF EditSegment, ClaimOnly, queues, record, discord, history
<1> HIDE DEF segment, message
<1>4. handler'.done = done /\ handler'.text = handler.text /\ handler'.step = AfterSegment(done)
  BY <1>3, HandlerTypes DEF Handler
<1>5. handler'.step \in Loop
  BY <1>4, AfterLoop
<1>6. ops # <<>> /\ Head(ops) # DeleteItem /\ item.text = handler.text /\ item.text \in Text
  <2>1. handler.step \in SyncSteps
    BY <1>1 DEF SyncSteps
  <2>2. ops # <<>> /\ Head(ops) # DeleteItem
    BY <2>1 DEF ArchiveInv, OpenedWhileClosed, ClaimsHeld
  <2> QED BY <1>1, <2>2 DEF LoopInv, LoopReads
<1>7. Position \in 1..Len(Parts) /\ Len(Parts) \in Nat /\ Parts = Rendering(item.text)
  BY <1>1, <1>2, <1>6, AppendTypes, HandlerTypes DEF Parts
<1>8. \A i \in 1..Len(handler.done) : Calm => messages[handler.done[i]] = Parts[i]
  BY <1>1 DEF MatchInv, DoneShows
<1>9. CASE segment.hash = Parts[Position] /\ messages' = messages
  <2>1. Shows(item.text)
    <3>1. segments # <<>>
      BY <1>2
    <3>2. PICK t \in Text : Shows(t)
      BY <3>1 DEF LoopInv, SegmentsWhole
    <3>3. segment.hash.text = t
      BY <1>2, <3>2, ShownText
    <3>4. segment.hash.text = item.text
      BY <1>7, <1>9, RenderingTexts
    <3> QED BY <3>2, <3>3, <3>4
  <2>2. Calm => Matches
    BY <1>6, <2>1 DEF MatchInv, MismatchPends
  <2>3. Calm => messages[message] = Parts[Position]
    BY <1>2, <1>9, <2>2 DEF Matches, message
  <2>4. DoneShows'
    BY <1>1, <1>2, <1>4, <1>5, <1>8, <1>9, <2>3, TakesShow
  <2> QED BY <1>1, <1>3, <1>5, <1>9, <2>4, SameMatch
<1>10. CASE /\ segment.hash # Parts[Position]
            /\ messages' = [messages EXCEPT ![message] = Parts[Position]]
  <2>1. messages'[message] = Parts[Position]
    BY <1>2, <1>10, RecordTypes
  <2>2. \A i \in 1..Len(handler.done) : messages'[handler.done[i]] = messages[handler.done[i]]
    <3>1. \A i \in 1..Len(handler.done) : handler.done[i] # message /\ handler.done[i] \in Message
      BY <1>2, SegmentFacts DEF LoopInv, SegmentsWhole, message
    <3> QED BY <1>10, <3>1, RecordTypes
  <2>3. DoneShows'
    BY <1>1, <1>2, <1>4, <1>5, <1>8, <2>1, <2>2, TakesShow
  <2>4. ~Shows(item.text)'
    BY <1>2, <1>3, <1>7, <1>10 DEF Shows
  <2>5. MismatchPends'
    BY <1>3, <1>5, <1>6, <2>4 DEF MismatchPends
  <2> QED BY <2>3, <2>5 DEF MatchInv
<1> QED BY <1>3, <1>9, <1>10

LEMMA PostMatch ==
  ASSUME ArchiveInv, LoopInv, MatchInv, Calm' => Calm, CreateThread \/ CreateMessage
  PROVE  MatchInv'
<1> DEFINE done == Append(handler.done, posted')
<1>1. PICK step \in {"attach", "next", "locate"} : PostMessage(step)
  BY DEF CreateThread, CreateMessage
<1>2. handler.step = "segment" /\ handler.step \in Loop
  BY DEF CreateThread, CreateMessage, Loop, SyncSteps
<1>3. /\ posted' = posted + 1 /\ posted' \in Message /\ posted \in Nat
  BY <1>1, RecordTypes, TextTypes DEF PostMessage, Message
<1>4. messages' = [messages EXCEPT ![posted'] = Parts[Position]]
      /\ UNCHANGED <<ops, item, segments, faults>>
  BY <1>1 DEF PostMessage, queues, record, history
<1> DEFINE next == IF step = "next" THEN AfterSegment(done) ELSE step
<1>5. handler' = [handler EXCEPT !.done = done, !.step = next]
  BY <1>1, Zenon DEF PostMessage
<1>6. next \in Loop
  BY AfterLoop DEF Loop, SyncSteps
<1> HIDE DEF next
<1>7. handler'.done = done /\ handler'.text = handler.text /\ handler'.step = next
  BY <1>5, HandlerTypes DEF Handler
<1>8. \A i \in 1..Len(handler.done) : handler.done[i] # posted' /\ handler.done[i] \in Message
  BY <1>2, <1>3, HandlerTypes, ElementOfSeq DEF LoopInv, LoopMakes
<1>9. /\ messages'[posted'] = Parts[Position]
      /\ \A i \in 1..Len(handler.done) : messages'[handler.done[i]] = messages[handler.done[i]]
  BY <1>3, <1>4, <1>8, RecordTypes
<1>10. Calm => \A i \in 1..Len(handler.done) : messages[handler.done[i]] = Parts[i]
  BY <1>2 DEF MatchInv, DoneShows
<1>11. DoneShows'
  BY <1>2, <1>3, <1>6, <1>7, <1>9, <1>10, TakesShow
<1>12. Matches' = Matches
  <2>1. \A i \in 1..Len(segments) : segments[i].message # posted' /\ segments[i].message \in Message
    BY <1>3, SegmentFacts DEF LoopInv, SegmentsWhole
  <2>2. \A i \in 1..Len(segments) : messages'[segments[i].message] = messages[segments[i].message]
    BY <1>3, <1>4, <2>1, RecordTypes
  <2> QED BY <1>4, <2>2 DEF Matches
<1>13. MismatchPends'
  BY <1>4, <1>6, <1>7, <1>12 DEF MatchInv, MismatchPends, Shows
<1> QED BY <1>11, <1>13 DEF MatchInv

LEMMA SurplusMatch ==
  ASSUME ArchiveInv, LoopInv, MatchInv, Calm' => Calm, DeleteSurplus, ~NotFound
  PROVE  MatchInv'
<1>1. handler.step = "surplus" /\ handler.step \in Loop /\ handler.step \in SyncSteps
  BY DEF DeleteSurplus, Loop, SyncSteps
<1>2. /\ messages' = [messages EXCEPT ![segments[2].message] = Gone]
      /\ UNCHANGED <<ops, item, segments, faults>>
      /\ handler'.done = handler.done /\ handler'.text = handler.text
      /\ handler'.step \in {"surplus", "save"}
  <2>1. handler.old[Len(Parts) + 1] = segments[2]
    <3>1. Len(Parts) = 1 /\ handler.old[2] = segments[2]
      BY <1>1, SurplusFacts
    <3>2. Len(Parts) + 1 = 2
      BY <3>1
    <3> QED BY <3>1, <3>2
  <2> QED BY <2>1, HandlerTypes DEF DeleteSurplus, queues, record, history, Handler
<1>3. handler'.step \in Loop /\ handler'.step \notin {"close", "end"} /\ Parts' = Parts
  BY <1>2 DEF Loop, SyncSteps, Parts
<1>4. ops # <<>> /\ item.text = handler.text
  BY <1>1 DEF ArchiveInv, OpenedWhileClosed, ClaimsHeld, LoopInv, LoopReads
<1>5. ~Shows(item.text)'
  BY <1>1, <1>2, <1>4, SurplusFacts DEF Shows, Parts
<1>6. MismatchPends'
  BY <1>2, <1>3, <1>4, <1>5 DEF MismatchPends
<1>7. \A i \in 1..Len(handler.done) : messages'[handler.done[i]] = messages[handler.done[i]]
  <2>1. \A i \in 1..Len(handler.done) : handler.done[i] = segments[1].message
    BY <1>1, SurplusFacts
  <2>2. segments[1].message # segments[2].message /\ segments[1].message \in Message
    <3>1. Len(segments) = 2
      BY <1>1, SurplusFacts
    <3>2. 1 \in 1..Len(segments) /\ 2 \in 1..Len(segments)
      BY <3>1
    <3> QED BY <3>2, SegmentFacts DEF LoopInv, SegmentsWhole
  <2> QED BY <1>2, <2>1, <2>2, RecordTypes
<1>8. DoneShows'
  BY <1>1, <1>2, <1>3, <1>7 DEF MatchInv, DoneShows
<1> QED BY <1>6, <1>8 DEF MatchInv

\* What the handler has made or edited is what it records.
LEMMA ReplaceMatch ==
  ASSUME ArchiveInv, LoopInv, MatchInv, Calm' => Calm, ReplaceSegments
  PROVE  MatchInv'
<1>1. /\ handler.step = "save" /\ handler.step \in Loop
      /\ segments' = [i \in 1..Len(Parts) |-> [message |-> handler.done[i], hash |-> Parts[i]]]
      /\ UNCHANGED messages
  BY DEF ReplaceSegments, Loop, SyncSteps, discord
<1>2. handler'.step \notin Loop
  BY GotoTypes DEF ReplaceSegments, Loop, SyncSteps
<1>3. Len(handler.done) = Len(Parts) /\ Len(Parts) \in Nat
  BY <1>1, HandlerTypes DEF ArchiveInv, LoopAgrees
<1>4. Calm => Matches'
  <2>1. \A i \in 1..Len(Parts) : Calm => messages[handler.done[i]] = Parts[i]
    BY <1>1, <1>3 DEF MatchInv, DoneShows
  <2>2. Len(segments') = Len(Parts)
    <3>1. segments' \in Seq(Segment)
      BY ArchiveStep DEF ArchiveInv, TypeOK, Next, Work
    <3>2. DOMAIN segments' = 1..Len(Parts) /\ DOMAIN segments' = 1..Len(segments')
          /\ Len(segments') \in Nat
      BY <1>1, <3>1, LenProperties
    <3> QED BY <1>3, <3>2
  <2> QED BY <1>1, <2>1, <2>2 DEF Matches
<1> QED BY <1>2, <1>4 DEF MatchInv, MismatchPends, DoneShows

LEMMA DeletionMatch ==
  ASSUME ArchiveInv, LoopInv, MatchInv, Calm' => Calm, DeleteMessage \/ MarkDeleted
  PROVE  MatchInv'
<1>1. CASE DeleteMessage
  <2>1. handler'.step \in {"erase", "mark"} /\ UNCHANGED ops
    BY <1>1, HandlerTypes DEF DeleteMessage, Handler, queues
  <2>2. ops # <<>> /\ Head(ops) = DeleteItem
    BY <1>1 DEF DeleteMessage, LoopInv, DeleteReads, ArchiveInv, ClaimsHeld
  <2> QED BY <2>1, <2>2 DEF MatchInv, MismatchPends, DoneShows, Loop, SyncSteps
<1>2. CASE MarkDeleted
  <2>1. segments' = <<>> /\ handler'.step = "end"
    BY <1>2, GotoTypes DEF MarkDeleted
  <2> QED BY <2>1 DEF MatchInv, MismatchPends, DoneShows, Matches, Loop, SyncSteps
<1> QED BY <1>1, <1>2

LEMMA MatchStep == ArchiveInv /\ LoopInv /\ VersionInv /\ MatchInv /\ [Next]_vars => MatchInv'
<1> SUFFICES ASSUME ArchiveInv, LoopInv, VersionInv, MatchInv, [Next]_vars PROVE MatchInv'
  OBVIOUS
<1> Calm' => Calm
  BY CalmBefore
<1>1. faults \in Nat
  BY DEF ArchiveInv, TypeOK
<1>2. CASE (\E t \in Text : Post(t) \/ Edit(t)) \/ Remove
           \/ (\E event \in hooks : Deliver(event) \/ FailDelivery(event)) \/ Redeliver
           \/ ReadInventory \/ EnqueueSnapshot \/ UNCHANGED vars
  <2>1. UNCHANGED <<ops, item, segments, messages, handler>>
    BY <1>2 DEF Post, Edit, Remove, Author, Deliver, FailDelivery, Redeliver, ReadInventory,
       EnqueueSnapshot, vars, queues, record, discord
  <2>2. faults' = 0 => faults = 0
    BY <1>1, <1>2 DEF Post, Edit, Remove, Author, Deliver, FailDelivery, Redeliver, ReadInventory,
       EnqueueSnapshot, vars, history
  <2> QED BY <2>1, <2>2, EventMatch
<1>3. CASE ClaimEvent \/ ClaimSnapshot \/ ClaimSync \/ ClaimDelete
  BY <1>3, ClaimMatch
<1>4. CASE Finish \/ GiveUp \/ Interrupt \/ NotFound
  BY <1>4, EndMatch
<1>5. CASE UpsertItem \/ EnqueueSync \/ EnqueueDelete
  BY <1>5, UpsertMatch, EnqueueMatch
<1>6. CASE OpenThread \/ AttachThread \/ SetDestination \/ CloseThread
  BY <1>6, GotoMatch
<1>7. CASE (EditSegment /\ ~NotFound) \/ CreateThread \/ CreateMessage \/ (DeleteSurplus /\ ~NotFound)
           \/ ReplaceSegments \/ DeleteMessage \/ MarkDeleted
  BY <1>7, EditMatch, PostMatch, SurplusMatch, ReplaceMatch, DeletionMatch
<1> QED
  BY <1>2, <1>3, <1>4, <1>5, <1>6, <1>7 DEF Next, Work

\* With no operation left to run the segments on record are one whole text, and the messages
\* show it: what an interruption leaves half edited or half deleted is put right before the
\* queue is empty, unless a row died, or a fault met a text that came back or events that
\* overtook each other (#syncDiscordItem, markDeleted).
THEOREM SettledCopiesAreWhole == Spec => []WholeWhenSettled
<1>1. LoopInv /\ MatchInv => WholeWhenSettled
  BY DEF LoopInv, SegmentsWhole, Shows, MatchInv, MismatchPends, Matches, Calm, WholeWhenSettled
<1>2. Init => VersionInv /\ MatchInv
  BY InitVersions, InitMatch
<1>3. ArchiveInv /\ LoopInv /\ VersionInv /\ MatchInv /\ [Next]_vars => VersionInv' /\ MatchInv'
  BY VersionStep, MatchStep
<1> QED BY <1>1, <1>2, <1>3, LoopAlways, PTL DEF Spec
=============================================================================
