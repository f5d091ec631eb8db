------------------------ MODULE MessageRelayProofs ------------------------
(***************************************************************************)
(* MessageRelay, proved for every number of revisions, comments, faults and*)
(* acts of users: a user's edit that the relay can tell from its own       *)
(* writing is never overwritten, a conflict has a cause, a comment the     *)
(* relay has forgotten is the price of an interruption, and no comment goes*)
(* back to an older revision.                                              *)
(***************************************************************************)
EXTENDS MessageRelay, FiniteSetTheorems, SequenceTheorems, TLAPS

USE MessageAssumption DEF Comment, NoComment

\* A handler runs on a row that is still there.
ClaimsHeld ==
  /\ handler.job = "event" => inbox # <<>>
  /\ handler.job = "operation" => ops # <<>>

\* What a handler has read still holds when it acts: the item changes only by it.
HandlerAgrees ==
  /\ handler.step \in {"create", "locate"} => item.destination = NoComment
  /\ handler.step \in {"locate", "read", "write", "hash", "erase"} => handler.comment # NoComment
  /\ handler.step \in {"read", "write", "hash", "erase"} => handler.comment = item.destination
  /\ handler.step = "read" => handler.hash = item.hash
  /\ handler.step \in {"create", "locate", "read", "write", "hash"} => handler.body.by = "relay"

\* Comments are numbered as they are made.
Numbered ==
  /\ item.destination <= made /\ handler.comment <= made
  /\ \A c \in kept : c <= made

\* The hash on record is that of something the relay wrote into the comment on record.
HashIsOurs ==
  /\ item.hash.by # "user"
  /\ item.destination = NoComment => item.hash = Absent

\* The comment that is about to be recorded or written bears no edit to keep, and
\* one that bears such an edit has a hash to tell it by.
KeptIsTold ==
  /\ handler.step \in {"locate", "write"} => handler.comment \notin kept
  /\ item.destination \in kept => item.hash # Absent

EditInv ==
  /\ TypeOK /\ ClaimsHeld /\ HandlerAgrees /\ Numbered /\ HashIsOurs /\ KeptIsTold
  /\ UserEditsStay

-----------------------------------------------------------------------------
(* Types of the parts an action writes.                                    *)

LEMMA BodyTypes ==
  /\ Absent \in Body /\ UserText \in Body /\ Absent # UserText
  /\ Absent.by = "nobody" /\ UserText.by = "user"
  /\ \A text \in 0..MaxRevision, media \in Media :
       Rendered(text, media) \in Body /\ Rendered(text, media).by = "relay"
BY DEF Absent, UserText, Body, Media, Rendered

LEMMA IdleTypes ==
  /\ Idle \in Handler /\ Idle.job = "none" /\ Idle.step = "none" /\ Idle.comment = NoComment
BY BodyTypes DEF Idle, Handler

LEMMA KeyTypes ==
  /\ DeleteItem \in Key /\ SyncOfUpload \in Key
  /\ \A r \in 0..MaxRevision : SyncOf(r) \in Key
<1>1. \A r \in 0..MaxRevision : SyncOf(r) \in Key
  BY DEF Key
<1>2. 0 \in 0..MaxRevision
  OBVIOUS
<1> QED BY <1>1, <1>2 DEF Key, SyncOfUpload

LEMMA SettleTypes ==
  ASSUME EditInv, SettleRow
  PROVE  /\ inbox' \in Seq(EventKind) /\ ops' \in Seq(Key)
         /\ upload' \in {"none", "queued", "settled"}
         /\ handler' = Idle
BY DEF SettleRow, EditInv, TypeOK, ClaimsHeld

LEMMA EnqueueTypes ==
  ASSUME EditInv, NEW key \in Key, Enqueue(key)
  PROVE  /\ ops' \in Seq(Key) /\ keys' \in SUBSET Key
         /\ ops # <<>> => ops' # <<>>
BY DEF Enqueue, EditInv, TypeOK

-----------------------------------------------------------------------------

LEMMA InitEdit == Init => EditInv
<1> SUFFICES ASSUME Init PROVE EditInv
  OBVIOUS
<1>1. message \in Message
  BY DEF Init, Message
<1>2. item \in Item
  BY BodyTypes DEF Init, Item, Media
<1>3. comments \in [Comment -> Body] /\ handler \in Handler
  BY BodyTypes, IdleTypes DEF Init
<1>4. TypeOK
  <2>1. inbox \in Seq(EventKind) /\ ops \in Seq(Key) /\ upload \in {"none", "queued", "settled"}
    BY DEF Init
  <2>2. keys \in SUBSET Key /\ hooks \in SUBSET ({"written", "removed"} \X Comment)
        /\ mirrored \in SUBSET Comment /\ touched \in SUBSET Comment /\ kept \in SUBSET Comment
    BY DEF Init
  <2>3. made \in 0..MaxComments
        /\ faults \in 0..MaxFaults /\ edits \in 0..MaxEdits
    BY DEF Init
  <2>4. shadow \in BOOLEAN /\ lost \in BOOLEAN
    BY Zenon DEF Init
  <2> QED BY <1>1, <1>2, <1>3, <2>1, <2>2, <2>3, <2>4 DEF TypeOK
<1>5. ClaimsHeld /\ HandlerAgrees /\ Numbered /\ KeptIsTold /\ UserEditsStay
  BY IdleTypes DEF Init, ClaimsHeld, HandlerAgrees, Numbered, KeptIsTold, UserEditsStay
<1>6. HashIsOurs
  BY BodyTypes DEF Init, HashIsOurs
<1> QED BY <1>4, <1>5, <1>6 DEF EditInv

LEMMA SettleKeeps ==
  ASSUME EditInv, SettleRow, faults' \in 0..MaxFaults, lost' \in BOOLEAN
  PROVE  EditInv'
BY SettleTypes, IdleTypes
   DEF SettleRow, EditInv, TypeOK, ClaimsHeld, HandlerAgrees, Numbered, HashIsOurs, KeptIsTold,
       UserEditsStay, record, github
-----------------------------------------------------------------------------
(* The author and users.                                                   *)

LEMMA AnnounceTypes ==
  ASSUME EditInv, NEW kind \in EventKind, Announce(kind)
  PROVE  /\ inbox' \in Seq(EventKind) /\ faults' \in 0..MaxFaults /\ lost' \in BOOLEAN
         /\ inbox # <<>> => inbox' # <<>>
<1>1. inbox' \in Seq(EventKind) /\ (inbox # <<>> => inbox' # <<>>)
  <2>1. inbox \in Seq(EventKind)
    BY DEF EditInv, TypeOK
  <2>2. Append(inbox, kind) \in Seq(EventKind) /\ Append(inbox, kind) # <<>>
    BY <2>1, AppendProperties
  <2>3. inbox' \in {inbox, Append(inbox, kind)}
    BY DEF Announce
  <2> QED BY <2>1, <2>2, <2>3
<1>2. faults' \in 0..MaxFaults
  BY DEF Announce, EditInv, TypeOK
<1>3. lost' \in BOOLEAN
  BY Zenon DEF Announce, EditInv, TypeOK
<1> QED BY <1>1, <1>2, <1>3

LEMMA AuthorKeeps ==
  ASSUME EditInv, Post \/ Edit \/ Remove
  PROVE  EditInv'
<1>1. /\ AuthorOnly
      /\ \E kind \in EventKind : Announce(kind)
      /\ kept' \subseteq kept
  BY DEF Post, Edit, Remove, EventKind
<1>2. /\ inbox' \in Seq(EventKind) /\ faults' \in 0..MaxFaults /\ lost' \in BOOLEAN
      /\ inbox # <<>> => inbox' # <<>>
  BY <1>1, AnnounceTypes
<1>3. message' \in Message
  <2>1. message \in Message
    BY DEF EditInv, TypeOK
  <2>2. CASE Post
    <3>1. 1 \in 0..MaxRevision /\ message' = [message EXCEPT !.state = "posted", !.text = 1]
      BY <2>2 DEF Post
    <3> QED BY <2>1, <3>1 DEF Message
  <2>3. CASE Edit
    BY <2>1, <2>3 DEF Edit, Message
  <2>4. CASE Remove
    BY <2>1, <2>4 DEF Remove, Message
  <2> QED BY <2>2, <2>3, <2>4
<1>4. TypeOK'
  BY <1>1, <1>2, <1>3 DEF AuthorOnly, EditInv, TypeOK, record, github
<1>5. /\ ClaimsHeld' /\ HandlerAgrees' /\ Numbered' /\ HashIsOurs' /\ KeptIsTold'
      /\ UserEditsStay'
  BY <1>1, <1>2 DEF AuthorOnly, EditInv, ClaimsHeld, HandlerAgrees, Numbered, HashIsOurs,
     KeptIsTold, UserEditsStay, record, github
<1> QED BY <1>4, <1>5 DEF EditInv

LEMMA UserEditKeeps ==
  ASSUME EditInv, NEW c \in Comment, UserEdits(c)
  PROVE  EditInv'
<1>1. TypeOK'
  <2>1. comments' \in [Comment -> Body]
    BY BodyTypes DEF UserEdits, EditInv, TypeOK
  <2>2. hooks' \in SUBSET ({"written", "removed"} \X Comment)
    BY DEF UserEdits, EditInv, TypeOK
  <2>3. edits' \in 0..MaxEdits /\ touched' \in SUBSET Comment /\ kept' \in SUBSET Comment
    BY DEF UserEdits, UserActs, EditInv, TypeOK
  <2>4. UNCHANGED <<message, queues, record, made, handler, faults, lost>>
    BY DEF UserEdits, UserActs
  <2> QED BY <2>1, <2>2, <2>3, <2>4 DEF EditInv, TypeOK, queues, record
<1>2. ClaimsHeld' /\ HandlerAgrees' /\ HashIsOurs'
  BY DEF UserEdits, UserActs, EditInv, ClaimsHeld, HandlerAgrees, HashIsOurs, queues, record
<1>3. Numbered' /\ KeptIsTold'
  BY DEF UserEdits, UserActs, Tellable, EditInv, TypeOK, HandlerAgrees, Numbered, KeptIsTold, Item, record
<1>4. UserEditsStay'
  BY DEF UserEdits, EditInv, TypeOK, UserEditsStay
<1> QED BY <1>1, <1>2, <1>3, <1>4 DEF EditInv

LEMMA UserDeleteKeeps ==
  ASSUME EditInv, NEW c \in Comment, UserDeletes(c)
  PROVE  EditInv'
<1>1. TypeOK'
  <2>1. comments' \in [Comment -> Body]
    BY BodyTypes DEF UserDeletes, EditInv, TypeOK
  <2>2. hooks' \in SUBSET ({"written", "removed"} \X Comment)
    BY DEF UserDeletes, EditInv, TypeOK
  <2>3. edits' \in 0..MaxEdits /\ touched' \in SUBSET Comment /\ kept' \in SUBSET Comment
    BY DEF UserDeletes, UserActs, EditInv, TypeOK
  <2>4. UNCHANGED <<message, queues, record, made, handler, faults, lost>>
    BY DEF UserDeletes, UserActs
  <2> QED BY <2>1, <2>2, <2>3, <2>4 DEF EditInv, TypeOK, queues, record
<1>2. ClaimsHeld' /\ HandlerAgrees' /\ HashIsOurs'
  BY DEF UserDeletes, UserActs, EditInv, ClaimsHeld, HandlerAgrees, HashIsOurs, queues, record
<1>3. Numbered' /\ KeptIsTold'
  BY DEF UserDeletes, UserActs, EditInv, TypeOK, HandlerAgrees, Numbered, KeptIsTold, Item, record
<1>4. UserEditsStay'
  BY DEF UserDeletes, EditInv, TypeOK, UserEditsStay
<1> QED BY <1>1, <1>2, <1>3, <1>4 DEF EditInv

-----------------------------------------------------------------------------
(* Claims and ends.                                                        *)

LEMMA StartTypes ==
  ASSUME NEW job \in {"event", "operation", "upload"},
         NEW step \in {"fetch", "record", "delete", "create", "read", "mark", "erase", "complete"}
  PROVE  /\ Start(job, step) \in Handler
         /\ Start(job, step).job = job /\ Start(job, step).step = step
         /\ Start(job, step).comment = NoComment
BY IdleTypes DEF Start, Handler

LEMMA ClaimEventKeeps ==
  ASSUME EditInv, ClaimEvent
  PROVE  EditInv'
<1>1. Head(inbox) \in EventKind /\ inbox # <<>>
  BY DEF ClaimEvent, EditInv, TypeOK
<1>2. /\ handler' \in Handler /\ handler'.job = "event" /\ handler'.comment = NoComment
      /\ handler'.step \in {"fetch", "record", "delete"}
  <2>1. CASE Head(inbox) = "create"
    <3>1. handler' = [Start("event", "record") EXCEPT !.text = 1]
      BY <2>1 DEF ClaimEvent
    <3>2. 1 \in 0..MaxRevision
      OBVIOUS
    <3>3. /\ Start("event", "record") \in Handler /\ Start("event", "record").job = "event"
          /\ Start("event", "record").step = "record"
          /\ Start("event", "record").comment = NoComment
      BY StartTypes
    <3> QED BY <3>1, <3>2, <3>3 DEF Handler
  <2>2. CASE Head(inbox) = "update"
    BY <2>2, StartTypes DEF ClaimEvent
  <2>3. CASE Head(inbox) = "delete"
    BY <2>3, StartTypes DEF ClaimEvent
  <2> QED BY <1>1, <2>1, <2>2, <2>3 DEF EventKind
<1>3. TypeOK'
  BY <1>2 DEF ClaimEvent, ClaimOnly, EditInv, TypeOK, queues, record, github, history
<1>4. /\ ClaimsHeld' /\ HandlerAgrees' /\ Numbered' /\ HashIsOurs' /\ KeptIsTold'
      /\ UserEditsStay'
  <2>1. made \in Nat /\ ClaimOnly
    BY DEF ClaimEvent, EditInv, TypeOK
  <2> QED
    BY <1>1, <1>2, <2>1 DEF ClaimOnly, EditInv, ClaimsHeld, HandlerAgrees, Numbered,
       HashIsOurs, KeptIsTold, UserEditsStay, queues, record, github, history
<1> QED BY <1>3, <1>4 DEF EditInv

LEMMA ClaimOperationKeeps ==
  ASSUME EditInv, ClaimSync \/ ClaimDelete
  PROVE  EditInv'
<1>1. /\ handler' \in Handler /\ handler'.job = "operation" /\ ops # <<>>
      /\ handler'.comment = item.destination
      /\ \/ handler'.step = "create" /\ item.destination = NoComment
         \/ handler'.step = "read" /\ item.destination # NoComment
         \/ handler'.step = "mark"
         \/ handler'.step = "erase" /\ item.destination # NoComment
      /\ handler'.step \in {"create", "read"} =>
           handler'.body.by = "relay" /\ handler'.hash = item.hash
  <2> DEFINE sync == IF item.destination = NoComment THEN "create" ELSE "read"
             del  == IF item.destination = NoComment THEN "mark" ELSE "erase"
  <2>1. CASE ClaimSync
    <3>1. handler' = [Start("operation", sync) EXCEPT !.body = Rendered(item.text, item.media),
                        !.comment = item.destination, !.hash = item.hash]
      BY <2>1 DEF ClaimSync
    <3>2. /\ Rendered(item.text, item.media) \in Body
          /\ Rendered(item.text, item.media).by = "relay"
          /\ item.destination \in Comment \cup {NoComment} /\ item.hash \in Body
      BY BodyTypes DEF EditInv, TypeOK, Item
    <3>3. /\ Start("operation", sync) \in Handler /\ Start("operation", sync).job = "operation"
          /\ Start("operation", sync).step = sync
      BY StartTypes
    <3>4. /\ handler' \in Handler /\ handler'.job = "operation" /\ handler'.step = sync
          /\ handler'.comment = item.destination /\ handler'.hash = item.hash
          /\ handler'.body = Rendered(item.text, item.media)
      BY <3>1, <3>2, <3>3 DEF Handler
    <3> QED BY <2>1, <3>2, <3>4 DEF ClaimSync
  <2>2. CASE ClaimDelete
    <3>1. handler' = [Start("operation", del) EXCEPT !.comment = item.destination]
      BY <2>2 DEF ClaimDelete
    <3>2. item.destination \in Comment \cup {NoComment}
      BY DEF EditInv, TypeOK, Item
    <3>3. /\ Start("operation", del) \in Handler /\ Start("operation", del).job = "operation"
          /\ Start("operation", del).step = del
      BY StartTypes
    <3> QED BY <2>2, <3>1, <3>2, <3>3 DEF Handler, ClaimDelete
  <2> QED BY <2>1, <2>2
<1>2. ClaimOnly
  BY DEF ClaimSync, ClaimDelete
<1>3. TypeOK'
  BY <1>1, <1>2 DEF ClaimOnly, EditInv, TypeOK, queues, record, github, history
<1>4. /\ ClaimsHeld' /\ HandlerAgrees' /\ Numbered' /\ HashIsOurs' /\ KeptIsTold'
      /\ UserEditsStay'
  BY <1>1, <1>2 DEF ClaimOnly, EditInv, TypeOK, ClaimsHeld, HandlerAgrees, Numbered, HashIsOurs,
     KeptIsTold, UserEditsStay, queues, record, github, history
<1> QED BY <1>3, <1>4 DEF EditInv

LEMMA ClaimUploadKeeps ==
  ASSUME EditInv, ClaimUpload
  PROVE  EditInv'
<1>1. /\ handler' \in Handler /\ handler'.job = "upload" /\ handler'.step = "complete"
      /\ handler'.comment = NoComment /\ ClaimOnly
  BY StartTypes DEF ClaimUpload
<1>2. TypeOK'
  BY <1>1 DEF ClaimOnly, EditInv, TypeOK, queues, record, github, history
<1>3. /\ ClaimsHeld' /\ HandlerAgrees' /\ Numbered' /\ HashIsOurs' /\ KeptIsTold'
      /\ UserEditsStay'
  BY <1>1 DEF ClaimOnly, EditInv, TypeOK, ClaimsHeld, HandlerAgrees, Numbered, HashIsOurs,
     KeptIsTold, UserEditsStay, queues, record, github, history
<1> QED BY <1>2, <1>3 DEF EditInv

LEMMA InterruptKeeps ==
  ASSUME EditInv, Interrupt
  PROVE  EditInv'
<1>1. /\ handler' = Idle /\ faults' \in 0..MaxFaults
      /\ UNCHANGED <<message, queues, record, github, edits, lost, touched, kept>>
  BY DEF Interrupt, EditInv, TypeOK
<1>2. TypeOK'
  BY <1>1, IdleTypes DEF EditInv, TypeOK, queues, record, github
<1>3. /\ ClaimsHeld' /\ HandlerAgrees' /\ Numbered' /\ HashIsOurs' /\ KeptIsTold'
      /\ UserEditsStay'
  BY <1>1, IdleTypes DEF EditInv, TypeOK, ClaimsHeld, HandlerAgrees, Numbered, HashIsOurs,
     KeptIsTold, UserEditsStay, record, github
<1> QED BY <1>2, <1>3 DEF EditInv

LEMMA EndKeeps ==
  ASSUME EditInv, Finish \/ GiveUp
  PROVE  EditInv'
<1>1. SettleRow
  BY DEF Finish, GiveUp
<1>2. faults' \in 0..MaxFaults
  BY DEF Finish, GiveUp, EditInv, TypeOK
<1>3. lost' \in BOOLEAN
  BY Zenon DEF Finish, GiveUp, EditInv, TypeOK
<1> QED BY <1>1, <1>2, <1>3, SettleKeeps

\* The steps that write the item's text or attachment, or enqueue the upload.
LEMMA GoOnKeeps ==
  ASSUME EditInv,
         UpsertItem \/ UpsertAttachment \/ EnqueueUpload \/ CompleteAttachment
  PROVE  EditInv'
<1>1. /\ handler' = [handler EXCEPT !.step = handler'.step]
      /\ handler'.step \in {"attach", "upload", "sync"}
  BY DEF UpsertItem, UpsertAttachment, EnqueueUpload, CompleteAttachment, Goto, EditInv, TypeOK,
     Handler
<1>2. /\ item' \in Item
      /\ item'.destination = item.destination /\ item'.hash = item.hash
  <2>1. handler.text \in 0..MaxRevision
    BY DEF EditInv, TypeOK, Handler
  <2>2. item' \in {item, [item EXCEPT !.state = "ACTIVE", !.text = handler.text],
                   [item EXCEPT !.media = "PENDING"], [item EXCEPT !.media = "COMPLETE"]}
    BY DEF UpsertItem, UpsertAttachment, EnqueueUpload, CompleteAttachment, record, EditInv,
       TypeOK, Item
  <2> QED BY <2>1, <2>2 DEF EditInv, TypeOK, Item, Media
<1>3. /\ handler' \in Handler /\ handler'.job = handler.job /\ handler'.comment = handler.comment
  BY <1>1 DEF EditInv, TypeOK, Handler
<1>4. /\ upload' \in {"none", "queued", "settled"}
      /\ UNCHANGED <<message, inbox, ops, keys, shadow, mirrored, github, history>>
  BY DEF UpsertItem, UpsertAttachment, EnqueueUpload, CompleteAttachment, EditInv, TypeOK,
     queues, record
<1>5. TypeOK'
  BY <1>2, <1>3, <1>4 DEF EditInv, TypeOK, github, history
<1>6. /\ ClaimsHeld' /\ HandlerAgrees' /\ Numbered' /\ HashIsOurs' /\ KeptIsTold'
      /\ UserEditsStay'
  BY <1>1, <1>2, <1>3, <1>4 DEF EditInv, TypeOK, ClaimsHeld, HandlerAgrees, Numbered, HashIsOurs,
     KeptIsTold, UserEditsStay, github, history
<1> QED BY <1>5, <1>6 DEF EditInv

LEMMA HookKeeps ==
  ASSUME EditInv, NEW c \in Comment, HearHook("written", c) \/ HearHook("removed", c)
  PROVE  EditInv'
<1>1. /\ hooks' \in SUBSET ({"written", "removed"} \X Comment) /\ mirrored' \in SUBSET Comment
      /\ UNCHANGED <<message, queues, item, shadow, comments, made, handler, history>>
  BY DEF HearHook, EditInv, TypeOK
<1>2. TypeOK'
  BY <1>1 DEF EditInv, TypeOK, queues, history
<1>3. /\ ClaimsHeld' /\ HandlerAgrees' /\ Numbered' /\ HashIsOurs' /\ KeptIsTold'
      /\ UserEditsStay'
  BY <1>1 DEF EditInv, ClaimsHeld, HandlerAgrees, Numbered, HashIsOurs, KeptIsTold,
     UserEditsStay, queues, history
<1> QED BY <1>2, <1>3 DEF EditInv

LEMMA CreateKeeps ==
  ASSUME EditInv, CreateComment
  PROVE  EditInv'
<1>1. TypeOK'
  <2>1. made' \in Comment /\ handler.body \in Body
    BY DEF CreateComment, EditInv, TypeOK, Handler
  <2>2. comments' \in [Comment -> Body] /\ hooks' \in SUBSET ({"written", "removed"} \X Comment)
    BY <2>1 DEF CreateComment, Write, EditInv, TypeOK
  <2>3. handler' \in Handler
    BY <2>1 DEF CreateComment, EditInv, TypeOK, Handler
  <2> QED BY <2>1, <2>2, <2>3 DEF CreateComment, Write, EditInv, TypeOK, queues, record, history
<1>2. ClaimsHeld' /\ HandlerAgrees' /\ HashIsOurs'
  BY DEF CreateComment, Write, EditInv, TypeOK, ClaimsHeld, HandlerAgrees, HashIsOurs, Handler, Item, queues, record
<1>3. Numbered' /\ KeptIsTold'
  BY DEF CreateComment, Write, EditInv, TypeOK, HandlerAgrees, Numbered, KeptIsTold, Handler, Item, record, history
<1>4. UserEditsStay'
  BY BodyTypes DEF CreateComment, Write, EditInv, TypeOK, HandlerAgrees, Numbered, UserEditsStay, history
<1> QED BY <1>1, <1>2, <1>3, <1>4 DEF EditInv

LEMMA DestinationKeeps ==
  ASSUME EditInv, SetDestination
  PROVE  EditInv'
<1>1. /\ handler' \in Handler /\ handler' = [handler EXCEPT !.step = handler'.step]
      /\ handler'.step = "hash"
  BY DEF SetDestination, Goto, EditInv, TypeOK, Handler
<1>2. item' \in Item /\ UNCHANGED <<message, queues, mirrored, github, history>>
  BY BodyTypes DEF SetDestination, EditInv, TypeOK, Handler, Item
<1>3. TypeOK'
  <2>1. shadow' \in BOOLEAN
    BY Zenon DEF SetDestination, EditInv, TypeOK
  <2> QED BY <1>1, <1>2, <2>1 DEF EditInv, TypeOK, queues, github, history
<1>4. ClaimsHeld' /\ HandlerAgrees' /\ UserEditsStay'
  BY <1>1, <1>2 DEF SetDestination, EditInv, TypeOK, ClaimsHeld, HandlerAgrees, UserEditsStay,
     Handler, Item, queues, github, history
<1>5. Numbered'
  <2>1. handler'.comment = handler.comment /\ made' = made /\ kept' = kept
    BY <1>1, <1>2 DEF EditInv, TypeOK, Handler, github, history
  <2>2. item'.destination \in {item.destination, handler.comment, NoComment}
    BY DEF SetDestination, EditInv, TypeOK, Item
  <2>3. item'.destination <= made
    <3>1. 0 <= made
      BY DEF EditInv, TypeOK
    <3> QED BY <2>2, <3>1 DEF EditInv, Numbered
  <2> QED BY <2>1, <2>3 DEF EditInv, Numbered
<1>6. HashIsOurs'
  BY BodyTypes DEF SetDestination, EditInv, TypeOK, HandlerAgrees, HashIsOurs, Item
<1>7. KeptIsTold'
  BY <1>1, <1>2, BodyTypes DEF SetDestination, EditInv, TypeOK, HandlerAgrees, KeptIsTold, Item, history
<1> QED BY <1>3, <1>4, <1>5, <1>6, <1>7 DEF EditInv

LEMMA RenderHashKeeps ==
  ASSUME EditInv, SetRenderHash
  PROVE  EditInv'
<1>1. /\ handler' \in Handler /\ handler' = [handler EXCEPT !.step = handler'.step]
      /\ handler'.step = "end"
  BY DEF SetRenderHash, Goto, EditInv, TypeOK, Handler
<1>2. item' \in Item /\ UNCHANGED <<message, queues, mirrored, github, history>>
  BY BodyTypes DEF SetRenderHash, EditInv, TypeOK, Handler, Item
<1>3. TypeOK'
  <2>1. shadow' \in BOOLEAN
    BY Zenon DEF SetRenderHash, EditInv, TypeOK
  <2> QED BY <1>1, <1>2, <2>1 DEF EditInv, TypeOK, queues, github, history
<1>4. ClaimsHeld' /\ HandlerAgrees' /\ UserEditsStay'
  BY <1>1, <1>2 DEF SetRenderHash, EditInv, TypeOK, ClaimsHeld, HandlerAgrees, UserEditsStay,
     Handler, Item, queues, github, history
<1>5. Numbered'
  <2>1. handler'.comment = handler.comment /\ made' = made /\ kept' = kept
    BY <1>1, <1>2 DEF EditInv, TypeOK, Handler, github, history
  <2>2. item'.destination \in {item.destination, handler.comment, NoComment}
    BY DEF SetRenderHash, EditInv, TypeOK, Item
  <2>3. item'.destination <= made
    <3>1. 0 <= made
      BY DEF EditInv, TypeOK
    <3> QED BY <2>2, <3>1 DEF EditInv, Numbered
  <2> QED BY <2>1, <2>3 DEF EditInv, Numbered
<1>6. HashIsOurs'
  BY BodyTypes DEF SetRenderHash, EditInv, TypeOK, HandlerAgrees, HashIsOurs, Item
<1>7. KeptIsTold'
  BY <1>1, <1>2, BodyTypes DEF SetRenderHash, EditInv, TypeOK, HandlerAgrees, KeptIsTold, Item, history
<1> QED BY <1>3, <1>4, <1>5, <1>6, <1>7 DEF EditInv

LEMMA ConflictKeeps ==
  ASSUME EditInv, RecordConflict
  PROVE  EditInv'
<1>1. /\ handler' \in Handler /\ handler' = [handler EXCEPT !.step = handler'.step]
      /\ handler'.step = "end"
  BY DEF RecordConflict, Goto, EditInv, TypeOK, Handler
<1>2. item' \in Item /\ UNCHANGED <<message, queues, mirrored, github, history>>
  BY BodyTypes DEF RecordConflict, EditInv, TypeOK, Handler, Item
<1>3. TypeOK'
  <2>1. shadow' \in BOOLEAN
    BY Zenon DEF RecordConflict, EditInv, TypeOK
  <2> QED BY <1>1, <1>2, <2>1 DEF EditInv, TypeOK, queues, github, history
<1>4. ClaimsHeld' /\ HandlerAgrees' /\ UserEditsStay'
  BY <1>1, <1>2 DEF RecordConflict, EditInv, TypeOK, ClaimsHeld, HandlerAgrees, UserEditsStay,
     Handler, Item, queues, github, history
<1>5. Numbered'
  <2>1. handler'.comment = handler.comment /\ made' = made /\ kept' = kept
    BY <1>1, <1>2 DEF EditInv, TypeOK, Handler, github, history
  <2>2. item'.destination \in {item.destination, handler.comment, NoComment}
    BY DEF RecordConflict, EditInv, TypeOK, Item
  <2>3. item'.destination <= made
    <3>1. 0 <= made
      BY DEF EditInv, TypeOK
    <3> QED BY <2>2, <3>1 DEF EditInv, Numbered
  <2> QED BY <2>1, <2>3 DEF EditInv, Numbered
<1>6. HashIsOurs'
  BY BodyTypes DEF RecordConflict, EditInv, TypeOK, HandlerAgrees, HashIsOurs, Item
<1>7. KeptIsTold'
  BY <1>1, <1>2, BodyTypes DEF RecordConflict, EditInv, TypeOK, HandlerAgrees, KeptIsTold, Item, history
<1> QED BY <1>3, <1>4, <1>5, <1>6, <1>7 DEF EditInv

LEMMA DeleteKeeps ==
  ASSUME EditInv, DeleteComment
  PROVE  EditInv'
<1>1. TypeOK'
  <2>1. handler.comment \in Comment
    BY DEF DeleteComment, EditInv, TypeOK, HandlerAgrees, Handler
  <2>2. comments' \in [Comment -> Body] /\ hooks' \in SUBSET ({"written", "removed"} \X Comment)
    BY <2>1, BodyTypes DEF DeleteComment, EditInv, TypeOK
  <2>3. handler' \in Handler
    BY DEF DeleteComment, Goto, EditInv, TypeOK, Handler
  <2> QED BY <2>2, <2>3 DEF DeleteComment, EditInv, TypeOK, queues, record, history
<1>2. ClaimsHeld' /\ HandlerAgrees' /\ HashIsOurs'
  BY DEF DeleteComment, Goto, EditInv, TypeOK, ClaimsHeld, HandlerAgrees, HashIsOurs, Handler, Item, queues, record
<1>3. Numbered' /\ KeptIsTold'
  BY DEF DeleteComment, Goto, EditInv, TypeOK, HandlerAgrees, Numbered, KeptIsTold, Handler, Item, record, history
<1>4. UserEditsStay'
  BY BodyTypes DEF DeleteComment, Goto, EditInv, TypeOK, HandlerAgrees, Numbered, UserEditsStay, history
<1> QED BY <1>1, <1>2, <1>3, <1>4 DEF EditInv

LEMMA MarkKeeps ==
  ASSUME EditInv, MarkDeleted
  PROVE  EditInv'
<1>1. /\ handler' \in Handler /\ handler' = [handler EXCEPT !.step = handler'.step]
      /\ handler'.step = "end"
  BY DEF MarkDeleted, Goto, EditInv, TypeOK, Handler
<1>2. item' \in Item /\ UNCHANGED <<message, queues, mirrored, github, history>>
  BY BodyTypes DEF MarkDeleted, EditInv, TypeOK, Handler, Item
<1>3. TypeOK'
  <2>1. shadow' \in BOOLEAN
    BY Zenon DEF MarkDeleted, EditInv, TypeOK
  <2> QED BY <1>1, <1>2, <2>1 DEF EditInv, TypeOK, queues, github, history
<1>4. ClaimsHeld' /\ HandlerAgrees' /\ UserEditsStay'
  BY <1>1, <1>2 DEF MarkDeleted, EditInv, TypeOK, ClaimsHeld, HandlerAgrees, UserEditsStay,
     Handler, Item, queues, github, history
<1>5. Numbered'
  <2>1. handler'.comment = handler.comment /\ made' = made /\ kept' = kept
    BY <1>1, <1>2 DEF EditInv, TypeOK, Handler, github, history
  <2>2. item'.destination \in {item.destination, handler.comment, NoComment}
    BY DEF MarkDeleted, EditInv, TypeOK, Item
  <2>3. item'.destination <= made
    <3>1. 0 <= made
      BY DEF EditInv, TypeOK
    <3> QED BY <2>2, <3>1 DEF EditInv, Numbered
  <2> QED BY <2>1, <2>3 DEF EditInv, Numbered
<1>6. HashIsOurs'
  BY BodyTypes DEF MarkDeleted, EditInv, TypeOK, HandlerAgrees, HashIsOurs, Item
<1>7. KeptIsTold'
  BY <1>1, <1>2, BodyTypes DEF MarkDeleted, EditInv, TypeOK, HandlerAgrees, KeptIsTold, Item, history
<1> QED BY <1>3, <1>4, <1>5, <1>6, <1>7 DEF EditInv

LEMMA EnqueueKeeps ==
  ASSUME EditInv, EnqueueSync \/ EnqueueDelete \/ EnqueueUploadSync
  PROVE  EditInv'
<1>1. CASE \E key \in Key : Enqueue(key)
  <2>1. PICK key \in Key : Enqueue(key)
    BY <1>1
  <2>2. ops' \in Seq(Key) /\ keys' \in SUBSET Key /\ (ops # <<>> => ops' # <<>>)
    BY <2>1, EnqueueTypes
  <2>3. /\ handler' = [handler EXCEPT !.step = "end"]
        /\ UNCHANGED <<message, inbox, upload, record, github, history>>
    BY <2>1 DEF Enqueue, Goto
  <2>4. /\ handler' \in Handler /\ handler'.step = "end"
        /\ handler'.job = handler.job /\ handler'.comment = handler.comment
    BY <2>3 DEF EditInv, TypeOK, Handler
  <2>5. TypeOK'
    BY <2>2, <2>3, <2>4 DEF EditInv, TypeOK, record, github, history
  <2>6. /\ ClaimsHeld' /\ HandlerAgrees' /\ Numbered' /\ HashIsOurs' /\ KeptIsTold'
        /\ UserEditsStay'
    BY <2>2, <2>3, <2>4 DEF EditInv, ClaimsHeld, HandlerAgrees, Numbered, HashIsOurs, KeptIsTold,
       UserEditsStay, record, github, history
  <2> QED BY <2>5, <2>6 DEF EditInv
<1>2. CASE Goto("end") /\ ClaimOnly
  <2>1. /\ handler' \in Handler /\ handler'.step = "end"
        /\ handler'.job = handler.job /\ handler'.comment = handler.comment
    BY <1>2 DEF Goto, EditInv, TypeOK, Handler
  <2>2. TypeOK'
    BY <1>2, <2>1 DEF ClaimOnly, EditInv, TypeOK, queues, record, github, history
  <2>3. /\ ClaimsHeld' /\ HandlerAgrees' /\ Numbered' /\ HashIsOurs' /\ KeptIsTold'
        /\ UserEditsStay'
    BY <1>2, <2>1 DEF ClaimOnly, EditInv, ClaimsHeld, HandlerAgrees, Numbered, HashIsOurs,
       KeptIsTold, UserEditsStay, queues, record, github, history
  <2> QED BY <2>2, <2>3 DEF EditInv
<1>3. \/ \E key \in Key : Enqueue(key)
      \/ Goto("end") /\ ClaimOnly
  <2>1. handler.text \in 0..MaxRevision
    BY DEF EditInv, TypeOK, Handler
  <2> QED BY <2>1, KeyTypes DEF EnqueueSync, EnqueueDelete, EnqueueUploadSync
<1> QED BY <1>1, <1>2, <1>3

LEMMA FetchKeeps ==
  ASSUME EditInv, FetchMessage
  PROVE  EditInv'
<1>1. CASE message.state = "gone"
  <2>1. SettleRow /\ faults' \in 0..MaxFaults /\ lost' \in BOOLEAN
    BY <1>1 DEF FetchMessage, EditInv, TypeOK
  <2> QED BY <2>1, SettleKeeps
<1>2. CASE message.state # "gone"
  <2>1. handler' = [handler EXCEPT !.step = "record", !.text = message.text] /\ ClaimOnly
    BY <1>2 DEF FetchMessage
  <2>2. /\ handler' \in Handler /\ handler'.step = "record"
        /\ handler'.job = handler.job /\ handler'.comment = handler.comment
    BY <2>1 DEF EditInv, TypeOK, Handler, Message
  <2>3. TypeOK'
    BY <2>1, <2>2 DEF ClaimOnly, EditInv, TypeOK, queues, record, github, history
  <2>4. /\ ClaimsHeld' /\ HandlerAgrees' /\ Numbered' /\ HashIsOurs' /\ KeptIsTold'
        /\ UserEditsStay'
    BY <2>1, <2>2 DEF ClaimOnly, EditInv, ClaimsHeld, HandlerAgrees, Numbered, HashIsOurs,
       KeptIsTold, UserEditsStay, queues, record, github, history
  <2> QED BY <2>3, <2>4 DEF EditInv
<1> QED BY <1>1, <1>2

\* The comparison of the hashes stops a sync at a user's edit: the hash on record is
\* there and is not the hash of what the user wrote.
LEMMA ReadKeeps ==
  ASSUME EditInv, ReadComment
  PROVE  EditInv'
<1>1. CASE comments[handler.comment] = Absent
  <2>1. SettleRow /\ faults' \in 0..MaxFaults /\ lost' \in BOOLEAN
    BY <1>1 DEF ReadComment, EditInv, TypeOK
  <2> QED BY <2>1, SettleKeeps
<1>2. CASE comments[handler.comment] # Absent
  <2> DEFINE next == IF handler.hash \in {Absent, comments[handler.comment]}
                     THEN "write" ELSE "conflict"
  <2>1. handler' = [handler EXCEPT !.step = next] /\ ClaimOnly
    BY <1>2 DEF ReadComment, Goto
  <2>2. /\ handler' \in Handler /\ handler'.step = next
        /\ handler' = [handler EXCEPT !.step = handler'.step]
    BY <2>1 DEF EditInv, TypeOK, Handler
  <2>3. TypeOK'
    BY <2>1, <2>2 DEF ClaimOnly, EditInv, TypeOK, queues, record, github, history
  <2>4. next = "write" => handler.comment \notin kept
    <3> SUFFICES ASSUME next = "write", handler.comment \in kept PROVE FALSE
      OBVIOUS
    <3>1. handler.comment = item.destination /\ handler.hash = item.hash
      BY DEF ReadComment, EditInv, HandlerAgrees
    <3>2. item.hash # Absent /\ item.hash.by # "user"
      BY <3>1 DEF EditInv, KeptIsTold, HashIsOurs
    <3>3. comments[handler.comment] = UserText
      BY <1>2 DEF EditInv, UserEditsStay
    <3> QED BY <3>1, <3>2, <3>3, BodyTypes
  <2>5. ClaimsHeld' /\ HandlerAgrees' /\ Numbered' /\ HashIsOurs' /\ UserEditsStay'
    BY <2>1, <2>2 DEF ReadComment, ClaimOnly, EditInv, TypeOK, ClaimsHeld, HandlerAgrees,
       Numbered, HashIsOurs, UserEditsStay, Handler, queues, record, github, history
  <2>6. KeptIsTold'
    BY <2>1, <2>2, <2>4 DEF ClaimOnly, EditInv, TypeOK, KeptIsTold, Handler, record, history
  <2> QED BY <2>3, <2>5, <2>6 DEF EditInv
<1> QED BY <1>1, <1>2

LEMMA WriteKeeps ==
  ASSUME EditInv, UpdateComment
  PROVE  EditInv'
<1>1. CASE comments[handler.comment] = Absent
  <2>1. SettleRow /\ faults' \in 0..MaxFaults /\ lost' \in BOOLEAN
    BY <1>1 DEF UpdateComment, EditInv, TypeOK
  <2> QED BY <2>1, SettleKeeps
<1>2. CASE comments[handler.comment] # Absent
  <2>1. /\ comments' = [comments EXCEPT ![handler.comment] = handler.body]
        /\ hooks' = hooks \cup {<<"written", handler.comment>>}
        /\ handler' = [handler EXCEPT !.step = "hash"]
        /\ UNCHANGED <<message, queues, record, history, made>>
    BY <1>2 DEF UpdateComment, Write, Goto
  <2>2. handler.comment \in Comment /\ handler.body \in Body
    BY DEF UpdateComment, EditInv, TypeOK, HandlerAgrees, Handler
  <2>3. comments' \in [Comment -> Body] /\ hooks' \in SUBSET ({"written", "removed"} \X Comment)
    BY <2>1, <2>2 DEF EditInv, TypeOK
  <2>4. /\ handler' \in Handler /\ handler'.step = "hash"
        /\ handler' = [handler EXCEPT !.step = "hash"]
    BY <2>1 DEF EditInv, TypeOK, Handler
  <2>5. TypeOK'
    BY <2>1, <2>3, <2>4 DEF EditInv, TypeOK, queues, record, history
  <2>6. ClaimsHeld' /\ HandlerAgrees' /\ Numbered' /\ HashIsOurs' /\ KeptIsTold'
    BY <2>1, <2>4 DEF UpdateComment, EditInv, TypeOK, ClaimsHeld, HandlerAgrees, Numbered,
       HashIsOurs, KeptIsTold, Handler, queues, record, history
  <2>7. UserEditsStay'
    BY <2>1, <2>2 DEF UpdateComment, EditInv, TypeOK, KeptIsTold, UserEditsStay, history
  <2> QED BY <2>5, <2>6, <2>7 DEF EditInv
<1> QED BY <1>1, <1>2

-----------------------------------------------------------------------------

LEMMA EditStep == EditInv /\ [Next]_vars => EditInv'
<1> SUFFICES ASSUME EditInv, [Next]_vars PROVE EditInv'
  OBVIOUS
<1>1. CASE Post \/ Edit \/ Remove
  BY <1>1, AuthorKeeps
<1>2. CASE \E c \in Comment : UserEdits(c) \/ UserDeletes(c)
  BY <1>2, UserEditKeeps, UserDeleteKeeps
<1>3. CASE Interrupt
  BY <1>3, InterruptKeeps
<1>4. CASE Finish \/ GiveUp
  BY <1>4, EndKeeps
<1>5. CASE ClaimEvent \/ ClaimSync \/ ClaimDelete \/ ClaimUpload
  BY <1>5, ClaimEventKeeps, ClaimOperationKeeps, ClaimUploadKeeps
<1>6. CASE FetchMessage
  BY <1>6, FetchKeeps
<1>7. CASE UpsertItem \/ UpsertAttachment \/ EnqueueUpload \/ CompleteAttachment
  BY <1>7, GoOnKeeps
<1>8. CASE EnqueueSync \/ EnqueueDelete \/ EnqueueUploadSync
  BY <1>8, EnqueueKeeps
<1>9. CASE CreateComment \/ SetDestination \/ SetRenderHash
  BY <1>9, CreateKeeps, DestinationKeeps, RenderHashKeeps
<1>10. CASE ReadComment \/ UpdateComment \/ RecordConflict
  BY <1>10, ReadKeeps, WriteKeeps, ConflictKeeps
<1>11. CASE DeleteComment \/ MarkDeleted
  BY <1>11, DeleteKeeps, MarkKeeps
<1>12. CASE \E c \in Comment : HearHook("written", c) \/ HearHook("removed", c)
  BY <1>12, HookKeeps
<1>13. CASE UNCHANGED vars
  BY <1>13 DEF vars, EditInv, TypeOK, ClaimsHeld, HandlerAgrees, Numbered, HashIsOurs, KeptIsTold,
     UserEditsStay
<1> QED
  BY <1>1, <1>2, <1>3, <1>4, <1>5, <1>6, <1>7, <1>8, <1>9, <1>10, <1>11, <1>12, <1>13
     DEF Next, Work

LEMMA EditAlways == Spec => []EditInv
BY InitEdit, EditStep, PTL DEF Spec

\* The rows, the item, the comments and the handler keep their types
\* (relay_items, github.item.sync and the handlers of message events).
THEOREM MessageTypeCorrect == Spec => []TypeOK
<1>1. EditInv => TypeOK
  BY DEF EditInv
<1> QED BY <1>1, EditAlways, PTL

\* A user's edit of a comment whose hash is on record, made while no sync is about to
\* write the comment, is never overwritten (decideDiscordEdit in #syncGitHubItem).
THEOREM UserEditsAreKept == Spec => []UserEditsStay
<1>1. EditInv => UserEditsStay
  BY DEF EditInv
<1> QED BY <1>1, EditAlways, PTL

-----------------------------------------------------------------------------
(* Conflicts.  While no user has acted and no handler was interrupted, the  *)
(* comment on record is what the hash on record says, except between the    *)
(* two steps that change them.                                              *)

Undisturbed == touched = {} /\ faults = 0

HashAgrees ==
  /\ handler.step # "conflict"
  /\ handler.step \in {"locate", "hash"} => comments[handler.comment] = handler.body
  /\ item.destination # NoComment /\ handler.step \notin {"hash", "mark"} =>
       comments[item.destination] = item.hash

CauseInv == Undisturbed => HashAgrees

\* The steps that leave comments, and what the item records of them, alone.
LEMMA SameRecord ==
  ASSUME CauseInv, Undisturbed' => Undisturbed,
         comments' = comments, item'.destination = item.destination, item'.hash = item.hash,
         handler'.step \notin {"conflict", "locate", "hash"},
         handler.step \notin {"hash", "mark"} \/ handler'.step = "mark"
  PROVE  CauseInv'
BY DEF CauseInv, HashAgrees

LEMMA InitCause == Init => CauseInv
BY IdleTypes DEF Init, CauseInv, HashAgrees

LEMMA SettleCause ==
  ASSUME EditInv, CauseInv, SettleRow, handler.step \notin {"hash", "mark"},
         UNCHANGED faults
  PROVE  CauseInv'
BY SameRecord, IdleTypes DEF SettleRow, Undisturbed, record, github

LEMMA ClaimCause ==
  ASSUME EditInv, CauseInv,
         ClaimEvent \/ ClaimSync \/ ClaimDelete \/ ClaimUpload
  PROVE  CauseInv'
<1>1. handler.step = "none" /\ ClaimOnly
  BY IdleTypes DEF ClaimEvent, ClaimSync, ClaimDelete, ClaimUpload
<1>2. handler'.step \notin {"conflict", "locate", "hash"}
  <2>1. CASE ClaimEvent
    <3>1. Head(inbox) \in EventKind
      BY <2>1 DEF ClaimEvent, EditInv, TypeOK
    <3> QED BY <2>1, <3>1 DEF ClaimEvent, EventKind, Start, Idle
  <2>2. CASE ClaimSync \/ ClaimDelete \/ ClaimUpload
    BY <2>2 DEF ClaimSync, ClaimDelete, ClaimUpload, Start, Idle
  <2> QED BY <2>1, <2>2
<1> QED
  BY <1>1, <1>2, SameRecord DEF ClaimOnly, Undisturbed, record, github, history

LEMMA EventCause ==
  ASSUME EditInv, CauseInv,
         \/ UpsertItem \/ UpsertAttachment \/ EnqueueUpload \/ CompleteAttachment
         \/ EnqueueSync \/ EnqueueDelete \/ EnqueueUploadSync
  PROVE  CauseInv'
<1>1. /\ handler.step \in {"record", "attach", "upload", "sync", "delete", "complete"}
      /\ handler'.step \in {"attach", "upload", "sync", "end"}
  BY DEF UpsertItem, UpsertAttachment, EnqueueUpload, CompleteAttachment, EnqueueSync,
     EnqueueDelete, EnqueueUploadSync, Enqueue, Goto, EditInv, TypeOK, Handler
<1>2. /\ comments' = comments /\ UNCHANGED <<touched, faults>>
      /\ item'.destination = item.destination /\ item'.hash = item.hash
  BY DEF UpsertItem, UpsertAttachment, EnqueueUpload, CompleteAttachment, EnqueueSync,
     EnqueueDelete, EnqueueUploadSync, Enqueue, ClaimOnly, EditInv, TypeOK, Item, record, github,
     history
<1> QED BY <1>1, <1>2, SameRecord DEF Undisturbed

LEMMA FetchCause ==
  ASSUME EditInv, CauseInv, FetchMessage
  PROVE  CauseInv'
<1>1. CASE message.state = "gone"
  BY <1>1, SettleCause DEF FetchMessage
<1>2. CASE message.state # "gone"
  <2>1. handler'.step = "record" /\ ClaimOnly
    BY <1>2 DEF FetchMessage, EditInv, TypeOK, Handler
  <2> QED BY <2>1, SameRecord DEF FetchMessage, ClaimOnly, Undisturbed, record, github, history
<1> QED BY <1>1, <1>2

LEMMA CreateCause ==
  ASSUME EditInv, CauseInv, CreateComment
  PROVE  CauseInv'
<1>1. /\ handler'.step = "locate" /\ handler'.comment = made' /\ handler'.body = handler.body
      /\ made' \in Comment
  BY DEF CreateComment, EditInv, TypeOK, Handler
<1>2. comments'[made'] = handler.body
  BY <1>1 DEF CreateComment, Write, EditInv, TypeOK
<1>3. item'.destination = NoComment
  BY DEF CreateComment, Write, EditInv, HandlerAgrees, record
<1> QED BY <1>1, <1>2, <1>3 DEF CauseInv, HashAgrees

LEMMA RecordCause ==
  ASSUME EditInv, CauseInv, SetDestination \/ SetRenderHash
  PROVE  CauseInv'
<1>1. CASE SetDestination
  <2>1. /\ handler.step = "locate" /\ handler'.step = "hash"
        /\ handler'.comment = handler.comment /\ handler'.body = handler.body
        /\ UNCHANGED <<comments, touched, faults>>
    BY <1>1 DEF SetDestination, Goto, EditInv, TypeOK, Handler, github, history
  <2> QED BY <2>1 DEF CauseInv, HashAgrees, Undisturbed
<1>2. CASE SetRenderHash
  <2>1. /\ handler.step = "hash" /\ handler'.step = "end"
        /\ item'.destination = handler.comment /\ item'.hash = handler.body
        /\ UNCHANGED <<comments, touched, faults>>
    BY <1>2 DEF SetRenderHash, Goto, EditInv, TypeOK, Handler, Item, HandlerAgrees, github, history
  <2> QED BY <2>1 DEF CauseInv, HashAgrees, Undisturbed
<1> QED BY <1>1, <1>2

LEMMA ReadCause ==
  ASSUME EditInv, CauseInv, ReadComment
  PROVE  CauseInv'
<1>1. CASE comments[handler.comment] = Absent
  BY <1>1, SettleCause DEF ReadComment
<1>2. CASE comments[handler.comment] # Absent
  <2>1. ClaimOnly /\ handler'.step \in {"write", "conflict"}
    BY <1>2 DEF ReadComment, Goto, EditInv, TypeOK, Handler
  <2>2. Undisturbed => handler'.step = "write"
    <3> SUFFICES ASSUME Undisturbed PROVE handler'.step = "write"
      OBVIOUS
    <3>1. /\ handler.comment = item.destination /\ item.destination # NoComment
          /\ handler.hash = item.hash
      BY DEF ReadComment, EditInv, HandlerAgrees
    <3>2. handler.hash = comments[handler.comment]
      BY <3>1 DEF ReadComment, CauseInv, HashAgrees
    <3> QED BY <1>2, <3>2 DEF ReadComment, Goto, EditInv, TypeOK, Handler
  <2> QED
    BY <2>1, <2>2 DEF ReadComment, ClaimOnly, CauseInv, HashAgrees, Undisturbed, record, github,
       history
<1> QED BY <1>1, <1>2

LEMMA WriteCause ==
  ASSUME EditInv, CauseInv, UpdateComment
  PROVE  CauseInv'
<1>1. CASE comments[handler.comment] = Absent
  BY <1>1, SettleCause DEF UpdateComment
<1>2. CASE comments[handler.comment] # Absent
  <2>1. /\ handler.comment \in Comment
        /\ handler'.step = "hash" /\ handler'.comment = handler.comment
        /\ handler'.body = handler.body
        /\ comments' = [comments EXCEPT ![handler.comment] = handler.body]
    BY <1>2 DEF UpdateComment, Write, Goto, EditInv, TypeOK, HandlerAgrees, Handler
  <2> QED BY <2>1 DEF CauseInv, HashAgrees, EditInv, TypeOK
<1> QED BY <1>1, <1>2

LEMMA EraseCause ==
  ASSUME EditInv, CauseInv, DeleteComment \/ MarkDeleted
  PROVE  CauseInv'
<1>1. CASE DeleteComment
  <2>1. handler'.step = "mark" /\ UNCHANGED <<item, touched, faults>>
    BY <1>1 DEF DeleteComment, Goto, EditInv, TypeOK, Handler, record, history
  <2> QED BY <2>1 DEF CauseInv, HashAgrees
<1>2. CASE MarkDeleted
  <2>1. handler'.step = "end" /\ item'.destination = NoComment
    BY <1>2 DEF MarkDeleted, Goto, EditInv, TypeOK, Handler, Item
  <2> QED BY <2>1 DEF CauseInv, HashAgrees
<1> QED BY <1>1, <1>2

LEMMA CauseStep == EditInv /\ CauseInv /\ [Next]_vars => CauseInv'
<1> SUFFICES ASSUME EditInv, CauseInv, [Next]_vars PROVE CauseInv'
  OBVIOUS
<1>1. CASE Post \/ Edit \/ Remove
  <2>1. UNCHANGED <<item, comments, handler, touched>> /\ (faults' = 0 => faults = 0)
    BY <1>1 DEF Post, Edit, Remove, Announce, AuthorOnly, record, github, EditInv, TypeOK
  <2> QED BY <2>1 DEF CauseInv, HashAgrees, Undisturbed
<1>2. CASE \E c \in Comment : UserEdits(c) \/ UserDeletes(c)
  BY <1>2 DEF UserEdits, UserDeletes, UserActs, CauseInv, Undisturbed
<1>3. CASE Interrupt \/ GiveUp
  BY <1>3 DEF Interrupt, GiveUp, CauseInv, Undisturbed, EditInv, TypeOK
<1>4. CASE Finish
  BY <1>4, SettleCause DEF Finish
<1>5. CASE ClaimEvent \/ ClaimSync \/ ClaimDelete \/ ClaimUpload
  BY <1>5, ClaimCause
<1>6. CASE FetchMessage
  BY <1>6, FetchCause
<1>7. CASE \/ UpsertItem \/ UpsertAttachment \/ EnqueueUpload \/ CompleteAttachment
           \/ EnqueueSync \/ EnqueueDelete \/ EnqueueUploadSync
  BY <1>7, EventCause
<1>8. CASE CreateComment
  BY <1>8, CreateCause
<1>9. CASE SetDestination \/ SetRenderHash
  BY <1>9, RecordCause
<1>10. CASE ReadComment
  BY <1>10, ReadCause
<1>11. CASE UpdateComment
  BY <1>11, WriteCause
<1>12. CASE RecordConflict
  BY <1>12 DEF RecordConflict, CauseInv, HashAgrees, Undisturbed, history
<1>13. CASE DeleteComment \/ MarkDeleted
  BY <1>13, EraseCause
<1>14. CASE \E c \in Comment : HearHook("written", c) \/ HearHook("removed", c)
  BY <1>14 DEF HearHook, CauseInv, HashAgrees, Undisturbed, history
<1>15. CASE UNCHANGED vars
  BY <1>15 DEF vars, CauseInv, HashAgrees, Undisturbed
<1> QED
  BY <1>1, <1>2, <1>3, <1>4, <1>5, <1>6, <1>7, <1>8, <1>9, <1>10, <1>11, <1>12, <1>13, <1>14, <1>15
     DEF Next, Work

\* A conflict is recorded only by a step that CauseInv rules out while undisturbed.
LEMMA ShadowStep ==
  ASSUME EditInv, CauseInv, ConflictHasCause, [Next]_vars
  PROVE  ConflictHasCause'
<1>1. CASE UNCHANGED shadow
  <2>1. (touched # {} => touched' # {}) /\ (faults > 0 => faults' > 0)
    <3>1. touched \subseteq touched' /\ faults <= faults'
      <4>1. CASE Post \/ Edit \/ Remove
        BY <4>1 DEF Post, Edit, Remove, Announce, AuthorOnly, EditInv, TypeOK
      <4>2. CASE \E c \in Comment : UserEdits(c) \/ UserDeletes(c)
        BY <4>2 DEF UserEdits, UserDeletes, UserActs, EditInv, TypeOK
      <4>3. CASE Interrupt \/ GiveUp
        BY <4>3 DEF Interrupt, GiveUp, SettleRow, EditInv, TypeOK
      <4>4. CASE Work
        <5>1. UNCHANGED <<touched, faults>>
          BY <4>4 DEF Work, SettleRow, Finish, ClaimEvent, ClaimSync, ClaimDelete, ClaimUpload,
             ClaimOnly, FetchMessage, UpsertItem, UpsertAttachment, EnqueueUpload, EnqueueSync,
             EnqueueDelete, EnqueueUploadSync, Enqueue, HearHook, CreateComment, Write,
             SetDestination, ReadComment, UpdateComment, SetRenderHash, RecordConflict,
             DeleteComment, MarkDeleted, CompleteAttachment, history
        <5> QED BY <5>1 DEF EditInv, TypeOK
      <4>5. CASE UNCHANGED vars
        BY <4>5 DEF vars, EditInv, TypeOK
      <4> QED BY <4>1, <4>2, <4>3, <4>4, <4>5 DEF Next
    <3>2. faults' \in Nat /\ faults \in Nat
      BY EditStep DEF EditInv, TypeOK
    <3> QED BY <3>1, <3>2
  <2> QED BY <1>1, <2>1 DEF ConflictHasCause
<1>2. CASE RecordConflict
  <2>1. ~Undisturbed /\ UNCHANGED <<touched, faults>>
    BY <1>2 DEF RecordConflict, CauseInv, HashAgrees, history
  <2>2. faults \in Nat
    BY DEF EditInv, TypeOK
  <2> QED BY <2>1, <2>2 DEF ConflictHasCause, Undisturbed
<1>3. UNCHANGED shadow \/ RecordConflict
  BY DEF Next, Work, vars, Post, Edit, Remove, AuthorOnly, UserEdits, UserDeletes, UserActs,
     Interrupt, GiveUp, SettleRow, Finish, ClaimEvent, ClaimSync, ClaimDelete, ClaimUpload,
     ClaimOnly, FetchMessage, UpsertItem, UpsertAttachment, EnqueueUpload, EnqueueSync,
     EnqueueDelete, EnqueueUploadSync, Enqueue, HearHook, CreateComment, Write, SetDestination,
     ReadComment, UpdateComment, SetRenderHash, DeleteComment, MarkDeleted, CompleteAttachment,
     record
<1> QED BY <1>1, <1>2, <1>3

\* The relay reports a conflict only after a user's act or an interrupted handler: in
\* an undisturbed run it never takes its own writing for a user's (setRenderHash).
THEOREM ConflictsHaveCauses == Spec => []ConflictHasCause
<1>1. Init => ConflictHasCause
  BY DEF Init, ConflictHasCause
<1>2. EditInv /\ CauseInv /\ ConflictHasCause /\ [Next]_vars => ConflictHasCause'
  BY ShadowStep
<1>3. Spec => [](EditInv /\ CauseInv)
  BY InitEdit, EditStep, InitCause, CauseStep, PTL DEF Spec
<1> QED BY <1>1, <1>2, <1>3, PTL DEF Spec

-----------------------------------------------------------------------------
(* The order of events.  Discord's events reach the item in the order in    *)
(* which the author acted, so the item never shows a later revision than the*)
(* message and never an earlier one than it has shown, and once the deletion*)
(* is enqueued no event is left that would bring the item back.             *)

\* The item follows the message, and nothing is announced of one not posted.
MessageAhead ==
  /\ item.text <= message.text
  /\ message.state = "unposted" <=> message.text = 0
  /\ message.text = 0 => inbox = <<>>

\* The creation is the first event: the item has seen no later revision.
CreateFirst == \A i \in 1..Len(inbox) : inbox[i] = "create" => i = 1 /\ item.text <= 1

NoCreate == \A i \in 1..Len(inbox) : inbox[i] # "create"

\* The deletion is the last event.
DeleteLast ==
  \A i \in 1..Len(inbox) : inbox[i] = "delete" => i = Len(inbox) /\ message.state = "gone"

\* What the handler of an event is about to record is not older than the item.
EventAhead ==
  /\ handler.step \in {"fetch", "record", "delete"} => handler.job = "event"
  /\ handler.step = "fetch" => NoCreate
  /\ handler.step = "record" =>
       /\ item.text <= handler.text /\ handler.text <= message.text
       /\ handler.text <= 1 \/ NoCreate
  /\ handler.step \in {"fetch", "record"} => Head(inbox) # "delete"
  /\ handler.step = "delete" => Head(inbox) = "delete"

\* An item is deleted after all other events of its message.
DeleteEndsEvents ==
  /\ \A i \in 1..Len(ops) : ops[i] \in keys
  /\ handler.step \in {"erase", "mark"} \/ item.state = "DELETED" => DeleteItem \in keys
  /\ DeleteItem \in keys =>
       message.state = "gone" /\ \A i \in 1..Len(inbox) : inbox[i] = "delete"

EventInv == MessageAhead /\ CreateFirst /\ DeleteLast /\ EventAhead /\ DeleteEndsEvents

LEMMA InitEvents == Init => EventInv
BY IdleTypes DEF Init, EventInv, MessageAhead, CreateFirst, DeleteLast, EventAhead, DeleteEndsEvents

LEMMA GotoTypes ==
  ASSUME EditInv, NEW step, Goto(step)
  PROVE  /\ handler'.step = step /\ handler'.job = handler.job /\ handler'.text = handler.text
         /\ handler'.body = handler.body /\ handler'.comment = handler.comment
         /\ handler'.hash = handler.hash
BY DEF Goto, EditInv, TypeOK, Handler

\* The steps after which the item shows what it did and no event is pending that
\* was not.
LEMMA SameEvents ==
  ASSUME EventInv, UNCHANGED <<message, inbox, ops, keys>>,
         item'.text = item.text, item'.state = item.state,
         handler'.step \notin {"fetch", "record", "delete"},
         handler'.step \in {"erase", "mark"} => DeleteItem \in keys
  PROVE  EventInv'
BY DEF EventInv, MessageAhead, CreateFirst, DeleteLast, EventAhead, DeleteEndsEvents

LEMMA AuthorEvents ==
  ASSUME EditInv, EventInv, Post \/ Edit \/ Remove
  PROVE  EventInv'
<1>1. AuthorOnly /\ UNCHANGED <<ops, keys, item, handler>>
  BY DEF Post, Edit, Remove, AuthorOnly, record
<1>2. /\ message \in Message /\ inbox \in Seq(EventKind)
      /\ handler.job = "event" => inbox # <<>>
  BY DEF EditInv, TypeOK, ClaimsHeld
<1>3. CASE Post
  <2>1. /\ inbox = <<>> /\ message.text = 0 /\ DeleteItem \notin keys
        /\ message'.state = "posted" /\ message'.text = 1
    BY <1>2, <1>3 DEF Post, Message, EventInv, MessageAhead, DeleteEndsEvents
  <2>2. inbox' = <<>> \/ inbox' = <<"create">>
    BY <1>3, <2>1 DEF Post, Announce
  <2>3. item.text = 0
    BY <2>1 DEF EditInv, TypeOK, Item, EventInv, MessageAhead
  <2>4. \A i \in 1..Len(inbox') : i = 1 /\ inbox'[i] = "create"
    <3>1. CASE inbox' = <<>>
      BY <3>1
    <3>2. CASE inbox' = <<"create">>
      BY <3>2
    <3> QED BY <2>2, <3>1, <3>2
  <2>5. handler.step \notin {"fetch", "record", "delete"}
    BY <1>2, <2>1 DEF EventInv, EventAhead
  <2> QED BY <1>1, <2>1, <2>3, <2>4, <2>5
          DEF EventInv, MessageAhead, CreateFirst, DeleteLast, EventAhead, DeleteEndsEvents
<1>4. CASE Edit \/ Remove
  <2>1. /\ message.state = "posted" /\ DeleteItem \notin keys
        /\ \A i \in 1..Len(inbox) : inbox[i] # "delete"
    BY <1>4 DEF Edit, Remove, EventInv, DeleteLast, DeleteEndsEvents
  <2>2. \/ /\ message'.state = "posted" /\ message'.text = message.text + 1
           /\ inbox' \in {inbox, Append(inbox, "update")}
        \/ /\ message'.state = "gone" /\ message'.text = message.text
           /\ inbox' \in {inbox, Append(inbox, "delete")}
    <3>1. CASE Edit
      BY <1>2, <3>1 DEF Edit, Announce, Message
    <3>2. CASE Remove
      BY <1>2, <3>2 DEF Remove, Announce, Message
    <3> QED BY <1>4, <3>1, <3>2
  <2>3. PICK new \in {"update", "delete"} :
          /\ inbox' \in {inbox, Append(inbox, new)}
          /\ new = "delete" => message'.state = "gone"
    BY <2>2
  <2>4. /\ Len(inbox) \in Nat /\ Len(inbox') \in {Len(inbox), Len(inbox) + 1}
        /\ \A i \in 1..Len(inbox) : inbox'[i] = inbox[i]
        /\ Len(inbox') = Len(inbox) + 1 => inbox'[Len(inbox')] = new
    BY <1>2, <2>3 DEF EventKind
  <2>5. MessageAhead'
    <3>1. message.text \in Nat /\ item.text \in Nat /\ message.text # 0
      BY <1>2, <2>1 DEF Message, EditInv, TypeOK, Item, EventInv, MessageAhead
    <3> QED BY <1>1, <2>2, <3>1 DEF EventInv, MessageAhead
  <2>6. CreateFirst' /\ DeleteLast'
    BY <1>1, <2>1, <2>3, <2>4 DEF EventInv, CreateFirst, DeleteLast
  <2>7. EventAhead'
    <3>1. NoCreate => NoCreate'
      BY <2>3, <2>4 DEF NoCreate
    <3>2. inbox # <<>> => Head(inbox') = Head(inbox)
      BY <1>2, <2>3 DEF EventKind
    <3>3. message.text <= message'.text /\ message.text \in Nat /\ message'.text \in Nat
          /\ handler.text \in Nat
      BY <1>2, <2>2 DEF Message, EditInv, TypeOK, Handler
    <3> QED BY <1>1, <1>2, <3>1, <3>2, <3>3 DEF EventInv, EventAhead
  <2> QED BY <1>1, <2>1, <2>5, <2>6, <2>7 DEF EventInv, DeleteEndsEvents
<1> QED BY <1>3, <1>4

LEMMA SettleEvents ==
  ASSUME EditInv, EventInv, SettleRow
  PROVE  EventInv'
<1>1. /\ UNCHANGED <<message, keys, item>> /\ handler'.step = "none"
      /\ inbox' = IF handler.job = "event" THEN Tail(inbox) ELSE inbox
      /\ ops' = IF handler.job = "operation" THEN Tail(ops) ELSE ops
  BY IdleTypes DEF SettleRow, record
<1>2. /\ inbox \in Seq(EventKind) /\ ops \in Seq(Key)
      /\ handler.job = "event" => inbox # <<>>
      /\ handler.job = "operation" => ops # <<>>
  BY DEF EditInv, TypeOK, ClaimsHeld
<1>3. \A i \in 1..Len(ops') : ops'[i] \in keys
  BY <1>1, <1>2 DEF EventInv, DeleteEndsEvents
<1>4. CASE handler.job = "event"
  <2>1. /\ Len(inbox) \in Nat \ {0} /\ Len(inbox') = Len(inbox) - 1
        /\ \A i \in 1..Len(inbox') : inbox'[i] = inbox[i + 1]
        /\ inbox = <<>> => inbox' = <<>>
    BY <1>1, <1>2, <1>4
  <2>2. CreateFirst' /\ DeleteLast'
    BY <1>1, <2>1 DEF EventInv, CreateFirst, DeleteLast
  <2>3. MessageAhead' /\ DeleteEndsEvents'
    BY <1>1, <1>2, <1>3, <1>4, <2>1 DEF EventInv, MessageAhead, DeleteEndsEvents
  <2> QED BY <1>1, <2>2, <2>3 DEF EventInv, EventAhead
<1>5. CASE handler.job # "event"
  BY <1>1, <1>3, <1>5 DEF EventInv, MessageAhead, CreateFirst, DeleteLast, EventAhead, DeleteEndsEvents
<1> QED BY <1>4, <1>5

LEMMA ClaimEvents ==
  ASSUME EditInv, EventInv, ClaimEvent \/ ClaimSync \/ ClaimDelete \/ ClaimUpload
  PROVE  EventInv'
<1>1. ClaimOnly /\ UNCHANGED <<message, inbox, ops, keys, item>>
  BY DEF ClaimEvent, ClaimSync, ClaimDelete, ClaimUpload, ClaimOnly, queues, record
<1>2. CASE ClaimSync \/ ClaimUpload
  <2>1. handler'.step \in {"create", "read", "complete"}
    BY <1>2 DEF ClaimSync, ClaimUpload, Start, Idle
  <2> QED BY <1>1, <2>1, SameEvents
<1>3. CASE ClaimDelete
  <2>1. handler'.step \in {"mark", "erase"}
    BY <1>3 DEF ClaimDelete, Start, Idle
  <2>2. DeleteItem \in keys
    <3>1. ops \in Seq(Key) /\ ops # <<>> /\ Head(ops) = DeleteItem
      BY <1>3 DEF ClaimDelete, EditInv, TypeOK
    <3>2. 1 \in 1..Len(ops) /\ Head(ops) = ops[1]
      BY <3>1
    <3> QED BY <3>1, <3>2 DEF EventInv, DeleteEndsEvents
  <2> QED BY <1>1, <2>1, <2>2, SameEvents
<1>4. CASE ClaimEvent
  <2>1. inbox \in Seq(EventKind) /\ inbox # <<>> /\ Head(inbox) = inbox[1] /\ 1 \in 1..Len(inbox)
    BY <1>4 DEF ClaimEvent, EditInv, TypeOK
  <2>2. /\ handler'.job = "event" /\ item.text \in Nat /\ message.text \in Nat
        /\ \/ Head(inbox) = "create" /\ handler'.step = "record" /\ handler'.text = 1
           \/ Head(inbox) = "update" /\ handler'.step = "fetch"
           \/ Head(inbox) = "delete" /\ handler'.step = "delete"
    <3>1. Head(inbox) \in EventKind
      BY <2>1
    <3> QED BY <1>4, <3>1 DEF ClaimEvent, Start, Idle, EventKind, EditInv, TypeOK, Item, Message
  <2>3. EventAhead'
    <3>1. CASE Head(inbox) = "create"
      BY <1>1, <2>1, <2>2, <3>1 DEF EventInv, EventAhead, MessageAhead, CreateFirst
    <3>2. CASE Head(inbox) = "update"
      <4>1. NoCreate'
        BY <1>1, <2>1, <3>2 DEF EventInv, CreateFirst, NoCreate
      <4> QED BY <1>1, <2>2, <3>2, <4>1 DEF EventAhead
    <3>3. CASE Head(inbox) = "delete"
      BY <1>1, <2>2, <3>3 DEF EventAhead
    <3> QED BY <2>2, <3>1, <3>2, <3>3
  <2> QED BY <1>1, <2>2, <2>3
          DEF EventInv, MessageAhead, CreateFirst, DeleteLast, DeleteEndsEvents
<1> QED BY <1>2, <1>3, <1>4

LEMMA FetchEvents ==
  ASSUME EditInv, EventInv, FetchMessage
  PROVE  EventInv'
<1>1. CASE message.state = "gone"
  BY <1>1, SettleEvents DEF FetchMessage
<1>2. CASE message.state # "gone"
  <2>1. /\ handler.step = "fetch" /\ handler'.step = "record" /\ handler'.job = handler.job
        /\ handler'.text = message.text
        /\ UNCHANGED <<message, inbox, ops, keys, item>>
    BY <1>2 DEF FetchMessage, ClaimOnly, queues, record, EditInv, TypeOK, Handler
  <2>2. message.text \in Nat
    BY DEF EditInv, TypeOK, Message
  <2> QED BY <2>1, <2>2 DEF EventInv, MessageAhead, CreateFirst, NoCreate, DeleteLast, EventAhead,
          DeleteEndsEvents
<1> QED BY <1>1, <1>2

LEMMA UpsertEvents ==
  ASSUME EditInv, EventInv, UpsertItem
  PROVE  EventInv' /\ item.state # "DELETED"
<1>1. /\ handler.step = "record" /\ handler'.step \in {"attach", "sync"}
      /\ item'.state = "ACTIVE" /\ item'.text = handler.text
      /\ UNCHANGED <<message, inbox, ops, keys>>
  BY DEF UpsertItem, Goto, EditInv, TypeOK, Handler, Item, queues
<1>2. inbox \in Seq(EventKind) /\ inbox # <<>> /\ Head(inbox) = inbox[1] /\ 1 \in 1..Len(inbox)
  BY <1>1 DEF EditInv, TypeOK, ClaimsHeld, EventInv, EventAhead
<1>3. DeleteItem \notin keys
  BY <1>1, <1>2 DEF EventInv, EventAhead, DeleteEndsEvents
<1> QED BY <1>1, <1>3 DEF EventInv, MessageAhead, CreateFirst, NoCreate, DeleteLast, EventAhead,
        DeleteEndsEvents

LEMMA EnqueueEvents ==
  ASSUME EditInv, EventInv, EnqueueSync \/ EnqueueDelete \/ EnqueueUploadSync
  PROVE  EventInv'
<1>1. CASE Goto("end") /\ ClaimOnly
  <2>1. handler'.step = "end"
    BY <1>1, GotoTypes
  <2> QED BY <1>1, <2>1, SameEvents DEF ClaimOnly, queues, record
<1>2. CASE \E key \in Key : Enqueue(key) /\ (key = DeleteItem => handler.step = "delete")
  <2>1. PICK key \in Key : Enqueue(key) /\ (key = DeleteItem => handler.step = "delete")
    BY <1>2
  <2>2. /\ handler'.step = "end" /\ UNCHANGED <<message, inbox, item>>
        /\ keys' = keys \cup {key}
    BY <2>1, GotoTypes DEF Enqueue, record
  <2>3. \A i \in 1..Len(ops') : ops'[i] \in keys'
    <3>1. ops \in Seq(Key) /\ ops' \in {ops, Append(ops, key)}
      BY <2>1 DEF Enqueue, EditInv, TypeOK
    <3> QED BY <2>2, <3>1 DEF EventInv, DeleteEndsEvents
  <2>4. key = DeleteItem =>
          message.state = "gone" /\ \A i \in 1..Len(inbox) : inbox[i] = "delete"
    <3> SUFFICES ASSUME key = DeleteItem
                 PROVE  message.state = "gone" /\ \A i \in 1..Len(inbox) : inbox[i] = "delete"
      OBVIOUS
    <3>1. handler.step = "delete" /\ Head(inbox) = "delete" /\ inbox # <<>>
      BY <2>1 DEF EditInv, ClaimsHeld, EventInv, EventAhead
    <3>2. inbox \in Seq(EventKind) /\ Head(inbox) = inbox[1] /\ Len(inbox) \in Nat \ {0}
      BY <3>1 DEF EditInv, TypeOK
    <3> QED BY <3>1, <3>2 DEF EventInv, DeleteLast
  <2>5. DeleteEndsEvents'
    BY <2>2, <2>3, <2>4 DEF EventInv, DeleteEndsEvents
  <2> QED BY <2>2, <2>5 DEF EventInv, MessageAhead, CreateFirst, DeleteLast, EventAhead
<1>3. \/ Goto("end") /\ ClaimOnly
      \/ \E key \in Key : Enqueue(key) /\ (key = DeleteItem => handler.step = "delete")
  <2>1. handler.text \in 0..MaxRevision
    BY DEF EditInv, TypeOK, Handler
  <2>2. \A r \in 0..MaxRevision : SyncOf(r) # DeleteItem
    BY DEF SyncOf, DeleteItem
  <2>3. 0 \in 0..MaxRevision
    OBVIOUS
  <2>4. SyncOf(handler.text) \in Key /\ SyncOf(handler.text) # DeleteItem
    BY <2>1, <2>2, KeyTypes
  <2>5. SyncOfUpload \in Key /\ SyncOfUpload # DeleteItem
    BY <2>2, <2>3, KeyTypes DEF SyncOfUpload
  <2>6. CASE EnqueueSync
    BY <2>4, <2>6 DEF EnqueueSync
  <2>7. CASE EnqueueUploadSync
    BY <2>5, <2>7 DEF EnqueueUploadSync
  <2>8. CASE EnqueueDelete
    BY <2>8, KeyTypes DEF EnqueueDelete
  <2> QED BY <2>6, <2>7, <2>8
<1> QED BY <1>1, <1>2, <1>3

LEMMA SyncEvents ==
  ASSUME EditInv, EventInv,
         \/ UpsertAttachment \/ EnqueueUpload \/ CompleteAttachment
         \/ CreateComment \/ SetDestination \/ SetRenderHash \/ RecordConflict \/ DeleteComment
  PROVE  EventInv'
<1>1. UNCHANGED <<message, inbox, ops, keys>>
  BY DEF UpsertAttachment, EnqueueUpload, CompleteAttachment, CreateComment, Write,
     SetDestination, SetRenderHash, RecordConflict, DeleteComment, queues
<1>2. item'.text = item.text /\ item'.state = item.state
  BY DEF UpsertAttachment, EnqueueUpload, CompleteAttachment, CreateComment, Write,
     SetDestination, SetRenderHash, RecordConflict, DeleteComment, record, EditInv, TypeOK, Item
<1>3. /\ handler'.step \notin {"fetch", "record", "delete", "erase"}
      /\ handler'.step = "mark" => handler.step = "erase"
  <2>1. CASE CreateComment
    BY <2>1 DEF CreateComment, EditInv, TypeOK, Handler
  <2>2. CASE ~CreateComment
    BY <2>2, GotoTypes DEF UpsertAttachment, EnqueueUpload, CompleteAttachment,
       SetDestination, SetRenderHash, RecordConflict, DeleteComment
  <2> QED BY <2>1, <2>2
<1> QED BY <1>1, <1>2, <1>3, SameEvents DEF EventInv, DeleteEndsEvents

LEMMA ReadEvents ==
  ASSUME EditInv, EventInv, ReadComment \/ UpdateComment
  PROVE  EventInv'
<1>1. CASE comments[handler.comment] = Absent
  BY <1>1, SettleEvents DEF ReadComment, UpdateComment
<1>2. CASE comments[handler.comment] # Absent
  <2>1. /\ handler'.step \in {"write", "conflict", "hash"}
        /\ UNCHANGED <<message, inbox, ops, keys, item>>
    BY <1>2, GotoTypes DEF ReadComment, UpdateComment, Write, ClaimOnly, queues, record
  <2> QED BY <2>1, SameEvents
<1> QED BY <1>1, <1>2

LEMMA MarkEvents ==
  ASSUME EditInv, EventInv, MarkDeleted
  PROVE  EventInv'
<1>1. /\ handler.step = "mark" /\ handler'.step = "end"
      /\ item'.text = item.text /\ UNCHANGED <<message, inbox, ops, keys>>
  BY GotoTypes DEF MarkDeleted, EditInv, TypeOK, Item, queues
<1> QED BY <1>1 DEF EventInv, MessageAhead, CreateFirst, DeleteLast, EventAhead, DeleteEndsEvents

LEMMA EventStep == EditInv /\ EventInv /\ [Next]_vars => EventInv'
<1> SUFFICES ASSUME EditInv, EventInv, [Next]_vars PROVE EventInv'
  OBVIOUS
<1>1. CASE Post \/ Edit \/ Remove
  BY <1>1, AuthorEvents
<1>2. CASE \E c \in Comment : \/ UserEdits(c) \/ UserDeletes(c)
                              \/ HearHook("written", c) \/ HearHook("removed", c)
  <2>1. UNCHANGED <<message, inbox, ops, keys, item, handler>>
    BY <1>2 DEF UserEdits, UserDeletes, UserActs, HearHook, queues, record
  <2> QED BY <2>1 DEF EventInv, MessageAhead, CreateFirst, NoCreate, DeleteLast, EventAhead, DeleteEndsEvents
<1>3. CASE Interrupt
  BY <1>3, SameEvents, IdleTypes DEF Interrupt, queues, record
<1>4. CASE Finish \/ GiveUp
  BY <1>4, SettleEvents DEF Finish, GiveUp
<1>5. CASE ClaimEvent \/ ClaimSync \/ ClaimDelete \/ ClaimUpload
  BY <1>5, ClaimEvents
<1>6. CASE FetchMessage
  BY <1>6, FetchEvents
<1>7. CASE UpsertItem
  BY <1>7, UpsertEvents
<1>8. CASE EnqueueSync \/ EnqueueDelete \/ EnqueueUploadSync
  BY <1>8, EnqueueEvents
<1>9. CASE \/ UpsertAttachment \/ EnqueueUpload \/ CompleteAttachment
           \/ CreateComment \/ SetDestination \/ SetRenderHash \/ RecordConflict \/ DeleteComment
  BY <1>9, SyncEvents
<1>10. CASE ReadComment \/ UpdateComment
  BY <1>10, ReadEvents
<1>11. CASE MarkDeleted
  BY <1>11, MarkEvents
<1>12. CASE UNCHANGED vars
  BY <1>12 DEF vars, EventInv, MessageAhead, CreateFirst, NoCreate, DeleteLast, EventAhead, DeleteEndsEvents
<1> QED
  BY <1>1, <1>2, <1>3, <1>4, <1>5, <1>6, <1>7, <1>8, <1>9, <1>10, <1>11, <1>12 DEF Next, Work

-----------------------------------------------------------------------------
(* The copy.  Between two handlers the relay knows every comment it has made*)
(* but those an interruption made it forget; the comment it knows shows a   *)
(* revision that is not later than the item's.                              *)

Unmade == \A c \in Comment : c > made => comments[c] = Absent

\* What a sync is about to write is what the item shows when it writes it.
BodyCurrent ==
  handler.step \in {"create", "locate", "read", "write", "hash"} =>
    handler.body = Rendered(item.text, item.media)

CommentBehind ==
  /\ item.destination # NoComment /\ comments[item.destination].by = "relay" =>
       /\ comments[item.destination].text <= item.text
       /\ comments[item.destination].media = "COMPLETE" => item.media = "COMPLETE"
  /\ handler.step = "locate" /\ comments[handler.comment].by = "relay" =>
       comments[handler.comment] = handler.body

\* A handler holds the comment on record, or one it has just made; after the
\* deletion of the item what it held is gone.
HoldsCopy ==
  /\ handler.step = "create" => handler.comment = NoComment
  /\ handler.step = "mark" => handler.comment = item.destination
  /\ handler.step = "mark" /\ handler.comment # NoComment => comments[handler.comment] = Absent
  /\ \/ handler.step = "locate"
     \/ handler.comment \in {NoComment, item.destination}
     \/ item.state = "DELETED" /\ comments[handler.comment] = Absent

\* Webhooks tell of comments that were made, and none is heard of while a new one is
\* not on record yet.
HeardOf ==
  /\ \A kind \in {"written", "removed"}, c \in Comment : <<kind, c>> \in hooks => c <= made
  /\ \A c \in mirrored : c <= made
  /\ item.destination \notin mirrored
  /\ handler.step = "locate" => handler.comment \notin mirrored

CopyInv == Unmade /\ BodyCurrent /\ CommentBehind /\ HoldsCopy /\ HeardOf

LEMMA InitCopy == Init => CopyInv
BY IdleTypes DEF Init, CopyInv, Unmade, BodyCurrent, CommentBehind, HoldsCopy, HeardOf

\* The steps of a handler that change neither the item nor a comment, and after which
\* it does not rely on either.
LEMMA SameCopy ==
  ASSUME CopyInv, UNCHANGED <<item, comments, made, hooks, mirrored>>,
         handler'.step \notin {"create", "locate", "read", "write", "hash", "mark"},
         \/ handler'.comment \in {NoComment, item.destination}
         \/ handler'.comment = handler.comment /\ handler.step # "locate"
  PROVE  CopyInv'
BY DEF CopyInv, Unmade, BodyCurrent, CommentBehind, HoldsCopy, HeardOf

LEMMA UserCopy ==
  ASSUME EditInv, CopyInv, NEW c \in Comment, UserEdits(c) \/ UserDeletes(c)
  PROVE  CopyInv'
<1>1. UNCHANGED <<item, made, mirrored, handler>> /\ comments[c].by # "nobody"
  BY DEF UserEdits, UserDeletes, UserActs, record
<1>2. /\ comments' \in {[comments EXCEPT ![c] = UserText], [comments EXCEPT ![c] = Absent]}
      /\ hooks' \in {hooks \cup {<<"written", c>>}, hooks \cup {<<"removed", c>>}}
  BY DEF UserEdits, UserDeletes
<1>3. c <= made
  BY <1>1, BodyTypes DEF EditInv, TypeOK, CopyInv, Unmade
<1>4. /\ comments'[c].by # "relay"
      /\ \A d \in Comment \ {c} : comments'[d] = comments[d]
  BY <1>2, BodyTypes DEF EditInv, TypeOK
<1>5. BodyCurrent' /\ HeardOf'
  BY <1>1, <1>2, <1>3 DEF CopyInv, BodyCurrent, HeardOf
<1>10. Unmade'
  BY <1>1, <1>3, <1>4 DEF EditInv, TypeOK, CopyInv, Unmade
<1>6. \A d \in Comment : comments[d] = Absent => comments'[d] = Absent
  BY <1>1, <1>4, BodyTypes
<1>7. handler.comment \in Comment \cup {NoComment} /\ item.destination \in Comment \cup {NoComment}
  BY DEF EditInv, TypeOK, Handler, Item
<1>8. CommentBehind'
  <2>1. handler.step = "locate" => handler.comment # NoComment
    BY DEF EditInv, HandlerAgrees
  <2> QED BY <1>1, <1>4, <1>7, <2>1 DEF CopyInv, CommentBehind
<1>9. HoldsCopy'
  BY <1>1, <1>6, <1>7 DEF CopyInv, HoldsCopy
<1> QED BY <1>5, <1>8, <1>9, <1>10 DEF CopyInv

LEMMA SettleCopy ==
  ASSUME CopyInv, SettleRow
  PROVE  CopyInv'
BY SameCopy, IdleTypes DEF SettleRow, record, github

LEMMA ClaimCopy ==
  ASSUME EditInv, CopyInv, ClaimEvent \/ ClaimSync \/ ClaimDelete \/ ClaimUpload
  PROVE  CopyInv'
<1>1. UNCHANGED <<item, comments, made, hooks, mirrored>>
  BY DEF ClaimEvent, ClaimSync, ClaimDelete, ClaimUpload, ClaimOnly, record, github
<1>2. CASE ClaimEvent \/ ClaimUpload
  <2>1. /\ handler'.step \in {"record", "fetch", "delete", "complete"}
        /\ handler'.comment = NoComment
    <3>1. ClaimEvent => Head(inbox) \in EventKind
      BY DEF ClaimEvent, EditInv, TypeOK
    <3> QED BY <1>2, <3>1 DEF ClaimEvent, ClaimUpload, Start, Idle, EventKind
  <2> QED BY <1>1, <2>1, SameCopy
<1>3. CASE ClaimSync
  <2>1. /\ handler'.step = IF item.destination = NoComment THEN "create" ELSE "read"
        /\ handler'.body = Rendered(item.text, item.media)
        /\ handler'.comment = item.destination
    BY <1>3 DEF ClaimSync, Start, Idle
  <2> QED BY <1>1, <2>1
          DEF CopyInv, Unmade, BodyCurrent, CommentBehind, HoldsCopy, HeardOf
<1>4. CASE ClaimDelete
  <2>1. /\ handler'.step = IF item.destination = NoComment THEN "mark" ELSE "erase"
        /\ handler'.comment = item.destination
    BY <1>4 DEF ClaimDelete, Start, Idle
  <2> QED BY <1>1, <2>1
          DEF CopyInv, Unmade, BodyCurrent, CommentBehind, HoldsCopy, HeardOf
<1> QED BY <1>2, <1>3, <1>4

LEMMA FetchCopy ==
  ASSUME EditInv, CopyInv, FetchMessage
  PROVE  CopyInv'
<1>1. CASE message.state = "gone"
  BY <1>1, SettleCopy DEF FetchMessage
<1>2. CASE message.state # "gone"
  <2>1. /\ handler.step = "fetch" /\ handler'.step = "record"
        /\ handler'.comment = handler.comment
        /\ UNCHANGED <<item, comments, made, hooks, mirrored>>
    BY <1>2 DEF FetchMessage, ClaimOnly, record, github, EditInv, TypeOK, Handler
  <2> QED BY <2>1, SameCopy
<1> QED BY <1>1, <1>2

LEMMA EnqueueCopy ==
  ASSUME EditInv, CopyInv,
         EnqueueUpload \/ EnqueueSync \/ EnqueueDelete \/ EnqueueUploadSync \/ RecordConflict
  PROVE  CopyInv'
<1>1. /\ handler.step \in {"upload", "sync", "delete", "conflict"}
      /\ handler'.step \in {"sync", "end"} /\ handler'.comment = handler.comment
  BY GotoTypes DEF EnqueueUpload, EnqueueSync, EnqueueDelete, EnqueueUploadSync, RecordConflict,
     Enqueue
<1>2. UNCHANGED <<item, comments, made, hooks, mirrored>>
  BY DEF EnqueueUpload, EnqueueSync, EnqueueDelete, EnqueueUploadSync, RecordConflict, Enqueue,
     ClaimOnly, record, github
<1> QED BY <1>1, <1>2, SameCopy

\* The item moves on: its text and its attachment never go back.
LEMMA ItemCopy ==
  ASSUME EditInv, EventInv, CopyInv, UpsertItem \/ UpsertAttachment \/ CompleteAttachment
  PROVE  CopyInv'
<1>1. /\ handler.step \in {"record", "attach", "complete"}
      /\ handler'.step \in {"attach", "sync", "upload"} /\ handler'.comment = handler.comment
      /\ UNCHANGED <<comments, made, hooks, mirrored>>
  BY GotoTypes DEF UpsertItem, UpsertAttachment, CompleteAttachment, github
<1>2. /\ item'.destination = item.destination
      /\ item.text <= item'.text /\ item.text \in Nat /\ item'.text \in Nat
      /\ item.media = "COMPLETE" => item'.media = "COMPLETE"
  <2>1. CASE UpsertItem
    <3>1. /\ item'.destination = item.destination /\ item'.media = item.media
          /\ item'.text = handler.text /\ handler.text \in Nat /\ item.text \in Nat
      BY <2>1 DEF UpsertItem, EditInv, TypeOK, Item, Handler
    <3>2. item.text <= handler.text
      BY <2>1 DEF UpsertItem, EventInv, EventAhead
    <3> QED BY <3>1, <3>2
  <2>2. CASE UpsertAttachment \/ CompleteAttachment
    <3>1. item \in Item /\ item.text \in Nat
      BY DEF EditInv, TypeOK, Item
    <3>2. PICK media \in Media :
            /\ item' = [item EXCEPT !.media = media]
            /\ item.media = "COMPLETE" => media = "COMPLETE"
      BY <2>2, <3>1 DEF UpsertAttachment, CompleteAttachment, Item, Media
    <3> QED BY <3>1, <3>2 DEF Item
  <2> QED BY <2>1, <2>2
<1>3. item'.state = item.state \/ item.state # "DELETED"
  BY UpsertEvents DEF UpsertAttachment, CompleteAttachment, EditInv, TypeOK, Item
<1>4. CommentBehind'
  <2>1. item.destination # NoComment => comments[item.destination].text \in Nat
    BY DEF EditInv, TypeOK, Item, Body
  <2> QED BY <1>1, <1>2, <2>1 DEF CopyInv, CommentBehind
<1>5. Unmade' /\ BodyCurrent' /\ HoldsCopy' /\ HeardOf'
  BY <1>1, <1>2, <1>3 DEF CopyInv, Unmade, BodyCurrent, HoldsCopy, HeardOf
<1> QED BY <1>4, <1>5 DEF CopyInv

LEMMA CreateCopy ==
  ASSUME EditInv, CopyInv, CreateComment
  PROVE  CopyInv'
<1>1. /\ handler.step = "create" /\ item.destination = NoComment
      /\ made' = made + 1 /\ made' \in Comment /\ made \in Nat
      /\ handler'.step = "locate" /\ handler'.comment = made' /\ handler'.body = handler.body
      /\ UNCHANGED <<item, mirrored>>
  BY DEF CreateComment, Write, EditInv, TypeOK, HandlerAgrees, Handler, record
<1>2. /\ comments' = [comments EXCEPT ![made'] = handler.body]
      /\ comments'[made'] = handler.body
      /\ hooks' = hooks \cup {<<"written", made'>>}
  BY <1>1 DEF CreateComment, Write, EditInv, TypeOK
<1>3. Unmade'
  BY <1>1, <1>2 DEF EditInv, TypeOK, CopyInv, Unmade
<1>4. BodyCurrent' /\ HoldsCopy'
  BY <1>1 DEF CopyInv, BodyCurrent, HoldsCopy
<1>5. CommentBehind'
  BY <1>1, <1>2 DEF CommentBehind
<1>6. HeardOf'
  BY <1>1, <1>2 DEF EditInv, TypeOK, CopyInv, HeardOf
<1> QED BY <1>3, <1>4, <1>5, <1>6 DEF CopyInv

LEMMA DestinationCopy ==
  ASSUME EditInv, CopyInv, SetDestination
  PROVE  CopyInv'
<1>1. /\ handler.step = "locate" /\ handler'.step = "hash"
      /\ handler'.comment = handler.comment /\ handler'.body = handler.body
      /\ handler.comment \in Comment
      /\ item'.destination = handler.comment /\ item'.text = item.text
      /\ item'.media = item.media /\ item'.state = item.state
      /\ UNCHANGED <<comments, made, hooks, mirrored>>
  BY GotoTypes DEF SetDestination, EditInv, TypeOK, HandlerAgrees, Item, Handler, github
<1>2. BodyCurrent' /\ CommentBehind'
  <2>1. handler.body.text = item.text /\ handler.body.media = item.media /\ item.text \in Nat
    BY <1>1 DEF CopyInv, BodyCurrent, Rendered, EditInv, TypeOK, Item
  <2> QED BY <1>1, <2>1 DEF CopyInv, BodyCurrent, CommentBehind
<1>3. Unmade' /\ HoldsCopy' /\ HeardOf'
  BY <1>1 DEF CopyInv, Unmade, HoldsCopy, HeardOf
<1> QED BY <1>2, <1>3 DEF CopyInv

LEMMA RenderHashCopy ==
  ASSUME EditInv, CopyInv, SetRenderHash
  PROVE  CopyInv'
<1>1. /\ handler.step = "hash" /\ handler'.step = "end" /\ handler'.comment = handler.comment
      /\ item'.destination = item.destination /\ item'.text = item.text
      /\ item'.media = item.media /\ item'.state = item.state
      /\ UNCHANGED <<comments, made, hooks, mirrored>>
  BY GotoTypes DEF SetRenderHash, EditInv, TypeOK, Item, github
<1> QED BY <1>1 DEF CopyInv, Unmade, BodyCurrent, CommentBehind, HoldsCopy, HeardOf

LEMMA ReadCopy ==
  ASSUME EditInv, CopyInv, ReadComment
  PROVE  CopyInv'
<1>1. CASE comments[handler.comment] = Absent
  BY <1>1, SettleCopy DEF ReadComment
<1>2. CASE comments[handler.comment] # Absent
  <2>1. /\ handler.step = "read" /\ handler'.step \in {"write", "conflict"}
        /\ handler'.comment = handler.comment /\ handler'.body = handler.body
        /\ UNCHANGED <<item, comments, made, hooks, mirrored>>
    BY <1>2, GotoTypes DEF ReadComment, ClaimOnly, record, github
  <2> QED BY <2>1 DEF CopyInv, Unmade, BodyCurrent, CommentBehind, HoldsCopy, HeardOf
<1> QED BY <1>1, <1>2

LEMMA WriteCopy ==
  ASSUME EditInv, CopyInv, UpdateComment
  PROVE  CopyInv'
<1>1. CASE comments[handler.comment] = Absent
  BY <1>1, SettleCopy DEF UpdateComment
<1>2. CASE comments[handler.comment] # Absent
  <2>1. /\ handler.step = "write" /\ handler'.step = "hash"
        /\ handler'.comment = handler.comment /\ handler'.body = handler.body
        /\ handler.comment \in Comment /\ handler.comment = item.destination
        /\ comments' = [comments EXCEPT ![handler.comment] = handler.body]
        /\ hooks' = hooks \cup {<<"written", handler.comment>>}
        /\ UNCHANGED <<item, made, mirrored>>
    BY <1>2, GotoTypes DEF UpdateComment, Write, record, EditInv, TypeOK, HandlerAgrees, Handler
  <2>2. handler.comment <= made
    BY DEF EditInv, Numbered
  <2>3. comments'[item.destination] = Rendered(item.text, item.media)
    BY <2>1 DEF CopyInv, BodyCurrent, EditInv, TypeOK
  <2>4. CommentBehind'
    <3>1. item.text \in Nat
      BY DEF EditInv, TypeOK, Item
    <3> QED BY <2>1, <2>3, <3>1 DEF CommentBehind, Rendered
  <2>5. Unmade'
    BY <2>1, <2>2 DEF EditInv, TypeOK, CopyInv, Unmade
  <2>6. BodyCurrent' /\ HoldsCopy'
    BY <2>1 DEF CopyInv, BodyCurrent, HoldsCopy
  <2>7. HeardOf'
    BY <2>1, <2>2 DEF CopyInv, HeardOf
  <2> QED BY <2>4, <2>5, <2>6, <2>7 DEF CopyInv
<1> QED BY <1>1, <1>2

LEMMA EraseCopy ==
  ASSUME EditInv, CopyInv, DeleteComment
  PROVE  CopyInv'
<1>1. /\ handler.step = "erase" /\ handler'.step = "mark"
      /\ handler'.comment = handler.comment /\ handler.comment = item.destination
      /\ handler.comment \in Comment
      /\ comments' = [comments EXCEPT ![handler.comment] = Absent]
      /\ hooks' \in {hooks, hooks \cup {<<"removed", handler.comment>>}}
      /\ UNCHANGED <<item, made, mirrored>>
  BY GotoTypes DEF DeleteComment, record, EditInv, TypeOK, HandlerAgrees, Handler
<1>2. handler.comment <= made /\ comments'[handler.comment] = Absent
  BY <1>1 DEF EditInv, TypeOK, Numbered
<1>3. Unmade' /\ BodyCurrent' /\ HoldsCopy'
  BY <1>1, <1>2 DEF EditInv, TypeOK, CopyInv, Unmade, BodyCurrent, HoldsCopy
<1>4. CommentBehind' /\ HeardOf'
  BY <1>1, <1>2, BodyTypes DEF CopyInv, CommentBehind, HeardOf
<1> QED BY <1>3, <1>4 DEF CopyInv

LEMMA MarkCopy ==
  ASSUME EditInv, CopyInv, MarkDeleted
  PROVE  CopyInv'
<1>1. /\ handler.step = "mark" /\ handler'.step = "end" /\ handler'.comment = handler.comment
      /\ item'.destination = NoComment /\ item'.state = "DELETED"
      /\ UNCHANGED <<comments, made, hooks, mirrored>>
  BY GotoTypes DEF MarkDeleted, EditInv, TypeOK, Item, github
<1>2. NoComment \notin mirrored
  BY DEF EditInv, TypeOK
<1> QED BY <1>1, <1>2 DEF CopyInv, Unmade, BodyCurrent, CommentBehind, HoldsCopy, HeardOf

LEMMA HookCopy ==
  ASSUME EditInv, CopyInv, NEW c \in Comment, HearHook("written", c) \/ HearHook("removed", c)
  PROVE  CopyInv'
<1>1. /\ handler.step = "none" /\ hooks' \subseteq hooks
      /\ UNCHANGED <<item, comments, made, handler>>
  BY IdleTypes DEF HearHook
<1>2. \A d \in mirrored' : d \in mirrored \/ (d = c /\ item.destination # c)
  BY DEF HearHook
<1>3. c <= made
  BY DEF HearHook, CopyInv, HeardOf
<1> QED BY <1>1, <1>2, <1>3 DEF CopyInv, Unmade, BodyCurrent, CommentBehind, HoldsCopy, HeardOf

LEMMA CopyStep == EditInv /\ EventInv /\ CopyInv /\ [Next]_vars => CopyInv'
<1> SUFFICES ASSUME EditInv, EventInv, CopyInv, [Next]_vars PROVE CopyInv'
  OBVIOUS
<1>1. CASE Post \/ Edit \/ Remove \/ UNCHANGED vars
  <2>1. UNCHANGED <<item, comments, made, hooks, mirrored, handler>>
    BY <1>1 DEF Post, Edit, Remove, AuthorOnly, record, github, vars
  <2> QED BY <2>1 DEF CopyInv, Unmade, BodyCurrent, CommentBehind, HoldsCopy, HeardOf
<1>2. CASE \E c \in Comment : UserEdits(c) \/ UserDeletes(c)
  BY <1>2, UserCopy
<1>3. CASE Interrupt
  BY <1>3, SameCopy, IdleTypes DEF Interrupt, record, github
<1>4. CASE Finish \/ GiveUp
  BY <1>4, SettleCopy DEF Finish, GiveUp
<1>5. CASE ClaimEvent \/ ClaimSync \/ ClaimDelete \/ ClaimUpload
  BY <1>5, ClaimCopy
<1>6. CASE FetchMessage
  BY <1>6, FetchCopy
<1>7. CASE UpsertItem \/ UpsertAttachment \/ CompleteAttachment
  BY <1>7, ItemCopy
<1>8. CASE EnqueueUpload \/ EnqueueSync \/ EnqueueDelete \/ EnqueueUploadSync \/ RecordConflict
  BY <1>8, EnqueueCopy
<1>9. CASE CreateComment \/ SetDestination \/ SetRenderHash
  BY <1>9, CreateCopy, DestinationCopy, RenderHashCopy
<1>10. CASE ReadComment \/ UpdateComment
  BY <1>10, ReadCopy, WriteCopy
<1>11. CASE DeleteComment \/ MarkDeleted
  BY <1>11, EraseCopy, MarkCopy
<1>12. CASE \E c \in Comment : HearHook("written", c) \/ HearHook("removed", c)
  BY <1>12, HookCopy
<1> QED
  BY <1>1, <1>2, <1>3, <1>4, <1>5, <1>6, <1>7, <1>8, <1>9, <1>10, <1>11, <1>12 DEF Next, Work

LEMMA CopyAlways == Spec => [](EditInv /\ EventInv /\ CopyInv)
BY InitEdit, EditStep, InitEvents, EventStep, InitCopy, CopyStep, PTL DEF Spec

-----------------------------------------------------------------------------
(* Counting.  A comment is out of the relay's sight only when the handler    *)
(* that made it ends before it is on record, and that is a fault.            *)

\* The comments made that neither the item nor the handler names.
Stray == {c \in Comment : c <= made /\ c # item.destination /\ c # handler.comment}

StrayCount ==
  /\ Cardinality(Orphan) <= faults
  /\ item.state # "DELETED" => Cardinality(Stray) <= faults

LEMMA CommentsFinite ==
  ASSUME NEW S \in SUBSET Comment
  PROVE  IsFiniteSet(S) /\ Cardinality(S) \in Nat
<1>1. IsFiniteSet(Comment)
  BY FS_Interval
<1> QED BY <1>1, FS_Subset, FS_CardinalityType

LEMMA FewerComments ==
  ASSUME NEW S \in SUBSET Comment, NEW T \in SUBSET Comment, S \subseteq T
  PROVE  Cardinality(S) <= Cardinality(T)
BY CommentsFinite, FS_Subset

LEMMA OneMoreComment ==
  ASSUME NEW S \in SUBSET Comment, NEW T \in SUBSET Comment, NEW c, S \subseteq T \cup {c}
  PROVE  Cardinality(S) <= Cardinality(T) + 1
<1>1. IsFiniteSet(T) /\ Cardinality(T) \in Nat
  BY CommentsFinite
<1>2. IsFiniteSet(T \cup {c}) /\ Cardinality(T \cup {c}) <= Cardinality(T) + 1
  BY <1>1, FS_AddElement
<1>3. Cardinality(S) <= Cardinality(T \cup {c})
  BY <1>2, FS_Subset
<1>4. Cardinality(S) \in Nat /\ Cardinality(T \cup {c}) \in Nat
  BY <1>2, CommentsFinite, FS_CardinalityType
<1> QED BY <1>1, <1>2, <1>3, <1>4

\* No comment gets out of sight.
Kept ==
  /\ Orphan' \subseteq Orphan
  /\ item'.state # "DELETED" => item.state # "DELETED" /\ Stray' \subseteq Stray
  /\ faults <= faults'

LEMMA KeptCount ==
  ASSUME EditInv, EditInv', StrayCount, Kept
  PROVE  StrayCount'
<1>1. /\ Orphan \in SUBSET Comment /\ Orphan' \in SUBSET Comment
      /\ Stray \in SUBSET Comment /\ Stray' \in SUBSET Comment
  BY DEF Orphan, Stray
<1>2. faults \in Nat /\ faults' \in Nat
  BY DEF EditInv, TypeOK
<1>3. /\ Cardinality(Orphan) \in Nat /\ Cardinality(Orphan') \in Nat
      /\ Cardinality(Stray) \in Nat /\ Cardinality(Stray') \in Nat
  BY <1>1, CommentsFinite
<1>4. Cardinality(Orphan') <= Cardinality(Orphan)
  BY <1>1, FewerComments DEF Kept
<1>5. item'.state # "DELETED" => Cardinality(Stray') <= Cardinality(Stray)
  BY <1>1, FewerComments DEF Kept
<1>6. Cardinality(Orphan') <= faults'
  BY <1>2, <1>3, <1>4 DEF StrayCount, Kept
<1>7. item'.state # "DELETED" => Cardinality(Stray') <= faults'
  BY <1>2, <1>3, <1>5 DEF StrayCount, Kept
<1> QED BY <1>6, <1>7 DEF StrayCount

\* The handler that ends lets go of at most the one comment it had just made.
LEMMA FaultCount ==
  ASSUME EditInv, EditInv', StrayCount, faults' = faults + 1, handler' = Idle,
         UNCHANGED <<item, comments, made>>
  PROVE  StrayCount'
<1> DEFINE c == handler.comment
<1>1. /\ Orphan \in SUBSET Comment /\ Orphan' \in SUBSET Comment
      /\ Stray \in SUBSET Comment /\ Stray' \in SUBSET Comment
  BY DEF Orphan, Stray
<1>2. Orphan' \subseteq Orphan \cup {c} /\ Stray' \subseteq Stray \cup {c}
  BY DEF Orphan, Stray
<1>3. /\ Cardinality(Orphan') <= Cardinality(Orphan) + 1
      /\ Cardinality(Stray') <= Cardinality(Stray) + 1
  BY <1>1, <1>2, OneMoreComment
<1>4. /\ faults \in Nat
      /\ Cardinality(Orphan) \in Nat /\ Cardinality(Orphan') \in Nat
      /\ Cardinality(Stray) \in Nat /\ Cardinality(Stray') \in Nat
  BY <1>1, CommentsFinite DEF EditInv, TypeOK
<1>5. Cardinality(Orphan') <= faults'
  BY <1>3, <1>4 DEF StrayCount
<1>6. item'.state # "DELETED" => Cardinality(Stray') <= faults'
  BY <1>3, <1>4 DEF StrayCount
<1> QED BY <1>5, <1>6 DEF StrayCount

LEMMA InitCount == Init => StrayCount
<1> SUFFICES ASSUME Init PROVE StrayCount
  OBVIOUS
<1>1. Orphan = {} /\ Stray = {}
  BY BodyTypes DEF Init, Orphan, Stray
<1> QED BY <1>1, FS_EmptySet DEF Init, StrayCount

\* The steps that leave the item's destination and all comments alone, of a handler
\* that has none in its hands that is not on record.
LEMMA SameKept ==
  ASSUME EditInv, CopyInv, UNCHANGED <<comments, made, faults>>,
         item'.destination = item.destination,
         item'.state = item.state \/ item.state # "DELETED",
         \/ handler'.comment = handler.comment
         \/ handler.step # "locate"
  PROVE  Kept
<1>1. faults \in Nat
  BY DEF EditInv, TypeOK
<1>2. CASE handler'.comment = handler.comment
  BY <1>1, <1>2 DEF Kept, Orphan, Stray
<1>3. CASE handler.step # "locate"
  BY <1>1, <1>3, BodyTypes DEF Kept, Orphan, Stray, CopyInv, HoldsCopy
<1> QED BY <1>2, <1>3

LEMMA UserKept ==
  ASSUME EditInv, NEW c \in Comment, UserEdits(c) \/ UserDeletes(c)
  PROVE  Kept
<1>1. UNCHANGED <<item, made, handler, faults>> /\ comments[c].by # "nobody"
  BY DEF UserEdits, UserDeletes, UserActs, record
<1>2. \A d \in Comment : comments'[d].by # "nobody" => comments[d].by # "nobody"
  BY <1>1 DEF UserEdits, UserDeletes, EditInv, TypeOK
<1>3. faults \in Nat
  BY DEF EditInv, TypeOK
<1> QED BY <1>1, <1>2, <1>3 DEF Kept, Orphan, Stray

LEMMA CreateKept ==
  ASSUME EditInv, CopyInv, CreateComment
  PROVE  Kept
<1>1. /\ handler.comment = NoComment /\ made' = made + 1 /\ made \in Nat /\ faults \in Nat
      /\ handler'.comment = made' /\ UNCHANGED <<item, faults>>
      /\ \A d \in Comment : d # made' => comments'[d] = comments[d]
  BY DEF CreateComment, Write, EditInv, TypeOK, Handler, record, history, CopyInv, HoldsCopy
<1> QED BY <1>1 DEF Kept, Orphan, Stray

LEMMA DestinationKept ==
  ASSUME EditInv, SetDestination \/ MarkDeleted, CopyInv
  PROVE  Kept
<1>1. /\ handler'.comment = handler.comment /\ UNCHANGED <<comments, made, faults>>
      /\ faults \in Nat
  BY GotoTypes DEF SetDestination, MarkDeleted, github, history, EditInv, TypeOK
<1>2. CASE SetDestination
  <2>1. item.destination = NoComment /\ item'.state = item.state
    BY <1>2 DEF SetDestination, EditInv, TypeOK, HandlerAgrees, Item
  <2> QED BY <1>1, <2>1 DEF Kept, Orphan, Stray
<1>3. CASE MarkDeleted
  <2>1. item.destination = handler.comment /\ item'.state = "DELETED"
    BY <1>3 DEF MarkDeleted, EditInv, TypeOK, Item, CopyInv, HoldsCopy
  <2> QED BY <1>1, <2>1 DEF Kept, Orphan, Stray
<1> QED BY <1>2, <1>3

LEMMA WriteKept ==
  ASSUME EditInv, CopyInv, UpdateComment \/ DeleteComment,
         comments[handler.comment] # Absent \/ DeleteComment
  PROVE  Kept
<1>1. /\ handler'.comment = handler.comment /\ UNCHANGED <<item, made, faults>>
      /\ faults \in Nat
      /\ \A d \in Comment : d # handler.comment => comments'[d] = comments[d]
  <2>1. CASE UpdateComment /\ comments[handler.comment] # Absent
    BY <2>1, GotoTypes DEF UpdateComment, Write, record, history, EditInv, TypeOK
  <2>2. CASE DeleteComment
    BY <2>2, GotoTypes DEF DeleteComment, record, history, EditInv, TypeOK
  <2> QED BY <2>1, <2>2
<1> QED BY <1>1 DEF Kept, Orphan, Stray

LEMMA SettleKept ==
  ASSUME EditInv, CopyInv, SettleRow, handler.step # "locate", UNCHANGED faults
  PROVE  Kept
BY SameKept DEF SettleRow, record, github

LEMMA CountStep ==
  ASSUME EditInv, EventInv, CopyInv, StrayCount, [Next]_vars
  PROVE  StrayCount'
<1> EditInv'
  BY EditStep
<1>1. CASE Interrupt \/ GiveUp
  BY <1>1, FaultCount DEF Interrupt, GiveUp, SettleRow, record, github
<1>2. CASE \E c \in Comment : UserEdits(c) \/ UserDeletes(c)
  BY <1>2, UserKept, KeptCount
<1>3. CASE Post \/ Edit \/ Remove
  <2>1. UNCHANGED <<item, comments, made, handler>> /\ faults <= faults'
    BY <1>3 DEF Post, Edit, Remove, Announce, AuthorOnly, record, github, EditInv, TypeOK
  <2>2. Kept
    BY <2>1 DEF Kept, Orphan, Stray
  <2> QED BY <2>2, KeptCount
<1>4. CASE Finish \/ FetchMessage \/ ReadComment
  <2>1. handler.step # "locate" /\ UNCHANGED <<item, comments, made, faults>>
    BY <1>4 DEF Finish, FetchMessage, ReadComment, SettleRow, ClaimOnly, record, github, history
  <2> QED BY <2>1, SameKept, KeptCount
<1>5. CASE ClaimEvent \/ ClaimSync \/ ClaimDelete \/ ClaimUpload
  <2>1. handler.step = "none" /\ UNCHANGED <<item, comments, made, faults>>
    BY <1>5, IdleTypes DEF ClaimEvent, ClaimSync, ClaimDelete, ClaimUpload, ClaimOnly, record,
       github, history
  <2> QED BY <2>1, SameKept, KeptCount
<1>6. CASE \/ UpsertItem \/ UpsertAttachment \/ CompleteAttachment \/ SetRenderHash
           \/ EnqueueUpload \/ EnqueueSync \/ EnqueueDelete \/ EnqueueUploadSync \/ RecordConflict
  <2>1. handler'.comment = handler.comment /\ UNCHANGED <<comments, made, faults>>
    BY <1>6, GotoTypes DEF UpsertItem, UpsertAttachment, CompleteAttachment, SetRenderHash,
       EnqueueUpload, EnqueueSync, EnqueueDelete, EnqueueUploadSync, Enqueue, RecordConflict,
       ClaimOnly, github, history
  <2>2. CASE UpsertItem
    <3>1. item'.destination = item.destination /\ item.state # "DELETED"
      BY <2>2, UpsertEvents DEF UpsertItem, EditInv, TypeOK, Item
    <3> QED BY <2>1, <3>1, SameKept, KeptCount
  <2>3. CASE ~UpsertItem
    <3>1. item'.destination = item.destination /\ item'.state = item.state
      BY <1>6, <2>3 DEF UpsertAttachment, CompleteAttachment, SetRenderHash, EnqueueUpload,
         EnqueueSync, EnqueueDelete, EnqueueUploadSync, Enqueue, RecordConflict, ClaimOnly, record, EditInv, TypeOK, Item
    <3> QED BY <2>1, <3>1, SameKept, KeptCount
  <2> QED BY <2>2, <2>3
<1>7. CASE CreateComment \/ SetDestination \/ MarkDeleted
  BY <1>7, CreateKept, DestinationKept, KeptCount
<1>8. CASE DeleteComment \/ UpdateComment
  <2>1. CASE DeleteComment \/ comments[handler.comment] # Absent
    BY <1>8, <2>1, WriteKept, KeptCount
  <2>2. CASE UpdateComment /\ comments[handler.comment] = Absent
    <3>1. handler.step # "locate" /\ SettleRow /\ UNCHANGED faults
      BY <2>2 DEF UpdateComment
    <3> QED BY <3>1, SettleKept, KeptCount
  <2> QED BY <1>8, <2>1, <2>2
<1>9. CASE \/ UNCHANGED vars
           \/ \E c \in Comment : HearHook("written", c) \/ HearHook("removed", c)
  <2>1. UNCHANGED <<item, comments, made, handler, faults>>
    BY <1>9 DEF HearHook, vars, history
  <2> QED BY <2>1, SameKept, KeptCount
<1> QED
  BY <1>1, <1>2, <1>3, <1>4, <1>5, <1>6, <1>7, <1>8, <1>9 DEF Next, Work

LEMMA CountAlways == Spec => [](EditInv /\ EventInv /\ CopyInv /\ StrayCount)
<1>1. Init => StrayCount
  BY InitCount
<1>2. EditInv /\ EventInv /\ CopyInv /\ StrayCount /\ [Next]_vars => StrayCount'
  BY CountStep
<1> QED BY <1>1, <1>2, CopyAlways, PTL DEF Spec

\* There are never more comments on GitHub that the relay has forgotten than handlers
\* were interrupted: a retry of #syncGitHubItem makes a comment only if none is on record.
THEOREM ForgottenCopiesAreCounted == Spec => []OneCopyPerInterruption
<1>1. StrayCount => OneCopyPerInterruption
  BY DEF StrayCount, OneCopyPerInterruption
<1> QED BY <1>1, CountAlways, PTL

\* The relay takes for a user's comment only one that an interruption made it forget,
\* as long as the message is not deleted, and never the one on record
\* (findRelayItemByDestination in #processGitHub).
THEOREM EchoesAreForgottenCopies == Spec => []EchoesAreOrphans
<1>1. EditInv /\ CopyInv /\ StrayCount => EchoesAreOrphans
  <2> SUFFICES ASSUME EditInv, CopyInv, StrayCount PROVE EchoesAreOrphans
    OBVIOUS
  <2>1. item.state # "DELETED" => mirrored \subseteq Stray
    BY DEF EditInv, TypeOK, CopyInv, HoldsCopy, HeardOf, Stray
  <2>2. item.state # "DELETED" => Cardinality(mirrored) <= Cardinality(Stray)
    BY <2>1, FewerComments DEF EditInv, TypeOK, Stray
  <2>3. Stray \in SUBSET Comment /\ mirrored \in SUBSET Comment /\ faults \in Nat
    BY DEF EditInv, TypeOK, Stray
  <2>4. Cardinality(Stray) \in Nat /\ Cardinality(mirrored) \in Nat
    BY <2>3, CommentsFinite
  <2>5. item.state # "DELETED" => Cardinality(mirrored) <= faults
    BY <2>2, <2>3, <2>4 DEF StrayCount
  <2> QED BY <2>5 DEF CopyInv, HeardOf, EchoesAreOrphans
<1> QED BY <1>1, CountAlways, PTL

\* A step of the relay that writes a comment writes what the item shows, which is not
\* older than what the comment shows.
LEMMA OlderNever ==
  ASSUME EditInv, CopyInv, [Next]_vars, NEW c \in Comment,
         comments[c].by = "relay", comments'[c].by = "relay"
  PROVE  /\ comments'[c].text >= comments[c].text
         /\ comments[c].media = "COMPLETE" => comments'[c].media = "COMPLETE"
<1>1. comments[c] \in Body /\ comments[c].text \in Nat
  BY DEF EditInv, TypeOK, Body
<1>2. CASE comments'[c] = comments[c]
  BY <1>1, <1>2
<1>3. CASE UpdateComment /\ comments[handler.comment] # Absent
  <2>1. /\ handler.step = "write" /\ handler.comment = item.destination
        /\ item.destination \in Comment
        /\ comments' = [comments EXCEPT ![handler.comment] = handler.body]
    BY <1>3 DEF UpdateComment, Write, EditInv, TypeOK, HandlerAgrees, Item
  <2>2. CASE c = handler.comment
    <3>1. comments'[c] = Rendered(item.text, item.media)
      BY <2>1, <2>2 DEF CopyInv, BodyCurrent, EditInv, TypeOK
    <3>2. item.text \in Nat /\ comments[c].text <= item.text
          /\ (comments[c].media = "COMPLETE" => item.media = "COMPLETE")
      BY <2>1, <2>2 DEF CopyInv, CommentBehind, EditInv, TypeOK, Item
    <3> QED BY <1>1, <3>1, <3>2 DEF Rendered
  <2>3. CASE c # handler.comment
    BY <1>2, <2>1, <2>3 DEF EditInv, TypeOK
  <2> QED BY <2>2, <2>3
<1>4. CASE CreateComment
  <2>1. comments' = [comments EXCEPT ![made + 1] = handler.body] /\ made \in Nat
    BY <1>4 DEF CreateComment, Write, EditInv, TypeOK
  <2>2. c # made + 1
    BY <2>1, BodyTypes DEF CopyInv, Unmade
  <2> QED BY <1>2, <2>1, <2>2 DEF EditInv, TypeOK
<1>5. CASE DeleteComment \/ \E d \in Comment : UserEdits(d) \/ UserDeletes(d)
  <2>1. PICK d \in Comment \cup {NoComment}, body \in {Absent, UserText} :
          comments' = [comments EXCEPT ![d] = body]
    BY <1>5 DEF DeleteComment, UserEdits, UserDeletes, EditInv, TypeOK, Handler
  <2>2. CASE c = d
    BY <2>1, <2>2, BodyTypes DEF EditInv, TypeOK
  <2>3. CASE c # d
    BY <1>2, <2>1, <2>3 DEF EditInv, TypeOK
  <2> QED BY <2>2, <2>3
<1>6. \/ UNCHANGED comments
      \/ UpdateComment /\ comments[handler.comment] # Absent
      \/ CreateComment \/ DeleteComment
      \/ \E d \in Comment : UserEdits(d) \/ UserDeletes(d)
  BY DEF Next, Work, vars, Post, Edit, Remove, AuthorOnly, Interrupt, GiveUp, SettleRow, Finish,
     ClaimEvent, ClaimSync, ClaimDelete, ClaimUpload, ClaimOnly, FetchMessage, UpsertItem,
     UpsertAttachment, EnqueueUpload, EnqueueSync, EnqueueDelete, EnqueueUploadSync, Enqueue,
     HearHook, SetDestination, ReadComment, UpdateComment, SetRenderHash, RecordConflict,
     MarkDeleted, CompleteAttachment, github
<1> QED BY <1>2, <1>3, <1>4, <1>5, <1>6

\* A comment never goes back to an older revision, nor from the attachment to its
\* placeholder, whatever is retried and whatever users do to it: the item never goes
\* back, and an operation reads it when it runs (#syncGitHubItem).
THEOREM CommentsNeverGoBack == Spec => NeverOlder
<1>1. EditInv /\ CopyInv /\ [Next]_vars =>
        [\A c \in Comment :
           comments[c].by = "relay" /\ comments'[c].by = "relay" =>
             /\ comments'[c].text >= comments[c].text
             /\ comments[c].media = "COMPLETE" => comments'[c].media = "COMPLETE"]_vars
  BY OlderNever
<1> QED BY <1>1, CopyAlways, PTL DEF Spec, NeverOlder
=============================================================================
