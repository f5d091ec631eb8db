------------------------ MODULE IssueCreationProofs ------------------------
(***************************************************************************)
(* IssueCreation, proved for every number of revisions, issues, attempts,  *)
(* acts, faults and reconciliations: nothing but a person writes the body  *)
(* of an issue of a user, what is made twice has a failure or a race that  *)
(* explains it, the issue the relay makes is not taken for a user's, and   *)
(* once settled the thread shows a user's body and none of the relay's     *)
(* own, unless a row is dead, events came late, or operations on the copy  *)
(* crossed.                                                                *)
(***************************************************************************)
EXTENDS IssueCreation, FiniteSetTheorems, SequenceTheorems, TLAPS

USE CreationAssumption

CreateSteps == {"issue", "connect", "starter", "place", "hash", "attach", "upload", "sync"}

\* The steps of a handler, by the row it has claimed.
StepsOf(kind) ==
  CASE kind = "create" -> CreateSteps \cup {"end"}
    [] kind = "upload" -> {"store", "resync", "end"}
    [] kind = "body"   -> {"read", "write", "save", "end"}
    [] kind = "post"   -> {"thread", "join", "message", "edit", "segments", "end"}
    [] OTHER           -> {"erase", "mark", "end"}
InboxSteps == {"fetch", "reply", "pend", "end"}
EventSteps == {"link", "echo", "copy", "post", "end"}

\* A handler runs on a row that is still there, through the steps of its kind.
ClaimsHeld ==
  /\ handler.job = "none" => handler.step = "none"
  /\ handler.job = "inbox" => inbox # <<>> /\ handler.step \in InboxSteps
  /\ handler.job = "event" =>
       /\ handler.event \in hooks /\ handler.issue = handler.event.issue
       /\ handler.step \in EventSteps
  /\ handler.job = "operation" =>
       /\ handler.row \in 1..Len(ops) /\ handler.step \in StepsOf(ops[handler.row].kind)
       /\ ops[handler.row].kind # "create" => handler.issue = ops[handler.row].issue

\* What is enqueued is about an issue that has been made.
RowsFit ==
  /\ \A event \in hooks \cup plan.events : event.kind # "none" /\ event.issue \in Made
  /\ \A n \in 1..Len(ops) :
       /\ ops[n].kind \in {"upload", "body"} => ops[n].issue = item.issue /\ item.hash # NoBody
       /\ ops[n].kind \in {"post", "erase"} => ops[n].issue \in Made

\* There is nothing to relay before there is a thread.
Begun ==
  starter = 0 => inbox = <<>> /\ ops = <<>> /\ Made = {} /\ threads = 0 /\ ~plan.unlinked

\* How far the creation has come.
Creation ==
  /\ handler.step \in CreateSteps \ {"issue"} => handler.issue \in Made
  /\ handler.step \in {"issue", "connect"} => ~Linked
  /\ handler.step = "connect" => links[handler.issue] = NoLink
  /\ handler.step \in {"issue", "connect", "starter"} => item.issue = NoIssue
  /\ handler.step = "starter" => links[handler.issue] = Person
  /\ handler.step \in {"place", "hash", "attach", "upload", "sync"} => item.issue = handler.issue
  /\ handler.step \in {"attach", "upload", "sync"} => item.hash # NoBody
  /\ item.issue # NoIssue => item.issue \in Made /\ links[item.issue] = Person
  /\ item.hash # NoBody => item.issue # NoIssue
  /\ handler.step \in {"thread", "join"} => links[handler.issue] = NoThread
  /\ \A i \in Issue : links[i] # NoLink => i \in Made

\* What the relay has written of the starter.
BodiesAreTheRelays ==
  /\ item.hash # NoBody => item.hash.by = "relay"
  /\ handler.step \in {"issue", "connect", "starter", "place", "hash", "read", "write", "save"} =>
       handler.body \in Body /\ handler.body.by = "relay"

\* Issues are numbered in the order they are made.
Numbered == \E n \in 0..MaxIssues : Made = 1..n

CreationInv == TypeOK /\ ClaimsHeld /\ RowsFit /\ Begun /\ Creation /\ BodiesAreTheRelays /\ Numbered

-----------------------------------------------------------------------------
(* Types of the parts an action writes.                                    *)

Step == {"none", "fetch", "pend", "reply", "link", "echo", "copy", "post",
         "issue", "connect", "starter", "place", "hash", "attach", "upload", "sync",
         "store", "resync", "read", "write", "save",
         "thread", "join", "message", "edit", "segments", "erase", "mark", "end"}

LEMMA NoneTypes ==
  /\ NoBody \in Body \cup {NoBody} /\ Users \in Body /\ Users # NoBody
  /\ NoEvent \in Event /\ Nothing \in Plan /\ NoIssue = 0 /\ NoIssue \in 0..MaxIssues
<1>1. Users \in Body /\ Users # NoBody
  BY DEF Users, Body, NoBody
<1>2. NoEvent \in Event
  BY DEF NoEvent, Event, NoIssue
<1> QED BY <1>1, <1>2 DEF Nothing, Plan, NoIssue

LEMMA IdleTypes ==
  Idle \in Handler /\ Idle.job = "none" /\ Idle.step = "none"
BY NoneTypes DEF Idle, Handler, NoMessage

LEMMA RenderingTypes ==
  ASSUME NEW text \in 0..MaxText, NEW media
  PROVE  /\ Rendering(text, media) \in Body /\ Rendering(text, media).by = "relay"
         /\ Rendering(text, media) # NoBody
BY DEF Rendering, Body, NoBody

LEMMA BodyIsNotNoBody == \A body \in Body : body # NoBody /\ (body.by = "relay" => body # Users)
BY DEF Body, NoBody, Users

LEMMA GotoTypes ==
  ASSUME handler \in Handler, NEW step \in Step, Goto(step)
  PROVE  /\ handler' \in Handler /\ handler'.step = step
         /\ UNCHANGED <<handler.job, handler.row, handler.event, handler.issue, handler.text,
                        handler.body, handler.message>>
BY DEF Goto, Handler, Step

LEMMA OpTypes ==
  ASSUME NEW kind \in {"create", "upload", "body", "post", "erase"}, NEW i \in 0..MaxIssues,
         NEW text \in 0..MaxText
  PROVE  /\ Op(kind, i, text) \in Operation
         /\ Op(kind, i, text).kind = kind /\ Op(kind, i, text).issue = i
BY DEF Op, Operation

LEMMA AppendTypes ==
  ASSUME NEW S, NEW seq \in Seq(S), NEW e \in S
  PROVE  /\ Append(seq, e) \in Seq(S) /\ Append(seq, e) # <<>>
         /\ Len(seq) \in Nat /\ Len(Append(seq, e)) = Len(seq) + 1
         /\ \A n \in 1..Len(seq) : Append(seq, e)[n] = seq[n]
         /\ Append(seq, e)[Len(seq) + 1] = e
         /\ \A n \in 1..Len(Append(seq, e)) : n \in 1..Len(seq) \/ Append(seq, e)[n] = e
<1>1. /\ Append(seq, e) \in Seq(S) /\ Append(seq, e) # <<>>
      /\ Len(seq) \in Nat /\ Len(Append(seq, e)) = Len(seq) + 1
      /\ \A n \in 1..Len(seq) : Append(seq, e)[n] = seq[n]
      /\ Append(seq, e)[Len(seq) + 1] = e
  BY AppendProperties, LenProperties
<1>2. \A n \in 1..Len(Append(seq, e)) : n \in 1..Len(seq) \/ Append(seq, e)[n] = e
  BY <1>1
<1> QED BY <1>1, <1>2

LEMMA RemoveTypes ==
  ASSUME NEW S, NEW seq \in Seq(S), NEW i \in 1..Len(seq)
  PROVE  RemoveAt(seq, i) \in Seq(S)
<1>1. Len(seq) \in Nat /\ \A j \in 1..Len(seq) : seq[j] \in S
  BY LenProperties, ElementOfSeq
<1>2. SubSeq(seq, 1, i - 1) \in Seq(S)
  <2>1. \A j \in 1..(i - 1) : seq[j] \in S
    BY <1>1
  <2> QED BY <2>1, <1>1, SubSeqProperties
<1>3. SubSeq(seq, i + 1, Len(seq)) \in Seq(S)
  <2>1. \A j \in (i + 1)..Len(seq) : seq[j] \in S
    BY <1>1
  <2> QED BY <2>1, <1>1, SubSeqProperties
<1> QED BY <1>2, <1>3, ConcatProperties DEF RemoveAt

\* What is left is what was there.
LEMMA RemoveKeeps ==
  ASSUME NEW S, NEW seq \in Seq(S), NEW i \in 1..Len(seq)
  PROVE  \A n \in 1..Len(RemoveAt(seq, i)) :
           \E m \in 1..Len(seq) : RemoveAt(seq, i)[n] = seq[m]
<1> DEFINE T == {seq[m] : m \in 1..Len(seq)}
<1>1. seq \in Seq(T)
  <2>1. Len(seq) \in Nat /\ seq \in [1..Len(seq) -> S]
    BY LenProperties
  <2>2. seq \in [1..Len(seq) -> T]
    BY <2>1
  <2> HIDE DEF T
  <2> QED BY <2>1, <2>2
<1>2. RemoveAt(seq, i) \in Seq(T)
  <2> HIDE DEF T
  <2> QED BY <1>1, RemoveTypes
<1> QED BY <1>2, ElementOfSeq

LEMMA TailTypes ==
  ASSUME NEW S, NEW seq \in Seq(S), seq # <<>>
  PROVE  Tail(seq) \in Seq(S)
BY HeadTailProperties

-----------------------------------------------------------------------------
(* What a step of a handler leaves as it is.                               *)

LEMMA InitCreation == Init => CreationInv
<1> SUFFICES ASSUME Init PROVE CreationInv
  OBVIOUS
<1>1. Made = {}
  BY DEF Init, Made
<1>2. /\ starter = 0 /\ inbox = <<>> /\ threads = 0 /\ ops = <<>> /\ hooks = {} /\ plan = Nothing
      /\ handler = Idle /\ links = [i \in Issue |-> NoLink] /\ messages = <<>>
      /\ item = [issue |-> NoIssue, text |-> 0, placed |-> FALSE, hash |-> NoBody, media |-> "none",
                 conflict |-> FALSE]
  BY DEF Init
<1>3. TypeOK
  <2>1. 0 \in 0..MaxText /\ 0 \in 0..(MaxAttempts - 1) /\ 0 \in 0..MaxActs /\ 0 \in 0..MaxFaults
        /\ 0 \in 0..MaxRuns
    OBVIOUS
  <2>2. item \in Item
    BY <1>2, <2>1, NoneTypes DEF Item
  <2>3. copies \in [Issue -> Copy]
    BY NoneTypes DEF Init, Copy, NoMessage
  <2>4. inbox \in Seq({"thread", "update", "reply"}) /\ ops \in Seq(Operation)
        /\ messages \in Seq(Body \cup {NoBody})
    BY <1>2, EmptySeq
  <2>5. links \in [Issue -> Nat \cup {NoLink}] /\ heard \in [Issue -> Nat]
        /\ issues \in [Issue -> Body \cup {NoBody}]
    BY NoneTypes DEF Init
  <2>6. known \in BOOLEAN /\ kept \in BOOLEAN
    BY Zenon DEF Init
  <2>7. hooks \subseteq Event /\ plan \in Plan /\ handler \in Handler
    BY <1>2, NoneTypes, IdleTypes
  <2>8. /\ starter \in 0..MaxText /\ reply \in {"none", "stored", "relayed", "dropped"}
        /\ attempts \in 0..(MaxAttempts - 1) /\ stamp \in Nat /\ threads \in Nat /\ strays \in Nat
        /\ acts \in 0..MaxActs /\ faults \in 0..MaxFaults /\ runs \in 0..MaxRuns
        /\ past \subseteq {"dead", "missed", "half", "late", "stale", "overtaken", "returned"}
    BY <2>1 DEF Init
  <2> QED BY <2>2, <2>3, <2>4, <2>5, <2>6, <2>7, <2>8 DEF TypeOK
<1>4. ClaimsHeld /\ BodiesAreTheRelays
  BY <1>2, IdleTypes DEF ClaimsHeld, BodiesAreTheRelays
<1>5. RowsFit
  <2>1. Len(ops) = 0
    BY <1>2, EmptySeq
  <2> QED BY <1>2, <2>1 DEF RowsFit, Nothing
<1>6. Begun
  BY <1>1, <1>2 DEF Begun, Nothing
<1>7. Creation
  BY <1>2, IdleTypes DEF Creation, CreateSteps, Issue, NoLink
<1>8. Numbered
  <2>1. 0 \in 0..MaxIssues /\ 1..0 = {}
    OBVIOUS
  <2> QED BY <2>1, <1>1 DEF Numbered
<1> QED BY <1>3, <1>4, <1>5, <1>6, <1>7, <1>8 DEF CreationInv

\* The step of a handler names the row it runs on.
LEMMA RowOfStep ==
  ASSUME CreationInv
  PROVE  /\ handler.step \in InboxSteps \ {"end"} => handler.job = "inbox"
         /\ handler.step \in EventSteps \ {"end"} => handler.job = "event"
         /\ \A kind \in {"create", "upload", "body", "post", "erase"} :
              handler.step \in StepsOf(kind) \ {"end"} =>
                handler.job = "operation" /\ ops[handler.row].kind = kind
<1>1. handler.job \in {"none", "inbox", "event", "operation"}
  BY DEF CreationInv, TypeOK, Handler
<1>2. handler.job = "operation" =>
        ops[handler.row].kind \in {"create", "upload", "body", "post", "erase"}
  <2>1. ops \in Seq(Operation) /\ (handler.job = "operation" => handler.row \in 1..Len(ops))
    BY DEF CreationInv, TypeOK, ClaimsHeld
  <2>2. \A n \in 1..Len(ops) : ops[n] \in Operation
    BY <2>1, ElementOfSeq
  <2> QED BY <2>1, <2>2 DEF Operation
<1>3. ClaimsHeld
  BY DEF CreationInv
<1>4. /\ handler.step \in InboxSteps \ {"end"} => handler.job = "inbox"
      /\ handler.step \in EventSteps \ {"end"} => handler.job = "event"
  BY <1>1, <1>2, <1>3 DEF ClaimsHeld, InboxSteps, EventSteps, StepsOf, CreateSteps
<1>5. ASSUME NEW kind \in {"create", "upload", "body", "post", "erase"},
             handler.step \in StepsOf(kind) \ {"end"}
      PROVE  handler.job = "operation" /\ ops[handler.row].kind = kind
  <2>1. handler.job = "operation"
    BY <1>1, <1>3, <1>5 DEF ClaimsHeld, InboxSteps, EventSteps, StepsOf, CreateSteps
  <2>2. ops[handler.row].kind = kind
    BY <2>1, <1>2, <1>3, <1>5 DEF ClaimsHeld, StepsOf, CreateSteps
  <2> QED BY <2>1, <2>2
<1> QED BY <1>4, <1>5

\* Where a handler may go without leaving its row.
Stays(step) ==
  \/ handler.job = "inbox" /\ step \in InboxSteps
  \/ handler.job = "event" /\ step \in EventSteps
  \/ handler.job = "operation" /\ step \in StepsOf(ops[handler.row].kind)

LEMMA MoveKeepsClaims ==
  ASSUME CreationInv, NEW step, Stays(step), handler'.step = step,
         UNCHANGED <<handler.job, handler.row, handler.event>>,
         handler'.issue = handler.issue \/ handler.step = "issue",
         inbox' = inbox, hooks \subseteq hooks',
         \A n \in 1..Len(ops) : n \in 1..Len(ops') /\ ops'[n] = ops[n]
  PROVE  ClaimsHeld'
<1>1. handler.step = "issue" => handler.job = "operation" /\ ops[handler.row].kind = "create"
  BY RowOfStep DEF StepsOf, CreateSteps
<1> QED BY <1>1 DEF CreationInv, ClaimsHeld, Stays

\* A handler that only writes one of its records.
LEMMA WriteKeepsRows ==
  ASSUME CreationInv, UNCHANGED <<issues, hooks, plan, inbox, ops, starter>>,
         item'.issue = item.issue \/ item.issue = NoIssue,
         item.hash # NoBody => item'.hash # NoBody,
         threads' = threads \/ starter # 0
  PROVE  Made' = Made /\ RowsFit' /\ Begun' /\ Numbered'
<1>1. Made' = Made
  BY DEF Made
<1>2. RowsFit'
  BY <1>1 DEF CreationInv, RowsFit, Creation
<1> QED BY <1>1, <1>2 DEF CreationInv, Begun, Numbered
-----------------------------------------------------------------------------
(* The record of the starter.                                              *)

LEMMA ItemStep ==
  ASSUME CreationInv, NEW step \in Step, NEW new \in Item, Stays(step), Goto(step), OnlyItem(new),
         new.issue = item.issue \/ item.issue = NoIssue,
         item.hash # NoBody => new.hash # NoBody
  PROVE  /\ TypeOK' /\ ClaimsHeld' /\ RowsFit' /\ Begun' /\ Numbered'
         /\ Made' = Made /\ Linked' = Linked /\ links' = links /\ item' = new
         /\ handler'.step = step /\ UNCHANGED <<handler.issue, handler.body>>
<1>1. /\ handler' \in Handler /\ handler'.step = step
      /\ UNCHANGED <<handler.job, handler.row, handler.event, handler.issue, handler.body>>
  BY GotoTypes DEF CreationInv, TypeOK
<1>2. /\ UNCHANGED <<issues, stamp, hooks, inbox, attempts, links, copies, messages, threads, ops, keys,
                     heard, strays, kept, past, starter, reply, known, plan, acts, faults, runs>>
      /\ item' = new
  BY DEF OnlyItem, WorkerOnly, arrived, github, discord, outbox, history, intake, bounds
<1>3. TypeOK'
  BY <1>1, <1>2 DEF CreationInv, TypeOK
<1>4. ClaimsHeld'
  BY <1>1, <1>2, MoveKeepsClaims
<1>5. Made' = Made /\ RowsFit' /\ Begun' /\ Numbered'
  BY <1>2, WriteKeepsRows
<1>6. Linked' = Linked
  BY <1>2 DEF Linked
<1> QED BY <1>1, <1>2, <1>3, <1>4, <1>5, <1>6

\* A step of the creation may be followed by any other of its steps.
LEMMA CreateStays ==
  ASSUME CreationInv, handler.step \in CreateSteps
  PROVE  \A step \in CreateSteps \cup {"end"} : Stays(step)
BY RowOfStep DEF StepsOf, CreateSteps, Stays

LEMMA UploadStays ==
  ASSUME CreationInv, handler.step \in {"store", "resync"}
  PROVE  \A step \in {"resync", "end"} : Stays(step)
BY RowOfStep DEF StepsOf, Stays

LEMMA BodyStays ==
  ASSUME CreationInv, handler.step \in {"read", "write", "save"}
  PROVE  \A step \in {"write", "save", "end"} : Stays(step)
BY RowOfStep DEF StepsOf, Stays

LEMMA PostStays ==
  ASSUME CreationInv, handler.step \in {"thread", "join", "message", "edit", "segments"}
  PROVE  \A step \in {"join", "segments", "end"} : Stays(step)
BY RowOfStep DEF StepsOf, Stays

LEMMA EraseStays ==
  ASSUME CreationInv, handler.step \in {"erase", "mark"}
  PROVE  \A step \in {"mark", "end"} : Stays(step)
<1>1. handler.step \in StepsOf("erase") \ {"end"}
  BY DEF StepsOf
<1>2. handler.job = "operation" /\ ops[handler.row].kind = "erase"
  BY <1>1, RowOfStep
<1> QED BY <1>2 DEF StepsOf, Stays

LEMMA EventStays ==
  ASSUME CreationInv, handler.step \in {"link", "echo", "copy", "post"}
  PROVE  \A step \in EventSteps : Stays(step)
BY RowOfStep DEF EventSteps, Stays

LEMMA InboxStays ==
  ASSUME CreationInv, handler.step \in {"fetch", "reply"}
  PROVE  Stays("end")
BY RowOfStep DEF InboxSteps, Stays

LEMMA UpsertStarterKeeps ==
  ASSUME CreationInv, UpsertStarter
  PROVE  CreationInv'
<1> DEFINE new == [item EXCEPT !.issue = handler.issue, !.text = handler.text]
<1>1. new \in Item
  BY DEF CreationInv, TypeOK, Item, Handler
<1>2. new.issue = handler.issue /\ new.hash = item.hash /\ item.issue = NoIssue
      /\ handler.step = "starter" /\ Goto("place") /\ OnlyItem(new) /\ Stays("place")
  BY CreateStays DEF UpsertStarter, CreationInv, TypeOK, Item, Creation, CreateSteps
<1>3. /\ TypeOK' /\ ClaimsHeld' /\ RowsFit' /\ Begun' /\ Numbered'
      /\ Made' = Made /\ Linked' = Linked /\ links' = links /\ item' = new
      /\ handler'.step = "place" /\ UNCHANGED <<handler.issue, handler.body>>
  <2> HIDE DEF new
  <2> QED BY <1>1, <1>2, ItemStep DEF Step
<1>4. Creation' /\ BodiesAreTheRelays'
  <2> HIDE DEF new
  <2> QED BY <1>2, <1>3 DEF CreationInv, Creation, BodiesAreTheRelays, CreateSteps
<1> QED BY <1>3, <1>4 DEF CreationInv

LEMMA SetDestinationKeeps ==
  ASSUME CreationInv, SetDestination
  PROVE  CreationInv'
<1> DEFINE new == [item EXCEPT !.placed = TRUE]
<1>1. new \in Item
  BY DEF CreationInv, TypeOK, Item
<1>2. new.issue = item.issue /\ new.hash = item.hash
      /\ handler.step = "place" /\ Goto("hash") /\ OnlyItem(new) /\ Stays("hash")
  BY CreateStays DEF SetDestination, CreationInv, TypeOK, Item, CreateSteps
<1>3. /\ TypeOK' /\ ClaimsHeld' /\ RowsFit' /\ Begun' /\ Numbered'
      /\ Made' = Made /\ Linked' = Linked /\ links' = links /\ item' = new
      /\ handler'.step = "hash" /\ UNCHANGED <<handler.issue, handler.body>>
  <2> HIDE DEF new
  <2> QED BY <1>1, <1>2, ItemStep DEF Step
<1>4. Creation' /\ BodiesAreTheRelays'
  <2> HIDE DEF new
  <2> QED BY <1>2, <1>3 DEF CreationInv, Creation, BodiesAreTheRelays, CreateSteps
<1> QED BY <1>3, <1>4 DEF CreationInv

LEMMA SetRenderHashKeeps ==
  ASSUME CreationInv, SetRenderHash
  PROVE  CreationInv'
<1> DEFINE new == [item EXCEPT !.hash = handler.body]
<1>1. handler.body \in Body /\ handler.body.by = "relay" /\ handler.body # NoBody
  BY BodyIsNotNoBody DEF SetRenderHash, CreationInv, BodiesAreTheRelays
<1>2. new \in Item
  BY <1>1 DEF CreationInv, TypeOK, Item
<1>3. new.issue = item.issue /\ new.hash = handler.body
      /\ handler.step = "hash" /\ Goto("attach") /\ OnlyItem(new) /\ Stays("attach")
  BY CreateStays DEF SetRenderHash, CreationInv, TypeOK, Item, CreateSteps
<1>4. /\ TypeOK' /\ ClaimsHeld' /\ RowsFit' /\ Begun' /\ Numbered'
      /\ Made' = Made /\ Linked' = Linked /\ links' = links /\ item' = new
      /\ handler'.step = "attach" /\ UNCHANGED <<handler.issue, handler.body>>
  <2> HIDE DEF new
  <2> QED BY <1>1, <1>2, <1>3, ItemStep DEF Step
<1>5. handler.issue \in Made /\ item.issue = handler.issue /\ NoIssue \notin Made
  BY <1>3 DEF CreationInv, Creation, CreateSteps, Made, Issue, NoIssue
<1>6. Creation' /\ BodiesAreTheRelays'
  <2> HIDE DEF new
  <2> QED BY <1>1, <1>3, <1>4, <1>5 DEF CreationInv, Creation, BodiesAreTheRelays, CreateSteps
<1> QED BY <1>4, <1>6 DEF CreationInv

LEMMA UpsertAttachmentKeeps ==
  ASSUME CreationInv, UpsertAttachment
  PROVE  CreationInv'
<1> DEFINE new == [item EXCEPT !.media = "pending"]
<1>1. new \in Item
  BY DEF CreationInv, TypeOK, Item
<1>2. new.issue = item.issue /\ new.hash = item.hash
      /\ handler.step = "attach" /\ Goto("upload") /\ OnlyItem(new) /\ Stays("upload")
  BY CreateStays DEF UpsertAttachment, CreationInv, TypeOK, Item, CreateSteps
<1>3. /\ TypeOK' /\ ClaimsHeld' /\ RowsFit' /\ Begun' /\ Numbered'
      /\ Made' = Made /\ Linked' = Linked /\ links' = links /\ item' = new
      /\ handler'.step = "upload" /\ UNCHANGED <<handler.issue, handler.body>>
  <2> HIDE DEF new
  <2> QED BY <1>1, <1>2, ItemStep DEF Step
<1>4. Creation' /\ BodiesAreTheRelays'
  <2> HIDE DEF new
  <2> QED BY <1>2, <1>3 DEF CreationInv, Creation, BodiesAreTheRelays, CreateSteps
<1> QED BY <1>3, <1>4 DEF CreationInv

LEMMA CompleteAttachmentKeeps ==
  ASSUME CreationInv, CompleteAttachment
  PROVE  CreationInv'
<1> DEFINE new == [item EXCEPT !.media = "done"]
<1>1. new \in Item
  BY DEF CreationInv, TypeOK, Item
<1>2. new.issue = item.issue /\ new.hash = item.hash
      /\ handler.step = "store" /\ Goto("resync") /\ OnlyItem(new) /\ Stays("resync")
  BY UploadStays DEF CompleteAttachment, CreationInv, TypeOK, Item
<1>3. /\ TypeOK' /\ ClaimsHeld' /\ RowsFit' /\ Begun' /\ Numbered'
      /\ Made' = Made /\ Linked' = Linked /\ links' = links /\ item' = new
      /\ handler'.step = "resync" /\ UNCHANGED <<handler.issue, handler.body>>
  <2> HIDE DEF new
  <2> QED BY <1>1, <1>2, ItemStep DEF Step
<1>4. Creation' /\ BodiesAreTheRelays'
  <2> HIDE DEF new
  <2> QED BY <1>2, <1>3 DEF CreationInv, Creation, BodiesAreTheRelays, CreateSteps
<1> QED BY <1>3, <1>4 DEF CreationInv

LEMMA ReadBodyKeeps ==
  ASSUME CreationInv, ReadBody
  PROVE  CreationInv'
<1>1. PICK step \in {"write", "end"}, new \in {item, [item EXCEPT !.conflict = TRUE]} :
        Goto(step) /\ OnlyItem(new)
  BY DEF ReadBody
<1>2. new \in Item /\ new.issue = item.issue /\ new.hash = item.hash
      /\ handler.step = "read" /\ Stays(step)
  BY BodyStays DEF ReadBody, CreationInv, TypeOK, Item
<1>3. /\ TypeOK' /\ ClaimsHeld' /\ RowsFit' /\ Begun' /\ Numbered'
      /\ Made' = Made /\ Linked' = Linked /\ links' = links /\ item' = new
      /\ handler'.step = step /\ UNCHANGED <<handler.issue, handler.body>>
  BY <1>1, <1>2, ItemStep DEF Step
<1>4. Creation' /\ BodiesAreTheRelays'
  BY <1>2, <1>3 DEF CreationInv, Creation, BodiesAreTheRelays, CreateSteps
<1> QED BY <1>3, <1>4 DEF CreationInv

LEMMA SaveHashKeeps ==
  ASSUME CreationInv, SaveHash
  PROVE  CreationInv'
<1> DEFINE new == [item EXCEPT !.hash = handler.body]
<1>1. handler.body \in Body /\ handler.body.by = "relay" /\ handler.body # NoBody
  BY BodyIsNotNoBody DEF SaveHash, CreationInv, BodiesAreTheRelays
<1>2. new \in Item
  BY <1>1 DEF CreationInv, TypeOK, Item
<1>3. new.issue = item.issue /\ new.hash = handler.body
      /\ handler.step = "save" /\ Goto("end") /\ OnlyItem(new) /\ Stays("end")
  BY BodyStays DEF SaveHash, CreationInv, TypeOK, Item
<1>4. /\ TypeOK' /\ ClaimsHeld' /\ RowsFit' /\ Begun' /\ Numbered'
      /\ Made' = Made /\ Linked' = Linked /\ links' = links /\ item' = new
      /\ handler'.step = "end" /\ UNCHANGED <<handler.issue, handler.body>>
  <2> HIDE DEF new
  <2> QED BY <1>1, <1>2, <1>3, ItemStep DEF Step
<1>5. item.hash # NoBody
  <2>1. handler.job = "operation" /\ ops[handler.row].kind = "body"
    BY <1>3, RowOfStep DEF StepsOf
  <2> QED BY <2>1 DEF CreationInv, ClaimsHeld, RowsFit
<1>6. Creation' /\ BodiesAreTheRelays'
  <2> HIDE DEF new
  <2> QED BY <1>1, <1>3, <1>4, <1>5 DEF CreationInv, Creation, BodiesAreTheRelays, CreateSteps
<1> QED BY <1>4, <1>6 DEF CreationInv
-----------------------------------------------------------------------------
(* What a handler enqueues.                                                *)

LEMMA EnqueueStep ==
  ASSUME CreationInv, NEW step \in Step, NEW key, NEW op \in Operation, Stays(step), Goto(step),
         Enqueue(key, op),
         UNCHANGED <<strays, kept>>, heard' \in [Issue -> Nat],
         past' \subseteq {"dead", "missed", "half", "late", "stale", "overtaken", "returned"},
         starter # 0,
         op.kind \in {"upload", "body"} => op.issue = item.issue /\ item.hash # NoBody,
         op.kind \in {"post", "erase"} => op.issue \in Made,
         handler.step \notin CreateSteps => step \notin CreateSteps,
         handler.step \in CreateSteps => step \in {"sync", "end"},
         step \in {"sync", "end", "copy"},
         step = "sync" => handler.step \in {"upload", "sync"}
  PROVE  CreationInv'
<1>1. /\ handler' \in Handler /\ handler'.step = step
      /\ UNCHANGED <<handler.job, handler.row, handler.event, handler.issue, handler.body>>
  BY GotoTypes DEF CreationInv, TypeOK
<1>2. /\ UNCHANGED <<issues, stamp, hooks, inbox, attempts, links, item, copies, messages, threads,
                     strays, kept, starter, reply, known, plan, acts, faults, runs>>
      /\ ops' \in {ops, Append(ops, op)}
  BY DEF Enqueue, WorkerOnly, arrived, github, record, discord, intake, bounds
<1>3. ops \in Seq(Operation)
  BY DEF CreationInv, TypeOK
<1>4. /\ ops' \in Seq(Operation)
      /\ \A n \in 1..Len(ops) : n \in 1..Len(ops') /\ ops'[n] = ops[n]
      /\ \A n \in 1..Len(ops') : (n \in 1..Len(ops) /\ ops'[n] = ops[n]) \/ ops'[n] = op
  <2>1. CASE ops' = ops
    BY <2>1, <1>3
  <2>2. CASE ops' = Append(ops, op)
    <3>1. /\ Append(ops, op) \in Seq(Operation) /\ Len(ops) \in Nat
          /\ Len(Append(ops, op)) = Len(ops) + 1
          /\ \A n \in 1..Len(ops) : Append(ops, op)[n] = ops[n]
          /\ \A n \in 1..Len(Append(ops, op)) : n \in 1..Len(ops) \/ Append(ops, op)[n] = op
      BY <1>3, AppendTypes
    <3> QED BY <2>2, <3>1
  <2> QED BY <2>1, <2>2, <1>2
<1>5. TypeOK'
  BY <1>1, <1>2, <1>4 DEF CreationInv, TypeOK
<1>6. step # "issue" /\ handler'.issue = handler.issue /\ inbox' = inbox /\ hooks \subseteq hooks'
  BY <1>1, <1>2
<1>7. ClaimsHeld'
  BY <1>1, <1>4, <1>6, MoveKeepsClaims
<1>8. Made' = Made /\ Linked' = Linked
  BY <1>2 DEF Made, Linked
<1>9. RowsFit'
  BY <1>2, <1>4, <1>8 DEF CreationInv, RowsFit
<1>10. Begun' /\ Numbered'
  BY <1>2, <1>8 DEF CreationInv, Begun, Numbered
<1>11. Creation' /\ BodiesAreTheRelays'
  BY <1>1, <1>2, <1>8 DEF CreationInv, Creation, BodiesAreTheRelays, CreateSteps
<1> QED BY <1>5, <1>7, <1>9, <1>10, <1>11 DEF CreationInv

\* A handler runs only when there is a thread.
LEMMA HandlerHasThread ==
  ASSUME CreationInv, handler.step # "none"
  PROVE  starter # 0
<1>1. handler.job # "none" /\ handler.job \in {"none", "inbox", "event", "operation"}
  BY DEF CreationInv, TypeOK, ClaimsHeld, Handler
<1>2. CASE handler.job = "inbox"
  BY <1>2 DEF CreationInv, ClaimsHeld, Begun
<1>3. CASE handler.job = "event"
  BY <1>3 DEF CreationInv, ClaimsHeld, Begun, RowsFit
<1>4. CASE handler.job = "operation"
  <2>1. ops # <<>>
    BY <1>4, EmptySeq DEF CreationInv, ClaimsHeld
  <2> QED BY <2>1 DEF CreationInv, Begun
<1> QED BY <1>1, <1>2, <1>3, <1>4

LEMMA EnqueueCreateKeeps ==
  ASSUME CreationInv, EnqueueCreate
  PROVE  CreationInv'
<1>1. starter \in 0..MaxText /\ starter # 0 /\ NoIssue \in 0..MaxIssues
  BY HandlerHasThread, NoneTypes DEF EnqueueCreate, CreationInv, TypeOK
<1> DEFINE op == Op("create", NoIssue, starter)
<1>2. op \in Operation /\ op.kind = "create"
  BY <1>1, OpTypes
<1>3. Goto("end") /\ Enqueue(<<"create">>, op) /\ UNCHANGED history /\ Stays("end")
      /\ handler.step = "fetch"
  BY InboxStays DEF EnqueueCreate
<1>4. UNCHANGED <<strays, kept>> /\ heard' \in [Issue -> Nat]
      /\ past' \subseteq {"dead", "missed", "half", "late", "stale", "overtaken", "returned"}
  BY <1>3 DEF history, CreationInv, TypeOK
<1> HIDE DEF op
<1> QED BY <1>1, <1>2, <1>3, <1>4, EnqueueStep DEF Step, CreateSteps

LEMMA EnqueueUploadKeeps ==
  ASSUME CreationInv, EnqueueUpload
  PROVE  CreationInv'
<1>1. item.issue \in 0..MaxIssues /\ 0 \in 0..MaxText /\ starter # 0 /\ item.hash # NoBody
  BY HandlerHasThread DEF EnqueueUpload, CreationInv, TypeOK, Item, Creation
<1> DEFINE op == Op("upload", item.issue, 0)
<1>2. op \in Operation /\ op.kind = "upload" /\ op.issue = item.issue
  BY <1>1, OpTypes
<1>3. Goto("sync") /\ Enqueue(<<"upload">>, op) /\ UNCHANGED history /\ Stays("sync")
      /\ handler.step = "upload"
  BY CreateStays DEF EnqueueUpload, CreateSteps
<1>4. UNCHANGED <<strays, kept>> /\ heard' \in [Issue -> Nat]
      /\ past' \subseteq {"dead", "missed", "half", "late", "stale", "overtaken", "returned"}
  BY <1>3 DEF history, CreationInv, TypeOK
<1> HIDE DEF op
<1> QED BY <1>1, <1>2, <1>3, <1>4, EnqueueStep DEF Step, CreateSteps

LEMMA EnqueueSyncKeeps ==
  ASSUME CreationInv, EnqueueSync
  PROVE  CreationInv'
<1>1. item.issue \in 0..MaxIssues /\ 0 \in 0..MaxText /\ starter # 0 /\ item.hash # NoBody
  BY HandlerHasThread DEF EnqueueSync, CreationInv, TypeOK, Item, Creation
<1> DEFINE op == Op("body", item.issue, 0)
<1>2. op \in Operation /\ op.kind = "body" /\ op.issue = item.issue
  BY <1>1, OpTypes
<1>3. Goto("end") /\ Enqueue(<<"body", "created">>, op) /\ UNCHANGED history /\ Stays("end")
      /\ handler.step = "sync"
  BY CreateStays DEF EnqueueSync, CreateSteps
<1>4. UNCHANGED <<strays, kept>> /\ heard' \in [Issue -> Nat]
      /\ past' \subseteq {"dead", "missed", "half", "late", "stale", "overtaken", "returned"}
  BY <1>3 DEF history, CreationInv, TypeOK
<1> HIDE DEF op
<1> QED BY <1>1, <1>2, <1>3, <1>4, EnqueueStep DEF Step, CreateSteps

LEMMA EnqueueResyncKeeps ==
  ASSUME CreationInv, EnqueueResync
  PROVE  CreationInv'
<1>1. item.hash # NoBody
  <2>1. handler.job = "operation" /\ ops[handler.row].kind = "upload"
    BY RowOfStep DEF EnqueueResync, StepsOf
  <2> QED BY <2>1 DEF CreationInv, ClaimsHeld, RowsFit
<1>2. item.issue \in 0..MaxIssues /\ 0 \in 0..MaxText /\ starter # 0
  BY HandlerHasThread DEF EnqueueResync, CreationInv, TypeOK, Item
<1> DEFINE op == Op("body", item.issue, 0)
<1>3. op \in Operation /\ op.kind = "body" /\ op.issue = item.issue
  BY <1>2, OpTypes
<1>4. Goto("end") /\ Enqueue(<<"body", "attachment">>, op) /\ UNCHANGED history /\ Stays("end")
      /\ handler.step = "resync"
  BY UploadStays DEF EnqueueResync
<1>5. UNCHANGED <<strays, kept>> /\ heard' \in [Issue -> Nat]
      /\ past' \subseteq {"dead", "missed", "half", "late", "stale", "overtaken", "returned"}
  BY <1>4 DEF history, CreationInv, TypeOK
<1> HIDE DEF op
<1> QED BY <1>1, <1>2, <1>3, <1>4, <1>5, EnqueueStep DEF Step, CreateSteps

LEMMA EnqueuePostKeeps ==
  ASSUME CreationInv, EnqueuePost
  PROVE  CreationInv'
<1>1. handler.step = "post" /\ Goto("end") /\ Stays("end")
  BY EventStays DEF EnqueuePost, EventSteps
<1>2. handler.issue \in Made
  <2>1. handler.job = "event"
    BY <1>1, RowOfStep DEF EventSteps
  <2> QED BY <2>1 DEF CreationInv, ClaimsHeld, RowsFit
<1>3. handler.issue \in 0..MaxIssues /\ 0 \in 0..MaxText /\ starter # 0
  BY <1>1, HandlerHasThread DEF CreationInv, TypeOK, Handler
<1> DEFINE op == Op("post", handler.issue, 0)
           key == <<"post", handler.issue, handler.event.body>>
<1>4. op \in Operation /\ op.kind = "post" /\ op.issue = handler.issue
  BY <1>3, OpTypes
<1>5. Enqueue(key, op) /\ UNCHANGED <<strays, kept>> /\ heard' \in [Issue -> Nat]
      /\ past' \subseteq {"dead", "missed", "half", "late", "stale", "overtaken", "returned"}
  BY DEF EnqueuePost, CreationInv, TypeOK
<1> HIDE DEF op, key
<1> QED BY <1>1, <1>2, <1>3, <1>4, <1>5, EnqueueStep DEF Step, CreateSteps

LEMMA HearKeeps ==
  ASSUME CreationInv, Hear
  PROVE  CreationInv'
<1>1. handler.step = "echo" /\ UNCHANGED <<strays, kept>>
  BY DEF Hear, Heard
<1>2. handler.job = "event" /\ handler.issue \in Made /\ handler.event \in Event
      /\ handler.event \in hooks /\ handler.issue = handler.event.issue
  <2>1. handler.job = "event"
    BY <1>1, RowOfStep DEF EventSteps
  <2> QED BY <2>1 DEF CreationInv, ClaimsHeld, RowsFit, TypeOK
<1>3. heard' \in [Issue -> Nat]
  BY <1>2 DEF Hear, Heard, CreationInv, TypeOK, Event
<1>4. past' \subseteq {"dead", "missed", "half", "late", "stale", "overtaken", "returned"}
  BY DEF Hear, Heard, Belated, CreationInv, TypeOK
<1>5. PICK step \in {"end", "copy"} : Goto(step)
  BY DEF Hear, Heard
<1>6. Stays(step)
  BY <1>1, EventStays DEF EventSteps
<1>7. CASE Enqueue(<<"erase", handler.event>>, Op("erase", handler.issue, 0))
  <2> DEFINE op == Op("erase", handler.issue, 0)
             key == <<"erase", handler.event>>
  <2>1. handler.issue \in 0..MaxIssues /\ 0 \in 0..MaxText /\ starter # 0
    BY <1>1, HandlerHasThread DEF CreationInv, TypeOK, Handler
  <2>2. op \in Operation /\ op.kind = "erase" /\ op.issue = handler.issue
    BY <2>1, OpTypes
  <2>3. Enqueue(key, op)
    BY <1>7
  <2> HIDE DEF op, key
  <2> QED BY <1>1, <1>2, <1>3, <1>4, <1>5, <1>6, <2>1, <2>2, <2>3, EnqueueStep DEF Step, CreateSteps
<1>8. CASE UNCHANGED <<arrived, github, record, discord, outbox>> /\ WorkerOnly
  <2>1. /\ handler' \in Handler /\ handler'.step = step
        /\ UNCHANGED <<handler.job, handler.row, handler.event, handler.issue, handler.body>>
    BY <1>5, GotoTypes DEF CreationInv, TypeOK, Step
  <2>2. UNCHANGED <<issues, stamp, hooks, inbox, attempts, links, item, copies, messages, threads,
                    ops, strays, kept, starter, reply, known, plan, acts, faults, runs>>
    BY <1>1, <1>8 DEF WorkerOnly, arrived, github, record, discord, outbox, intake, bounds
  <2>3. TypeOK'
    BY <1>3, <1>4, <2>1, <2>2 DEF CreationInv, TypeOK
  <2>4. ClaimsHeld'
    BY <1>6, <2>1, <2>2, MoveKeepsClaims
  <2>5. Made' = Made /\ RowsFit' /\ Begun' /\ Numbered'
    BY <2>2, WriteKeepsRows
  <2>6. Linked' = Linked
    BY <2>2 DEF Linked
  <2>7. Creation' /\ BodiesAreTheRelays'
    BY <1>1, <2>1, <2>2, <2>5, <2>6 DEF CreationInv, Creation, BodiesAreTheRelays, CreateSteps
  <2> QED BY <2>3, <2>4, <2>5, <2>7 DEF CreationInv
<1> QED BY <1>7, <1>8 DEF Hear
-----------------------------------------------------------------------------
(* Links, copies and messages.                                             *)

LEMMA PlainStep ==
  ASSUME CreationInv, NEW step \in Step, Stays(step), TypeOK', handler.step # "issue",
         handler.step # "none",
         handler'.step = step, UNCHANGED <<handler.job, handler.row, handler.event, handler.issue>>,
         UNCHANGED <<issues, hooks, plan, inbox, ops, starter, item>>,
         step \notin CreateSteps \cup {"thread", "read", "write", "save"},
         step = "join" => links'[handler.issue] = NoThread,
         \A i \in Issue : /\ links'[i] # NoLink => i \in Made
                          /\ links[i] = Person => links'[i] = Person
  PROVE  CreationInv'
<1>1. ClaimsHeld'
  BY MoveKeepsClaims
<1>2. Made' = Made /\ RowsFit' /\ Begun' /\ Numbered'
  BY HandlerHasThread, WriteKeepsRows
<1>3. BodiesAreTheRelays'
  BY DEF CreationInv, BodiesAreTheRelays, CreateSteps
<1>4. item.issue # NoIssue => item.issue \in Issue
  BY DEF CreationInv, Creation, Made
<1>5. Creation'
  BY <1>2, <1>4 DEF CreationInv, Creation, CreateSteps
<1> QED BY <1>1, <1>2, <1>3, <1>5 DEF CreationInv

LEMMA LinkTypes ==
  ASSUME CreationInv, NEW i \in Issue, NEW link \in Nat \cup {NoLink},
         links' = [links EXCEPT ![i] = link]
  PROVE  /\ links' \in [Issue -> Nat \cup {NoLink}]
         /\ links'[i] = link /\ \A j \in Issue \ {i} : links'[j] = links[j]
BY DEF CreationInv, TypeOK

LEMMA EnsureLinkKeeps ==
  ASSUME CreationInv, EnsureLink
  PROVE  CreationInv'
<1>1. handler.step = "link" /\ Goto("echo") /\ Stays("echo")
  BY EventStays DEF EnsureLink, EventSteps
<1>2. handler.issue \in Made /\ handler.issue \in Issue
  <2>1. handler.job = "event"
    BY <1>1, RowOfStep DEF EventSteps
  <2> QED BY <2>1 DEF CreationInv, ClaimsHeld, RowsFit, Made
<1>3. /\ handler' \in Handler /\ handler'.step = "echo"
      /\ UNCHANGED <<handler.job, handler.row, handler.event, handler.issue>>
  BY <1>1, GotoTypes DEF CreationInv, TypeOK, Step
<1>4. UNCHANGED <<issues, stamp, hooks, inbox, attempts, item, copies, messages, threads, ops,
                  heard, strays, kept, past, starter, reply, known, plan, acts, faults, runs>>
  BY DEF EnsureLink, WorkerOnly, arrived, github, discord, outbox, history, intake, bounds
<1> DEFINE link == IF links[handler.issue] = NoLink THEN NoThread ELSE links[handler.issue]
<1>5. link \in Nat \cup {NoLink} /\ (links[handler.issue] = Person => link = Person)
  BY <1>2 DEF CreationInv, TypeOK, NoThread, NoLink, Person
<1>6. links' = [links EXCEPT ![handler.issue] = link]
  BY DEF EnsureLink
<1> HIDE DEF link
<1>7. /\ links' \in [Issue -> Nat \cup {NoLink}]
      /\ links'[handler.issue] = link /\ \A j \in Issue \ {handler.issue} : links'[j] = links[j]
  BY <1>2, <1>5, <1>6, LinkTypes
<1>8. TypeOK'
  BY <1>3, <1>4, <1>7 DEF CreationInv, TypeOK
<1>9. \A i \in Issue : (links'[i] # NoLink => i \in Made) /\ (links[i] = Person => links'[i] = Person)
  BY <1>2, <1>5, <1>7 DEF CreationInv, Creation
<1> QED BY <1>1, <1>3, <1>4, <1>8, <1>9, PlainStep DEF Step, CreateSteps

LEMMA attachDiscordThreadKeeps ==
  ASSUME CreationInv, attachDiscordThread
  PROVE  CreationInv'
<1>1. handler.step = "join" /\ Goto("segments") /\ Stays("segments")
  BY PostStays DEF attachDiscordThread
<1>2. handler.issue \in Made /\ handler.issue \in Issue /\ links[handler.issue] = NoThread
  <2>1. handler.job = "operation" /\ ops[handler.row].kind = "post"
    BY <1>1, RowOfStep DEF StepsOf
  <2> QED BY <1>1, <2>1 DEF CreationInv, ClaimsHeld, RowsFit, Made, Creation
<1>3. /\ handler' \in Handler /\ handler'.step = "segments"
      /\ UNCHANGED <<handler.job, handler.row, handler.event, handler.issue>>
  BY <1>1, GotoTypes DEF CreationInv, TypeOK, Step
<1>4. UNCHANGED <<issues, stamp, hooks, inbox, attempts, item, copies, messages, threads, ops,
                  heard, strays, kept, past, starter, reply, known, plan, acts, faults, runs>>
  BY DEF attachDiscordThread, WorkerOnly, arrived, github, discord, outbox, history, intake, bounds
<1>5. /\ links' \in [Issue -> Nat \cup {NoLink}]
      /\ \A j \in Issue \ {handler.issue} : links'[j] = links[j]
  BY <1>2, LinkTypes DEF attachDiscordThread, CreationInv, TypeOK
<1>6. TypeOK'
  BY <1>3, <1>4, <1>5 DEF CreationInv, TypeOK
<1>7. \A i \in Issue : (links'[i] # NoLink => i \in Made) /\ (links[i] = Person => links'[i] = Person)
  BY <1>2, <1>5 DEF CreationInv, Creation, NoThread, Person
<1> QED BY <1>1, <1>3, <1>4, <1>6, <1>7, PlainStep DEF Step, CreateSteps

LEMMA CopyStep ==
  ASSUME CreationInv, NEW step \in {"post", "end"}, NEW new \in Copy, Stays(step), Goto(step),
         handler.step \notin {"none", "issue"}, OnlyCopy(new), UNCHANGED discord
  PROVE  CreationInv'
<1>1. /\ handler' \in Handler /\ handler'.step = step
      /\ UNCHANGED <<handler.job, handler.row, handler.event, handler.issue>>
  BY GotoTypes DEF CreationInv, TypeOK, Step
<1>2. UNCHANGED <<issues, stamp, hooks, inbox, attempts, item, links, messages, threads, ops,
                  heard, strays, kept, past, starter, reply, known, plan, acts, faults, runs>>
  BY DEF OnlyCopy, WorkerOnly, arrived, github, discord, outbox, history, intake, bounds
<1>3. copies' \in [Issue -> Copy]
  BY DEF OnlyCopy, CreationInv, TypeOK
<1>4. TypeOK'
  BY <1>1, <1>2, <1>3 DEF CreationInv, TypeOK
<1>5. \A i \in Issue : (links'[i] # NoLink => i \in Made) /\ (links[i] = Person => links'[i] = Person)
  BY <1>2 DEF CreationInv, Creation
<1>6. step \notin CreateSteps \cup {"thread", "read", "write", "save"} /\ step # "join"
      /\ step \in Step
  BY DEF Step, CreateSteps
<1> QED BY <1>1, <1>2, <1>4, <1>5, <1>6, PlainStep

LEMMA CopiesKeep ==
  ASSUME CreationInv, UpsertCopy \/ ReplaceSegments \/ MarkDeleted
  PROVE  CreationInv'
<1>1. handler.issue \in Issue
  <2>1. CASE handler.step = "copy"
    <3>1. handler.job = "event"
      BY <2>1, RowOfStep DEF EventSteps
    <3> QED BY <3>1 DEF CreationInv, ClaimsHeld, RowsFit, Made
  <2>2. CASE handler.step = "segments"
    <3>1. handler.job = "operation" /\ ops[handler.row].kind = "post"
      BY <2>2, RowOfStep DEF StepsOf
    <3> QED BY <3>1 DEF CreationInv, ClaimsHeld, RowsFit, Made
  <2>3. CASE handler.step = "mark"
    <3>1. handler.step \in StepsOf("erase") \ {"end"}
      BY <2>3 DEF StepsOf
    <3>2. handler.job = "operation" /\ ops[handler.row].kind = "erase"
      BY <3>1, RowOfStep
    <3> QED BY <3>2 DEF CreationInv, ClaimsHeld, RowsFit, Made
  <2> QED BY <2>1, <2>2, <2>3 DEF UpsertCopy, ReplaceSegments, MarkDeleted
<1>2. copies[handler.issue] \in Copy /\ handler.message \in Nat
      /\ handler.event.body \in Body \cup {NoBody} /\ NoMessage \in Nat
  BY <1>1 DEF CreationInv, TypeOK, Handler, Event, NoMessage
<1>3. CASE UpsertCopy
  <2> DEFINE new == [copies[handler.issue] EXCEPT !.state = "ACTIVE", !.body = handler.event.body]
  <2>1. new \in Copy
    BY <1>2 DEF Copy
  <2>2. handler.step = "copy" /\ Goto("post") /\ OnlyCopy(new) /\ UNCHANGED discord /\ Stays("post")
    BY <1>3, EventStays DEF UpsertCopy, EventSteps
  <2> HIDE DEF new
  <2> QED BY <2>1, <2>2, CopyStep
<1>4. CASE ReplaceSegments
  <2> DEFINE new == [copies[handler.issue] EXCEPT !.message = handler.message]
  <2>1. new \in Copy
    BY <1>2 DEF Copy
  <2>2. handler.step = "segments" /\ Goto("end") /\ OnlyCopy(new) /\ UNCHANGED discord
        /\ Stays("end")
    BY <1>4, PostStays DEF ReplaceSegments
  <2> HIDE DEF new
  <2> QED BY <2>1, <2>2, CopyStep
<1>5. CASE MarkDeleted
  <2> DEFINE new == [copies[handler.issue] EXCEPT !.state = "DELETED", !.message = NoMessage]
  <2>1. new \in Copy
    BY <1>2 DEF Copy
  <2>2. handler.step = "mark" /\ Goto("end") /\ OnlyCopy(new) /\ UNCHANGED discord /\ Stays("end")
    BY <1>5, EraseStays DEF MarkDeleted
  <2> HIDE DEF new
  <2> QED BY <2>1, <2>2, CopyStep
<1> QED BY <1>3, <1>4, <1>5
LEMMA PostStep ==
  ASSUME CreationInv, NEW step \in {"join", "segments"}, Stays(step), Post(step),
         handler.step \in {"thread", "message"}, step = "join" => handler.step = "thread",
         threads' \in {threads, threads + 1}
  PROVE  CreationInv'
<1>1. handler.body \in Body \cup {NoBody} /\ messages \in Seq(Body \cup {NoBody})
  BY DEF CreationInv, TypeOK, Handler
<1>2. messages' \in Seq(Body \cup {NoBody}) /\ Len(messages') \in Nat
  BY <1>1, AppendTypes, LenProperties DEF Post
<1>3. /\ handler' \in Handler /\ handler'.step = step
      /\ UNCHANGED <<handler.job, handler.row, handler.event, handler.issue>>
  BY <1>2 DEF Post, CreationInv, TypeOK, Handler
<1>4. UNCHANGED <<issues, stamp, hooks, inbox, attempts, item, links, copies, ops,
                  heard, strays, kept, past, starter, reply, known, plan, acts, faults, runs>>
  BY DEF Post, WorkerOnly, arrived, github, record, outbox, history, intake, bounds
<1>5. threads' \in Nat
  BY DEF CreationInv, TypeOK
<1>6. TypeOK'
  BY <1>2, <1>3, <1>4, <1>5 DEF CreationInv, TypeOK
<1>7. \A i \in Issue : (links'[i] # NoLink => i \in Made) /\ (links[i] = Person => links'[i] = Person)
  BY <1>4 DEF CreationInv, Creation
<1>8. step = "join" => links'[handler.issue] = NoThread
  BY <1>4 DEF CreationInv, Creation
<1>9. step \notin CreateSteps \cup {"thread", "read", "write", "save"} /\ step \in Step
  BY DEF Step, CreateSteps
<1> QED BY <1>3, <1>4, <1>6, <1>7, <1>8, <1>9, PlainStep

LEMMA PostsKeep ==
  ASSUME CreationInv, CreateThread \/ CreateMessage
  PROVE  CreationInv'
<1>1. threads \in Nat
  BY DEF CreationInv, TypeOK
<1>2. CASE CreateThread
  <2>1. handler.step = "thread" /\ Post("join") /\ threads' \in {threads, threads + 1}
        /\ Stays("join")
    BY <1>2, PostStays DEF CreateThread
  <2> QED BY <2>1, PostStep
<1>3. CASE CreateMessage
  <2>1. handler.step = "message" /\ Post("segments") /\ threads' \in {threads, threads + 1}
        /\ Stays("segments")
    BY <1>3, PostStays DEF CreateMessage
  <2> QED BY <2>1, PostStep
<1> QED BY <1>2, <1>3

LEMMA ShowKeeps ==
  ASSUME CreationInv, EditMessage \/ DeleteMessage
  PROVE  CreationInv'
<1>1. PICK step \in {"segments", "mark"}, body \in {handler.body, NoBody} :
        /\ Goto(step) /\ Stays(step) /\ handler.step \in {"edit", "erase"}
        /\ messages' = [messages EXCEPT ![handler.message] = body]
  <2>1. CASE EditMessage
    BY <2>1, PostStays DEF EditMessage
  <2>2. CASE DeleteMessage
    BY <2>2, EraseStays DEF DeleteMessage
  <2> QED BY <2>1, <2>2
<1>2. /\ handler' \in Handler /\ handler'.step = step
      /\ UNCHANGED <<handler.job, handler.row, handler.event, handler.issue>>
  BY <1>1, GotoTypes DEF CreationInv, TypeOK, Step
<1>3. UNCHANGED <<issues, stamp, hooks, inbox, attempts, item, links, copies, threads, ops,
                  heard, strays, kept, past, starter, reply, known, plan, acts, faults, runs>>
  BY DEF EditMessage, DeleteMessage, WorkerOnly, arrived, github, record, outbox, history, intake,
     bounds
<1>4. messages' \in Seq(Body \cup {NoBody})
  <2>1. messages \in Seq(Body \cup {NoBody}) /\ body \in Body \cup {NoBody}
    BY DEF CreationInv, TypeOK, Handler
  <2>2. CASE handler.message \in 1..Len(messages)
    BY <1>1, <2>1, <2>2, ExceptSeq
  <2>3. CASE handler.message \notin 1..Len(messages)
    <3>1. DOMAIN messages = 1..Len(messages)
      BY <2>1, LenProperties
    <3>2. messages' = messages
      <4>1. messages = [n \in DOMAIN messages |-> messages[n]]
        BY <2>1, LenProperties
      <4> QED BY <1>1, <2>3, <3>1, <4>1
    <3> QED BY <2>1, <3>2
  <2> QED BY <2>2, <2>3
<1>5. TypeOK'
  BY <1>2, <1>3, <1>4 DEF CreationInv, TypeOK
<1>6. \A i \in Issue : (links'[i] # NoLink => i \in Made) /\ (links[i] = Person => links'[i] = Person)
  BY <1>3 DEF CreationInv, Creation
<1>7. step \notin CreateSteps \cup {"thread", "read", "write", "save"} /\ step \in Step
  BY DEF Step, CreateSteps
<1> QED BY <1>1, <1>2, <1>3, <1>5, <1>6, <1>7, PlainStep

LEMMA RelayReplyKeeps ==
  ASSUME CreationInv, RelayReply
  PROVE  CreationInv'
<1>1. handler.step = "reply" /\ Goto("end") /\ Stays("end")
  BY InboxStays DEF RelayReply
<1>2. /\ handler' \in Handler /\ handler'.step = "end"
      /\ UNCHANGED <<handler.job, handler.row, handler.event, handler.issue>>
  BY <1>1, GotoTypes DEF CreationInv, TypeOK, Step
<1>3. /\ UNCHANGED <<issues, stamp, hooks, inbox, attempts, item, links, copies, messages, threads, ops,
                     heard, strays, kept, past, starter, known, plan, acts, faults, runs>>
      /\ reply' = "relayed"
  BY DEF RelayReply, arrived, github, record, discord, outbox, history, bounds
<1>4. TypeOK'
  BY <1>2, <1>3 DEF CreationInv, TypeOK
<1>5. \A i \in Issue : (links'[i] # NoLink => i \in Made) /\ (links[i] = Person => links'[i] = Person)
  BY <1>3 DEF CreationInv, Creation
<1> QED BY <1>1, <1>2, <1>3, <1>4, <1>5, PlainStep DEF Step, CreateSteps

-----------------------------------------------------------------------------
(* The issue is made, and linked.                                          *)

LEMMA AnnounceTypes ==
  ASSUME CreationInv, NEW i \in Issue, NEW kind \in {"opened", "edited"}, NEW body \in Body,
         NEW own \in BOOLEAN, Announce(i, kind, body, own)
  PROVE  /\ issues' \in [Issue -> Body \cup {NoBody}] /\ stamp' \in Nat /\ hooks' \subseteq Event
         /\ hooks \subseteq hooks' /\ Made' = Made \cup {i}
         /\ \A event \in hooks' : event \in hooks \/
              (event.kind = kind /\ event.issue = i /\ event.body = body /\ event.live)
         /\ issues'[i] = body /\ \A j \in Issue \ {i} : issues'[j] = issues[j]
<1>1. issues \in [Issue -> Body \cup {NoBody}] /\ stamp \in Nat /\ hooks \subseteq Event
  BY DEF CreationInv, TypeOK
<1>2. issues' = [issues EXCEPT ![i] = body] /\ stamp' = stamp + 1 /\ body # NoBody
  BY BodyIsNotNoBody DEF Announce
<1>3. issues' \in [Issue -> Body \cup {NoBody}] /\ stamp' \in Nat
      /\ issues'[i] = body /\ \A j \in Issue \ {i} : issues'[j] = issues[j]
  BY <1>1, <1>2
<1>4. Made' = Made \cup {i}
  BY <1>2, <1>3 DEF Made
<1> DEFINE new == [kind |-> kind, issue |-> i, body |-> body, own |-> own, live |-> TRUE,
                   stamp |-> stamp']
<1>5. new \in Event
  <2>1. i \in 0..MaxIssues
    BY DEF Issue
  <2> QED BY <1>3, <2>1 DEF Event
<1>6. hooks' = hooks \cup {new}
  BY DEF Announce
<1>7. new.kind = kind /\ new.issue = i /\ new.body = body /\ new.own = own /\ new.live
  OBVIOUS
<1> HIDE DEF new
<1>8. hooks' \subseteq Event /\ hooks \subseteq hooks'
      /\ \A event \in hooks' : event \in hooks \/ event = new
  BY <1>1, <1>5, <1>6
<1>9. \A event \in hooks' : event \in hooks \/
              (event.kind = kind /\ event.issue = i /\ event.body = body /\ event.live)
  BY <1>7, <1>8
<1> QED BY <1>3, <1>4, <1>8, <1>9

LEMMA EditTypes ==
  ASSUME CreationInv, NEW i \in Issue, NEW body \in Body, Announce(i, "edited", body, TRUE)
  PROVE  /\ issues' \in [Issue -> Body \cup {NoBody}] /\ stamp' \in Nat /\ hooks' \subseteq Event
         /\ hooks \subseteq hooks' /\ Made' = Made \cup {i}
         /\ \A event \in hooks' : event \in hooks \/ (event.kind = "edited" /\ event.issue = i)
<1>1. "edited" \in {"opened", "edited"} /\ TRUE \in BOOLEAN
  OBVIOUS
<1>2. /\ issues' \in [Issue -> Body \cup {NoBody}] /\ stamp' \in Nat /\ hooks' \subseteq Event
      /\ hooks \subseteq hooks' /\ Made' = Made \cup {i}
      /\ \A event \in hooks' : event \in hooks \/
           (event.kind = "edited" /\ event.issue = i /\ event.body = body /\ event.live)
  BY <1>1, AnnounceTypes, Zenon
<1> QED BY <1>2, Zenon

LEMMA MadeIsFinite ==
  ASSUME CreationInv
  PROVE  /\ Cardinality(Made) \in 0..MaxIssues /\ Made = 1..Cardinality(Made)
         /\ IsFiniteSet(Made) /\ Made \subseteq Issue
<1>1. PICK n \in 0..MaxIssues : Made = 1..n
  BY DEF CreationInv, Numbered
<1>2. IsFiniteSet(Made) /\ Cardinality(Made) = n
  BY <1>1, FS_Interval
<1> QED BY <1>1, <1>2 DEF Made

LEMMA CreateIssueKeeps ==
  ASSUME CreationInv, CreateIssue
  PROVE  CreationInv'
<1> DEFINE i == Cardinality(Made) + 1
<1>1. handler.step = "issue" /\ i \in Issue /\ i \notin Made /\ Made \cup {i} = 1..i /\ i \in 0..MaxIssues
  BY MadeIsFinite DEF CreateIssue, Issue
<1>2. handler.body \in Body /\ handler.body.by = "relay"
  BY <1>1 DEF CreationInv, BodiesAreTheRelays
<1>3. Announce(i, "opened", handler.body, TRUE)
  BY DEF CreateIssue
<1>4. handler' = [handler EXCEPT !.step = "connect", !.issue = i]
  BY DEF CreateIssue
<1> HIDE DEF i
<1>5. /\ handler' \in Handler /\ handler'.step = "connect" /\ handler'.issue = i
      /\ UNCHANGED <<handler.job, handler.row, handler.event, handler.body>>
  BY <1>1, <1>4 DEF CreationInv, TypeOK, Handler
<1>6. UNCHANGED <<inbox, attempts, item, links, copies, messages, threads, ops,
                  heard, strays, kept, past, starter, reply, known, plan, acts, faults, runs>>
  BY DEF CreateIssue, WorkerOnly, arrived, record, discord, outbox, history, intake, bounds
<1>7. /\ issues' \in [Issue -> Body \cup {NoBody}] /\ stamp' \in Nat /\ hooks' \subseteq Event
      /\ hooks \subseteq hooks' /\ Made' = Made \cup {i}
      /\ \A event \in hooks' : event \in hooks \/ (event.kind = "opened" /\ event.issue = i)
  <2>1. "opened" \in {"opened", "edited"} /\ TRUE \in BOOLEAN
    OBVIOUS
  <2>2. /\ issues' \in [Issue -> Body \cup {NoBody}] /\ stamp' \in Nat /\ hooks' \subseteq Event
        /\ hooks \subseteq hooks' /\ Made' = Made \cup {i}
        /\ \A event \in hooks' : event \in hooks \/
             (/\ event.kind = "opened" /\ event.issue = i /\ event.body = handler.body
              /\ event.live)
    BY <1>1, <1>2, <1>3, <2>1, AnnounceTypes, Zenon
  <2> QED BY <2>2, Zenon
<1>8. TypeOK'
  BY <1>5, <1>6, <1>7 DEF CreationInv, TypeOK
<1>9. Stays("connect")
  BY <1>1, CreateStays DEF CreateSteps
<1>10. ClaimsHeld'
  BY <1>1, <1>5, <1>6, <1>7, <1>9, MoveKeepsClaims
<1>11. RowsFit'
  BY <1>6, <1>7 DEF CreationInv, RowsFit
<1>12. Begun'
  BY <1>1, <1>6, HandlerHasThread DEF Begun
<1>13. Numbered'
  BY <1>1, <1>7 DEF Numbered
<1>14. Linked' = Linked /\ ~Linked /\ item.issue = NoIssue
  BY <1>1, <1>6 DEF Linked, CreationInv, Creation
<1>15. links[i] = NoLink
  BY <1>1 DEF CreationInv, Creation
<1>16. Creation'
  BY <1>1, <1>5, <1>6, <1>7, <1>14, <1>15 DEF CreationInv, Creation, CreateSteps
<1>17. BodiesAreTheRelays'
  BY <1>2, <1>5, <1>6 DEF CreationInv, BodiesAreTheRelays
<1> QED BY <1>8, <1>10, <1>11, <1>12, <1>13, <1>16, <1>17 DEF CreationInv

LEMMA createDiscordOriginLinkKeeps ==
  ASSUME CreationInv, createDiscordOriginLink
  PROVE  CreationInv'
<1>1. handler.step = "connect" /\ Goto("starter") /\ Stays("starter")
  BY CreateStays DEF createDiscordOriginLink, CreateSteps
<1>2. handler.issue \in Made /\ handler.issue \in Issue /\ item.issue = NoIssue /\ ~Linked
  BY <1>1 DEF CreationInv, Creation, CreateSteps, Made
<1>3. /\ handler' \in Handler /\ handler'.step = "starter"
      /\ UNCHANGED <<handler.job, handler.row, handler.event, handler.issue, handler.body>>
  BY <1>1, GotoTypes DEF CreationInv, TypeOK, Step
<1>4. UNCHANGED <<issues, stamp, hooks, inbox, attempts, item, copies, messages, threads, ops,
                  heard, strays, kept, past, starter, reply, known, plan, acts, faults, runs>>
  BY DEF createDiscordOriginLink, WorkerOnly, arrived, github, discord, outbox, history, intake,
     bounds
<1>5. /\ links' \in [Issue -> Nat \cup {NoLink}] /\ links'[handler.issue] = Person
      /\ \A j \in Issue \ {handler.issue} : links'[j] = links[j]
  <2>1. Person \in Nat \cup {NoLink} /\ links' = [links EXCEPT ![handler.issue] = Person]
    BY DEF createDiscordOriginLink, Person
  <2> QED BY <1>2, <2>1, LinkTypes
<1>6. TypeOK'
  BY <1>3, <1>4, <1>5 DEF CreationInv, TypeOK
<1>7. ClaimsHeld'
  BY <1>1, <1>3, <1>4, MoveKeepsClaims
<1>8. Made' = Made /\ RowsFit' /\ Begun' /\ Numbered'
  BY <1>4, WriteKeepsRows
<1>9. Creation' /\ BodiesAreTheRelays'
  BY <1>1, <1>2, <1>3, <1>4, <1>5, <1>8 DEF CreationInv, Creation, BodiesAreTheRelays, CreateSteps
<1> QED BY <1>6, <1>7, <1>8, <1>9 DEF CreationInv

LEMMA WriteBodyKeeps ==
  ASSUME CreationInv, WriteBody
  PROVE  CreationInv'
<1>1. handler.step = "write" /\ Goto("save") /\ Stays("save")
  BY BodyStays DEF WriteBody
<1>2. handler.issue \in Made /\ handler.issue \in Issue
  <2>1. handler.job = "operation" /\ ops[handler.row].kind = "body"
    BY <1>1, RowOfStep DEF StepsOf
  <2> QED BY <2>1 DEF CreationInv, ClaimsHeld, RowsFit, Creation, Made
<1>3. handler.body \in Body /\ handler.body.by = "relay"
  BY <1>1 DEF CreationInv, BodiesAreTheRelays
<1>4. /\ handler' \in Handler /\ handler'.step = "save"
      /\ UNCHANGED <<handler.job, handler.row, handler.event, handler.issue, handler.body>>
  BY <1>1, GotoTypes DEF CreationInv, TypeOK, Step
<1>5. UNCHANGED <<inbox, attempts, item, links, copies, messages, threads, ops,
                  heard, strays, kept, past, starter, reply, known, plan, acts, faults, runs>>
  BY DEF WriteBody, WorkerOnly, arrived, record, discord, outbox, history, intake, bounds
<1>6. /\ issues' \in [Issue -> Body \cup {NoBody}] /\ stamp' \in Nat /\ hooks' \subseteq Event
      /\ hooks \subseteq hooks' /\ Made' = Made
      /\ \A event \in hooks' :
           event \in hooks \/ (event.kind = "edited" /\ event.issue = handler.issue)
  <2>1. CASE UNCHANGED github
    BY <2>1 DEF github, CreationInv, TypeOK, Made
  <2>2. CASE Announce(handler.issue, "edited", handler.body, TRUE)
    <3>1. /\ issues' \in [Issue -> Body \cup {NoBody}] /\ stamp' \in Nat /\ hooks' \subseteq Event
          /\ hooks \subseteq hooks' /\ Made' = Made \cup {handler.issue}
          /\ \A event \in hooks' :
               event \in hooks \/ (event.kind = "edited" /\ event.issue = handler.issue)
      BY <1>2, <1>3, <2>2, EditTypes
    <3> QED BY <1>2, <3>1
  <2> QED BY <2>1, <2>2 DEF WriteBody
<1>7. TypeOK'
  BY <1>4, <1>5, <1>6 DEF CreationInv, TypeOK
<1>8. ClaimsHeld'
  BY <1>1, <1>4, <1>5, <1>6, MoveKeepsClaims
<1>9. RowsFit'
  BY <1>2, <1>5, <1>6 DEF CreationInv, RowsFit
<1>10. Begun' /\ Numbered' /\ Linked' = Linked
  BY <1>5, <1>6 DEF CreationInv, Begun, Numbered, Linked
<1>11. Creation' /\ BodiesAreTheRelays'
  BY <1>1, <1>4, <1>5, <1>6, <1>10 DEF CreationInv, Creation, BodiesAreTheRelays, CreateSteps
<1> QED BY <1>7, <1>8, <1>9, <1>10, <1>11 DEF CreationInv
-----------------------------------------------------------------------------
(* People, users and the reconciliation.                                   *)

\* The worker's handler goes on as before.
LEMMA OutsideStep ==
  ASSUME CreationInv, UNCHANGED <<handler, item, links, ops>>, TypeOK',
         hooks \subseteq hooks', Made' = Made,
         inbox # <<>> => inbox' # <<>>,
         \A event \in hooks' \cup plan'.events :
           event \in hooks \cup plan.events \/ (event.kind # "none" /\ event.issue \in Made),
         starter' = 0 =>
           starter = 0 /\ inbox' = inbox /\ threads' = threads /\ (plan'.unlinked => plan.unlinked)
  PROVE  CreationInv'
<1>1. ClaimsHeld'
  BY DEF CreationInv, ClaimsHeld
<1>2. RowsFit' /\ Begun' /\ Numbered'
  BY DEF CreationInv, RowsFit, Begun, Numbered
<1>3. Linked' = Linked
  BY DEF Linked
<1>4. Creation' /\ BodiesAreTheRelays'
  BY <1>3 DEF CreationInv, Creation, BodiesAreTheRelays
<1> QED BY <1>1, <1>2, <1>4 DEF CreationInv

LEMMA AppendInbox ==
  ASSUME CreationInv, NEW row \in {"thread", "update", "reply"}
  PROVE  Append(inbox, row) \in Seq({"thread", "update", "reply"}) /\ Append(inbox, row) # <<>>
<1> DEFINE S == {"thread", "update", "reply"}
<1>1. inbox \in Seq(S) /\ row \in S
  BY DEF CreationInv, TypeOK
<1>2. Append(inbox, row) \in Seq(S) /\ Append(inbox, row) # <<>>
  <2> HIDE DEF S
  <2> QED BY <1>1, AppendTypes
<1> QED BY <1>2

\* What the intake writes.
LEMMA IntakeStep ==
  ASSUME CreationInv, OutsideDiscord, starter' \in 1..MaxText, threads' \in Nat,
         reply' \in {"none", "stored", "relayed", "dropped"}, known' \in BOOLEAN,
         inbox' = inbox \/ \E row \in {"thread", "update", "reply"} : inbox' = Append(inbox, row),
         faults' \in 0..MaxFaults,
         past' \subseteq {"dead", "missed", "half", "late", "stale", "overtaken", "returned"}
  PROVE  CreationInv'
<1>1. UNCHANGED <<attempts, issues, stamp, hooks, plan, links, item, copies, messages, ops,
                  handler, acts, runs, heard, strays, kept>>
  BY DEF OutsideDiscord, github, record, outbox
<1>2. inbox' \in Seq({"thread", "update", "reply"}) /\ (inbox # <<>> => inbox' # <<>>)
  BY AppendInbox DEF CreationInv, TypeOK
<1>3. TypeOK'
  BY <1>1, <1>2 DEF CreationInv, TypeOK
<1>4. Made' = Made
  BY <1>1 DEF Made
<1>5. \A event \in hooks' \cup plan'.events : event \in hooks \cup plan.events
  BY <1>1
<1> QED BY <1>1, <1>2, <1>3, <1>4, <1>5, OutsideStep

LEMMA MappedType == Mapped \in BOOLEAN
BY Zenon DEF Mapped, Linked

LEMMA IntakeKeeps ==
  ASSUME CreationInv,
         \/ \E seen \in BOOLEAN : OpenThread(seen)
         \/ EditStarter \/ PostReply \/ TouchThread
  PROVE  CreationInv'
<1>1. /\ starter \in 0..MaxText /\ threads \in Nat /\ known \in BOOLEAN /\ faults \in 0..MaxFaults
      /\ reply \in {"none", "stored", "relayed", "dropped"}
      /\ past \subseteq {"dead", "missed", "half", "late", "stale", "overtaken", "returned"}
  BY DEF CreationInv, TypeOK
<1>2. ASSUME NEW seen \in BOOLEAN, OpenThread(seen)
      PROVE  CreationInv'
  <2>1. starter' \in 1..MaxText /\ threads' \in Nat /\ reply' = reply /\ OutsideDiscord
    BY <1>2, <1>1 DEF OpenThread
  <2>2. known' \in BOOLEAN
    BY <1>2, <1>1, Zenon DEF OpenThread
  <2>3. inbox' = inbox \/ inbox' = Append(inbox, "thread")
    BY <1>2 DEF OpenThread
  <2>4. faults' \in 0..MaxFaults
        /\ past' \subseteq {"dead", "missed", "half", "late", "stale", "overtaken", "returned"}
    <3>1. \/ UNCHANGED <<faults, past>>
          \/ faults < MaxFaults /\ faults' = faults + 1 /\ past' = past \cup {"missed"}
      BY <1>2, Zenon DEF OpenThread
    <3>2. CASE UNCHANGED <<faults, past>>
      BY <1>1, <3>2
    <3>3. CASE faults < MaxFaults /\ faults' = faults + 1 /\ past' = past \cup {"missed"}
      <4>1. faults + 1 \in 0..MaxFaults
        BY <1>1, <3>3
      <4>2. past \cup {"missed"}
              \subseteq {"dead", "missed", "half", "late", "stale", "overtaken", "returned"}
        BY <1>1
      <4> QED BY <3>3, <4>1, <4>2
    <3> QED BY <3>1, <3>2, <3>3
  <2> QED BY <1>1, <2>1, <2>2, <2>3, <2>4, IntakeStep
<1>3. CASE EditStarter
  <2>1. /\ starter' \in 1..MaxText /\ UNCHANGED <<reply, threads, faults, past>> /\ OutsideDiscord
        /\ inbox' = inbox \/ inbox' = Append(inbox, "update")
    BY <1>3, <1>1 DEF EditStarter
  <2>2. known' \in BOOLEAN
    BY <1>3, MappedType, Zenon DEF EditStarter
  <2> QED BY <1>1, <2>1, <2>2, IntakeStep
<1>4. CASE PostReply
  <2>1. /\ starter' \in 1..MaxText /\ UNCHANGED <<threads, faults, past>> /\ OutsideDiscord
        /\ inbox' = inbox \/ inbox' = Append(inbox, "reply")
        /\ reply' \in {"none", "stored", "relayed", "dropped"}
    BY <1>4, <1>1 DEF PostReply
  <2>2. known' \in BOOLEAN
    BY <1>4, MappedType, Zenon DEF PostReply
  <2> QED BY <1>1, <2>1, <2>2, IntakeStep
<1>5. CASE TouchThread
  <2>1. /\ starter' \in 1..MaxText /\ UNCHANGED <<reply, threads, faults, past, inbox>>
        /\ OutsideDiscord
    BY <1>5, <1>1 DEF TouchThread
  <2>2. known' \in BOOLEAN
    BY <1>5, Zenon DEF TouchThread
  <2> QED BY <1>1, <2>1, <2>2, IntakeStep
<1> QED BY <1>2, <1>3, <1>4, <1>5

LEMMA UserWritesKeeps ==
  ASSUME CreationInv, NEW i \in Issue, NEW body \in Body, UserWrites(i, body)
  PROVE  CreationInv'
<1>1. UNCHANGED <<starter, reply, known, inbox, attempts, plan, links, item, copies, messages,
                  threads, ops, handler, faults, runs, heard, strays, past>>
  BY DEF UserWrites, intake, arrived, record, discord, outbox
<1>2. i \in Made /\ acts < MaxActs /\ acts' = acts + 1 /\ Announce(i, "edited", body, FALSE)
  BY DEF UserWrites
<1>3. acts' \in 0..MaxActs
  BY <1>2 DEF CreationInv, TypeOK
<1>4. kept' \in BOOLEAN
  BY Zenon DEF UserWrites, CreationInv, TypeOK
<1>5. /\ issues' \in [Issue -> Body \cup {NoBody}] /\ stamp' \in Nat /\ hooks' \subseteq Event
      /\ hooks \subseteq hooks' /\ Made' = Made
      /\ \A event \in hooks' : event \in hooks \/ (event.kind = "edited" /\ event.issue = i)
  <2>1. "edited" \in {"opened", "edited"} /\ FALSE \in BOOLEAN
    OBVIOUS
  <2>2. /\ issues' \in [Issue -> Body \cup {NoBody}] /\ stamp' \in Nat /\ hooks' \subseteq Event
        /\ hooks \subseteq hooks' /\ Made' = Made \cup {i}
        /\ \A event \in hooks' : event \in hooks \/
             (event.kind = "edited" /\ event.issue = i /\ event.body = body /\ event.live)
    BY <1>2, <2>1, AnnounceTypes, Zenon
  <2>3. Made \cup {i} = Made
    BY <1>2
  <2> QED BY <2>2, <2>3, Zenon
<1>6. TypeOK'
  BY <1>1, <1>3, <1>4, <1>5 DEF CreationInv, TypeOK
<1>7. \A event \in hooks' \cup plan'.events :
        event \in hooks \cup plan.events \/ (event.kind # "none" /\ event.issue \in Made)
  BY <1>1, <1>2, <1>5
<1> QED BY <1>1, <1>5, <1>6, <1>7, OutsideStep

LEMMA UsersKeep ==
  ASSUME CreationInv, UserEdits \/ UserReverts
  PROVE  CreationInv'
<1>1. CASE UserEdits
  BY <1>1, UserWritesKeeps, NoneTypes DEF UserEdits
<1>2. CASE UserReverts
  <2>1. item.hash \in Body /\ item.issue \in Issue /\ UserWrites(item.issue, item.hash)
    BY <1>2 DEF UserReverts, UserWrites, Made, CreationInv, TypeOK, Item
  <2> QED BY <2>1, UserWritesKeeps
<1> QED BY <1>1, <1>2

LEMMA ReadInventoryKeeps ==
  ASSUME CreationInv, ReadInventory
  PROVE  CreationInv'
<1> DEFINE snapshot(i) == [kind |-> "edited", issue |-> i, body |-> issues[i], own |-> FALSE,
                           live |-> FALSE, stamp |-> stamp]
           seen == starter # 0 /\ ~Linked
<1>1. UNCHANGED <<starter, reply, known, inbox, attempts, issues, stamp, hooks, links, item, copies,
                  messages, threads, ops, handler, acts, faults, heard, strays, kept, past>>
  BY DEF ReadInventory, intake, arrived, github, record, discord, outbox, history
<1>2. runs' \in 0..MaxRuns
  BY DEF ReadInventory, CreationInv, TypeOK
<1>3. plan' = [known |-> TRUE, unlinked |-> seen, events |-> {snapshot(i) : i \in Made}]
  BY Zenon DEF ReadInventory
<1>4. \A i \in Made : snapshot(i) \in Event
  BY DEF Made, CreationInv, TypeOK, Event, Issue
<1>5. plan' \in Plan
  <2>1. seen \in BOOLEAN
    BY Zenon
  <2>2. {snapshot(i) : i \in Made} \in SUBSET Event
    BY <1>4, Zenon
  <2> HIDE DEF seen, snapshot
  <2> QED BY <1>3, <2>1, <2>2 DEF Plan
<1>6. TypeOK'
  BY <1>1, <1>2, <1>5 DEF CreationInv, TypeOK
<1>7. Made' = Made
  BY <1>1 DEF Made
<1>8. \A event \in plan'.events : event.kind # "none" /\ event.issue \in Made
  <2>1. \A i \in Made : snapshot(i).kind # "none" /\ snapshot(i).issue \in Made
    OBVIOUS
  <2>2. plan'.events = {snapshot(i) : i \in Made}
    BY <1>3
  <2> QED BY <2>1, <2>2, Zenon
<1>9. starter' = 0 => ~plan'.unlinked
  BY <1>1, <1>3
<1> QED BY <1>1, <1>6, <1>7, <1>8, <1>9, OutsideStep

LEMMA EnqueueSnapshotKeeps ==
  ASSUME CreationInv, EnqueueSnapshot
  PROVE  CreationInv'
<1>1. UNCHANGED <<starter, reply, known, attempts, issues, stamp, links, item, copies, messages,
                  threads, ops, handler, acts, faults, runs, heard, strays, kept>>
  BY DEF EnqueueSnapshot, intake, record, discord, outbox, bounds
<1>2. plan' = Nothing /\ hooks' = hooks \cup plan.events /\ plan'.events = {} /\ plan'.unlinked = FALSE
  BY DEF EnqueueSnapshot, Nothing
<1>3. inbox' = inbox \/ (plan.unlinked /\ inbox' = Append(inbox, "thread"))
  BY DEF EnqueueSnapshot
<1>4. inbox' \in Seq({"thread", "update", "reply"}) /\ (inbox # <<>> => inbox' # <<>>)
  BY <1>3, AppendInbox DEF CreationInv, TypeOK
<1>5. hooks' \subseteq Event /\ plan' \in Plan
  BY <1>2, NoneTypes DEF CreationInv, TypeOK, Plan
<1>6. past' \subseteq {"dead", "missed", "half", "late", "stale", "overtaken", "returned"}
  BY DEF EnqueueSnapshot, CreationInv, TypeOK
<1>7. TypeOK'
  BY <1>1, <1>4, <1>5, <1>6 DEF CreationInv, TypeOK
<1>8. Made' = Made
  BY <1>1 DEF Made
<1>9. starter' = 0 => starter = 0 /\ inbox' = inbox /\ threads' = threads
  BY <1>1, <1>3 DEF CreationInv, Begun
<1> QED BY <1>1, <1>2, <1>4, <1>7, <1>8, <1>9, OutsideStep
-----------------------------------------------------------------------------
(* The worker: the end of a handler.                                       *)

LEMMA IdleStep ==
  ASSUME CreationInv, handler' = Idle, UNCHANGED <<item, links, issues, starter, threads>>,
         plan'.events \subseteq plan.events, plan'.unlinked => plan.unlinked,
         TypeOK', hooks' \subseteq hooks,
         inbox = <<>> => inbox' = <<>>,
         ops = <<>> => ops' = <<>>,
         \A n \in 1..Len(ops') : \E m \in 1..Len(ops) :
           ops'[n].kind = ops[m].kind /\ ops'[n].issue = ops[m].issue
  PROVE  CreationInv'
<1>1. handler'.job = "none" /\ handler'.step = "none"
  BY IdleTypes
<1>2. Made' = Made /\ Linked' = Linked
  BY DEF Made, Linked
<1>3. ClaimsHeld' /\ BodiesAreTheRelays'
  BY <1>1 DEF CreationInv, ClaimsHeld, BodiesAreTheRelays
<1>4. RowsFit'
  BY <1>2 DEF CreationInv, RowsFit
<1>5. Begun' /\ Numbered'
  BY <1>2 DEF CreationInv, Begun, Numbered
<1>6. Creation'
  BY <1>1, <1>2 DEF CreationInv, Creation, CreateSteps
<1> QED BY <1>3, <1>4, <1>5, <1>6 DEF CreationInv

LEMMA SettleRowKeeps ==
  ASSUME CreationInv, SettleRow, handler # Idle, faults' \in 0..MaxFaults, strays' \in Nat,
         past' \subseteq {"dead", "missed", "half", "late", "stale", "overtaken", "returned"}
  PROVE  CreationInv'
<1>1. /\ UNCHANGED <<starter, reply, known, issues, stamp, plan, links, item, copies, messages, threads,
                     acts, runs, heard, kept>>
      /\ handler' = Idle
  BY DEF SettleRow, intake, record, discord
<1>2. inbox \in Seq({"thread", "update", "reply"}) /\ ops \in Seq(Operation)
      /\ attempts \in 0..(MaxAttempts - 1)
  BY DEF CreationInv, TypeOK
<1>3. /\ inbox' \in Seq({"thread", "update", "reply"}) /\ attempts' \in 0..(MaxAttempts - 1)
      /\ inbox = <<>> => inbox' = <<>>
  <2>1. CASE handler.job = "inbox"
    <3>1. inbox # <<>> /\ inbox' = Tail(inbox) /\ attempts' = 0
      BY <2>1 DEF CreationInv, ClaimsHeld, SettleRow
    <3> DEFINE S == {"thread", "update", "reply"}
    <3>2. Tail(inbox) \in Seq(S)
      <4>1. inbox \in Seq(S)
        BY <1>2
      <4> HIDE DEF S
      <4> QED BY <3>1, <4>1, TailTypes
    <3>3. 0 \in 0..(MaxAttempts - 1)
      OBVIOUS
    <3> QED BY <3>1, <3>2, <3>3
  <2>2. CASE handler.job # "inbox"
    BY <1>2, <2>2 DEF SettleRow
  <2> QED BY <2>1, <2>2
<1>4. hooks' \subseteq hooks /\ hooks' \subseteq Event
  BY DEF SettleRow, CreationInv, TypeOK
<1>5. /\ ops' \in Seq(Operation) /\ (ops = <<>> => ops' = <<>>)
      /\ \A n \in 1..Len(ops') : \E m \in 1..Len(ops) : ops'[n] = ops[m]
  <2>1. CASE handler.job = "operation"
    <3>1. handler.row \in 1..Len(ops) /\ ops' = RemoveAt(ops, handler.row) /\ ops # <<>>
      BY <2>1, EmptySeq DEF CreationInv, ClaimsHeld, SettleRow
    <3>2. RemoveAt(ops, handler.row) \in Seq(Operation)
      BY <1>2, <3>1, RemoveTypes
    <3>3. \A n \in 1..Len(RemoveAt(ops, handler.row)) :
            \E m \in 1..Len(ops) : RemoveAt(ops, handler.row)[n] = ops[m]
      <4>1. ops \in Seq(Operation)
        BY <1>2
      <4>2. handler.row \in 1..Len(ops)
        BY <3>1
      <4> QED BY <4>1, <4>2, RemoveKeeps
    <3> QED BY <3>1, <3>2, <3>3
  <2>2. CASE handler.job # "operation"
    BY <1>2, <2>2 DEF SettleRow
  <2> QED BY <2>1, <2>2
<1>6. TypeOK'
  BY <1>1, <1>3, <1>4, <1>5, IdleTypes DEF CreationInv, TypeOK
<1>7. \A n \in 1..Len(ops') : \E m \in 1..Len(ops) :
        ops'[n].kind = ops[m].kind /\ ops'[n].issue = ops[m].issue
  BY <1>5
<1> QED BY <1>1, <1>3, <1>4, <1>5, <1>6, <1>7, IdleStep

LEMMA StrayTypes ==
  ASSUME CreationInv, Stray
  PROVE  strays' \in Nat
<1>1. strays \in Nat /\ strays + 0 \in Nat /\ strays + 1 \in Nat
  BY DEF CreationInv, TypeOK
<1>2. strays' \in {strays + 0, strays + 1}
  BY DEF Stray
<1> QED BY <1>1, <1>2

LEMMA PastTypes ==
  ASSUME CreationInv
  PROVE  /\ past \cup {"dead"}
              \subseteq {"dead", "missed", "half", "late", "stale", "overtaken", "returned"}
         /\ past \cup Half
              \subseteq {"dead", "missed", "half", "late", "stale", "overtaken", "returned"}
BY DEF CreationInv, TypeOK, Half

LEMMA NextFault ==
  ASSUME CreationInv, faults < MaxFaults
  PROVE  faults + 1 \in 0..MaxFaults
BY DEF CreationInv, TypeOK

LEMMA FinishKeeps ==
  ASSUME CreationInv, Finish
  PROVE  CreationInv'
<1>1. handler # Idle
  BY IdleTypes DEF Finish
<1> QED BY <1>1, SettleRowKeeps DEF Finish, CreationInv, TypeOK

LEMMA PendKeeps ==
  ASSUME CreationInv, Pend
  PROVE  CreationInv'
<1>1. handler # Idle
  BY IdleTypes DEF Pend
<1>2. CASE attempts + 1 < MaxAttempts
  <2>1. /\ UNCHANGED <<starter, reply, known, inbox, issues, stamp, hooks, plan, links, item, copies,
                       messages, threads, ops, acts, faults, runs, heard, strays, kept, past>>
        /\ handler' = Idle /\ attempts' = attempts + 1
    BY <1>2 DEF Pend, intake, github, record, discord, outbox, bounds, history
  <2>2. attempts + 1 \in 0..(MaxAttempts - 1)
    BY <1>2 DEF CreationInv, TypeOK
  <2>3. TypeOK'
    BY <2>1, <2>2, IdleTypes DEF CreationInv, TypeOK
  <2> QED BY <2>1, <2>3, IdleStep
<1>3. CASE ~(attempts + 1 < MaxAttempts)
  <2>1. SettleRow /\ past' = past \cup {"dead"} /\ UNCHANGED <<faults, strays>>
    BY <1>3 DEF Pend
  <2>2. faults' \in 0..MaxFaults /\ strays' \in Nat
    BY <2>1 DEF CreationInv, TypeOK
  <2> QED BY <1>1, <2>1, <2>2, PastTypes, SettleRowKeeps
<1> QED BY <1>2, <1>3

LEMMA GiveUpKeeps ==
  ASSUME CreationInv, GiveUp
  PROVE  CreationInv'
<1>1. /\ handler # Idle /\ SettleRow /\ Stray /\ faults < MaxFaults /\ faults' = faults + 1
      /\ past' = past \cup {"dead"}
  BY DEF GiveUp
<1>2. faults' \in 0..MaxFaults /\ strays' \in Nat
  BY <1>1, NextFault, StrayTypes
<1> QED BY <1>1, <1>2, PastTypes, SettleRowKeeps

\* A row that waits is the same row.
LEMMA DueTypes ==
  ASSUME NEW seq \in Seq(Operation), NEW n \in 1..Len(seq)
  PROVE  \A due \in BOOLEAN :
         /\ [seq EXCEPT ![n].due = due] \in Seq(Operation)
         /\ Len([seq EXCEPT ![n].due = due]) = Len(seq)
         /\ \A m \in 1..Len(seq) : /\ [seq EXCEPT ![n].due = due][m].kind = seq[m].kind
                                   /\ [seq EXCEPT ![n].due = due][m].issue = seq[m].issue
<1> TAKE due \in BOOLEAN
<1>1. \A m \in 1..Len(seq) : seq[m] \in Operation
  BY ElementOfSeq
<1> DEFINE op == [seq[n] EXCEPT !.due = due]
<1>2. op \in Operation /\ op.kind = seq[n].kind /\ op.issue = seq[n].issue
  BY <1>1 DEF Operation
<1>3. [seq EXCEPT ![n].due = due] = [seq EXCEPT ![n] = op]
  OBVIOUS
<1> HIDE DEF op
<1>4. /\ [seq EXCEPT ![n] = op] \in Seq(Operation) /\ Len([seq EXCEPT ![n] = op]) = Len(seq)
      /\ \A m \in 1..Len(seq) : [seq EXCEPT ![n] = op][m] = IF m = n THEN op ELSE seq[m]
  BY <1>2, ExceptSeq
<1> QED BY <1>2, <1>3, <1>4

LEMMA InterruptKeeps ==
  ASSUME CreationInv, Interrupt
  PROVE  CreationInv'
<1>1. /\ UNCHANGED <<starter, reply, inbox, attempts, issues, stamp, hooks, links, item, copies,
                     messages, threads, acts, runs, heard, kept>>
      /\ handler' = Idle /\ faults < MaxFaults /\ faults' = faults + 1 /\ Stray
      /\ past' = past \cup Half
  BY DEF Interrupt, arrived, github, record, discord
<1>2. /\ ops' \in Seq(Operation) /\ Len(ops') = Len(ops)
      /\ \A n \in 1..Len(ops) : ops'[n].kind = ops[n].kind /\ ops'[n].issue = ops[n].issue
  <2>1. CASE handler.job = "operation"
    <3>1. handler.row \in 1..Len(ops) /\ ops \in Seq(Operation) /\ FALSE \in BOOLEAN
          /\ ops' = [ops EXCEPT ![handler.row].due = FALSE]
      BY <2>1 DEF CreationInv, ClaimsHeld, TypeOK, Interrupt
    <3>2. /\ [ops EXCEPT ![handler.row].due = FALSE] \in Seq(Operation)
          /\ Len([ops EXCEPT ![handler.row].due = FALSE]) = Len(ops)
          /\ \A m \in 1..Len(ops) :
               /\ [ops EXCEPT ![handler.row].due = FALSE][m].kind = ops[m].kind
               /\ [ops EXCEPT ![handler.row].due = FALSE][m].issue = ops[m].issue
      BY <3>1, DueTypes, Zenon
    <3> QED BY <3>1, <3>2
  <2>2. CASE handler.job # "operation"
    BY <2>2 DEF Interrupt, CreationInv, TypeOK
  <2> QED BY <2>1, <2>2
<1>3. known' \in BOOLEAN
  BY Zenon DEF Interrupt, CreationInv, TypeOK
<1>4. plan' \in {plan, Nothing}
  BY DEF Interrupt
<1>5. plan' \in Plan /\ plan'.events \subseteq plan.events /\ (plan'.unlinked => plan.unlinked)
  <2>1. Nothing \in Plan /\ Nothing.events = {} /\ ~Nothing.unlinked
    BY NoneTypes DEF Nothing
  <2>2. CASE plan' = plan
    BY <2>2 DEF CreationInv, TypeOK
  <2>3. CASE plan' = Nothing
    BY <2>1, <2>3
  <2> QED BY <1>4, <2>2, <2>3
<1>6. TypeOK'
  BY <1>1, <1>2, <1>3, <1>5, IdleTypes, NextFault, StrayTypes, PastTypes DEF CreationInv, TypeOK
<1>7. ops = <<>> => ops' = <<>>
  <2>1. Len(<<>>) = 0
    BY EmptySeq
  <2>2. ops' # <<>> => Len(ops') # 0
    BY <1>2, EmptySeq
  <2> QED BY <2>1, <2>2, <1>2
<1>8. \A n \in 1..Len(ops') : \E m \in 1..Len(ops) :
        ops'[n].kind = ops[m].kind /\ ops'[n].issue = ops[m].issue
  BY <1>2
<1> QED BY <1>1, <1>5, <1>6, <1>7, <1>8, IdleStep

LEMMA BackoffKeeps ==
  ASSUME CreationInv, Backoff
  PROVE  CreationInv'
<1>1. UNCHANGED <<starter, reply, known, inbox, attempts, issues, stamp, hooks, plan, links, item, copies,
                  messages, threads, handler, acts, faults, runs, heard, strays, kept, past>>
  BY DEF Backoff, intake, arrived, github, record, discord, bounds, history
<1>2. PICK n \in 1..Len(ops) : ops' = [ops EXCEPT ![n].due = TRUE]
  BY DEF Backoff
<1>3. /\ ops' \in Seq(Operation) /\ Len(ops') = Len(ops)
      /\ \A m \in 1..Len(ops) : ops'[m].kind = ops[m].kind /\ ops'[m].issue = ops[m].issue
  <2>1. ops \in Seq(Operation) /\ TRUE \in BOOLEAN
    BY DEF CreationInv, TypeOK
  <2>2. /\ [ops EXCEPT ![n].due = TRUE] \in Seq(Operation)
        /\ Len([ops EXCEPT ![n].due = TRUE]) = Len(ops)
        /\ \A m \in 1..Len(ops) : /\ [ops EXCEPT ![n].due = TRUE][m].kind = ops[m].kind
                                  /\ [ops EXCEPT ![n].due = TRUE][m].issue = ops[m].issue
    BY <2>1, DueTypes, Zenon
  <2> QED BY <1>2, <2>2
<1>4. TypeOK'
  BY <1>1, <1>3 DEF CreationInv, TypeOK
<1>5. Made' = Made /\ Linked' = Linked
  BY <1>1 DEF Made, Linked
<1>6. ClaimsHeld'
  BY <1>1, <1>3 DEF CreationInv, ClaimsHeld
<1>7. RowsFit'
  BY <1>1, <1>3, <1>5 DEF CreationInv, RowsFit
<1>8. Begun' /\ Numbered'
  <2>1. starter # 0
    <3>1. ops # <<>>
      BY <1>2, EmptySeq
    <3> QED BY <3>1 DEF CreationInv, Begun
  <2> QED BY <1>1, <1>5, <2>1 DEF CreationInv, Begun, Numbered
<1>9. Creation' /\ BodiesAreTheRelays'
  BY <1>1, <1>5 DEF CreationInv, Creation, BodiesAreTheRelays
<1> QED BY <1>4, <1>6, <1>7, <1>8, <1>9 DEF CreationInv

-----------------------------------------------------------------------------
(* The worker: claims.                                                     *)

\* The new handler fits its row, and is at none of the steps that ask for more.
LEMMA ClaimStep ==
  ASSUME CreationInv, ClaimOnly, handler' \in Handler, ClaimsHeld',
         past' \subseteq {"dead", "missed", "half", "late", "stale", "overtaken", "returned"},
         handler'.step \notin CreateSteps \ {"issue"}, handler'.step # "join",
         handler'.step = "issue" => ~Linked,
         handler'.step = "thread" => links[handler'.issue] = NoThread,
         handler'.step \in {"issue", "read", "write", "save"} =>
           handler'.body \in Body /\ handler'.body.by = "relay"
  PROVE  CreationInv'
<1>1. UNCHANGED <<starter, reply, known, inbox, attempts, issues, stamp, hooks, plan, links, item, copies,
                  messages, threads, ops, acts, faults, runs, heard, strays, kept>>
  BY DEF ClaimOnly, WorkerOnly, intake, arrived, github, record, discord, outbox, bounds
<1>2. TypeOK'
  BY <1>1 DEF CreationInv, TypeOK
<1>3. Made' = Made /\ Linked' = Linked
  BY <1>1 DEF Made, Linked
<1>4. RowsFit' /\ Begun' /\ Numbered'
  BY <1>1, <1>3 DEF CreationInv, RowsFit, Begun, Numbered
<1>5. BodiesAreTheRelays'
  BY <1>1 DEF CreationInv, BodiesAreTheRelays, CreateSteps
<1>6. ~Linked => item.issue = NoIssue
  BY DEF CreationInv, Creation, Linked, Made
<1>7. Creation'
  BY <1>1, <1>3, <1>6 DEF CreationInv, Creation, CreateSteps
<1> QED BY <1>2, <1>4, <1>5, <1>7 DEF CreationInv

LEMMA ClaimInboxKeeps ==
  ASSUME CreationInv, ClaimInbox
  PROVE  CreationInv'
<1> DEFINE step == handler'.step
<1>1. Head(inbox) \in {"thread", "update", "reply"} /\ inbox # <<>>
  <2> DEFINE S == {"thread", "update", "reply"}
  <2>1. inbox \in Seq(S) /\ inbox # <<>>
    BY DEF ClaimInbox, CreationInv, TypeOK
  <2>2. Head(inbox) \in S
    <3> HIDE DEF S
    <3> QED BY <2>1, HeadTailProperties
  <2> QED BY <2>1, <2>2
<1>2. handler' \in Handler /\ handler'.job = "inbox" /\ handler'.step \in InboxSteps
  <2>1. PICK s \in InboxSteps : handler' = [Idle EXCEPT !.job = "inbox", !.step = s]
    BY <1>1 DEF ClaimInbox, InboxSteps
  <2>2. [Idle EXCEPT !.job = "inbox", !.step = s] \in Handler
    BY IdleTypes DEF Handler, InboxSteps
  <2>3. [Idle EXCEPT !.job = "inbox", !.step = s].job = "inbox"
        /\ [Idle EXCEPT !.job = "inbox", !.step = s].step = s
    BY DEF Idle
  <2> QED BY <2>1, <2>2, <2>3
<1>3. ClaimOnly /\ past' = past /\ inbox' = inbox
  BY DEF ClaimInbox, ClaimOnly, arrived
<1>4. ClaimsHeld'
  BY <1>1, <1>2, <1>3 DEF ClaimsHeld
<1>5. past' \subseteq {"dead", "missed", "half", "late", "stale", "overtaken", "returned"}
  BY <1>3 DEF CreationInv, TypeOK
<1>6. handler'.step \notin CreateSteps /\ handler'.step \notin {"join", "thread", "read", "write", "save"}
  BY <1>2 DEF InboxSteps, CreateSteps
<1> QED BY <1>2, <1>3, <1>4, <1>5, <1>6, ClaimStep DEF CreateSteps

LEMMA ClaimEventKeeps ==
  ASSUME CreationInv, ClaimEvent
  PROVE  CreationInv'
<1>1. PICK event \in hooks :
        handler' = [Idle EXCEPT !.job = "event", !.event = event, !.issue = event.issue, !.step = "link"]
  BY DEF ClaimEvent
<1>2. event \in Event /\ event.issue \in 0..MaxIssues
  BY DEF CreationInv, TypeOK, Event
<1>3. /\ handler' \in Handler /\ handler'.job = "event" /\ handler'.step = "link"
      /\ handler'.event = event /\ handler'.issue = event.issue
  <2> DEFINE new == [Idle EXCEPT !.job = "event", !.event = event, !.issue = event.issue,
                                 !.step = "link"]
  <2>1. new \in Handler
    BY <1>2, IdleTypes DEF Handler
  <2>2. new.job = "event" /\ new.step = "link" /\ new.event = event /\ new.issue = event.issue
    BY DEF Idle
  <2> QED BY <1>1, <2>1, <2>2
<1>4. ClaimOnly /\ past' = past /\ hooks' = hooks
  BY DEF ClaimEvent, ClaimOnly, github
<1>5. ClaimsHeld'
  BY <1>3, <1>4 DEF ClaimsHeld, EventSteps
<1>6. past' \subseteq {"dead", "missed", "half", "late", "stale", "overtaken", "returned"}
  BY <1>4 DEF CreationInv, TypeOK
<1> QED BY <1>3, <1>4, <1>5, <1>6, ClaimStep DEF CreateSteps

LEMMA ClaimOperationKeeps ==
  ASSUME CreationInv, ClaimOperation
  PROVE  CreationInv'
<1>1. PICK n \in 1..Len(ops) :
        /\ handler' = [Idle EXCEPT !.job = "operation", !.row = n, !.issue = ops[n].issue,
                         !.text = ops[n].text, !.body = Rendered(ops[n]),
                         !.message = IF ops[n].kind \in {"post", "erase"}
                                     THEN copies[ops[n].issue].message ELSE NoMessage,
                         !.step = FirstStep(ops[n])]
        /\ past' = IF \E m \in 1..(n - 1) : Crossing(ops[m], ops[n])
                   THEN past \cup {"overtaken"} ELSE past
  BY DEF ClaimOperation
<1>2. ops[n] \in Operation /\ n \in Nat
  <2>1. ops \in Seq(Operation)
    BY DEF CreationInv, TypeOK
  <2> QED BY <2>1, ElementOfSeq
<1> DEFINE op == ops[n]
           message == IF op.kind \in {"post", "erase"} THEN copies[op.issue].message ELSE NoMessage
<1>3. op.kind \in {"create", "upload", "body", "post", "erase"}
      /\ op.issue \in 0..MaxIssues /\ op.text \in 0..MaxText
  BY <1>2 DEF Operation
<1>4. op.kind \in {"post", "erase"} => copies[op.issue] \in Copy
  BY DEF CreationInv, RowsFit, Made, TypeOK
<1>5. message \in Nat
  BY <1>4 DEF Copy, NoMessage
<1>6. Rendered(op) \in Body \cup {NoBody}
      /\ (op.kind \in {"create", "body"} => Rendered(op) \in Body /\ Rendered(op).by = "relay")
  <2>1. item.text \in 0..MaxText
    BY DEF CreationInv, TypeOK, Item
  <2>2. CASE op.kind \in {"create", "body"}
    <3>1. PICK text \in 0..MaxText, media \in {"none", item.media} : Rendered(op) = Rendering(text, media)
      BY <1>3, <2>1, <2>2 DEF Rendered
    <3> QED BY <3>1, RenderingTypes
  <2>3. CASE op.kind \notin {"create", "body"}
    BY <1>3, <1>4, <2>3 DEF Rendered, Copy
  <2> QED BY <2>2, <2>3
<1>7. /\ FirstStep(op) \in StepsOf(op.kind)
      /\ FirstStep(op) \notin (CreateSteps \ {"issue"}) \cup {"join", "write", "save"}
      /\ FirstStep(op) = "issue" => ~Linked /\ op.kind = "create"
      /\ FirstStep(op) = "read" => op.kind = "body"
      /\ FirstStep(op) = "thread" => links[op.issue] = NoThread
      /\ FirstStep(op) \in Step
  BY <1>3 DEF FirstStep, FirstStepOfAll, StepsOf, CreateSteps, Step
<1>8. handler' = [Idle EXCEPT !.job = "operation", !.row = n, !.issue = op.issue,
                    !.text = op.text, !.body = Rendered(op), !.message = message,
                    !.step = FirstStep(op)]
  BY <1>1
<1> HIDE DEF op, message
<1>9. /\ handler' \in Handler /\ handler'.job = "operation" /\ handler'.row = n
      /\ handler'.step = FirstStep(op) /\ handler'.issue = op.issue /\ handler'.body = Rendered(op)
  BY <1>2, <1>3, <1>5, <1>6, <1>7, <1>8, NoneTypes DEF Idle, Handler, Step
<1>10. ClaimOnly /\ ops' = ops
  BY DEF ClaimOperation, ClaimOnly, outbox
<1>11. ClaimsHeld'
  BY <1>7, <1>9, <1>10 DEF ClaimsHeld, op
<1>12. past' \subseteq {"dead", "missed", "half", "late", "stale", "overtaken", "returned"}
  BY <1>1 DEF CreationInv, TypeOK
<1> QED BY <1>6, <1>7, <1>9, <1>10, <1>11, <1>12, ClaimStep

LEMMA CreationStep == CreationInv /\ [Next]_vars => CreationInv'
<1> SUFFICES ASSUME CreationInv, [Next]_vars PROVE CreationInv'
  OBVIOUS
<1>1. CASE UNCHANGED vars
  <2>1. TypeOK' /\ Made' = Made /\ hooks' = hooks /\ plan' = plan
        /\ UNCHANGED <<handler, item, links, ops, inbox, starter, threads>>
    BY <1>1 DEF vars, CreationInv, TypeOK, Made
  <2> QED BY <2>1, OutsideStep
<1>2. CASE Work
  BY <1>2, EnqueueSnapshotKeeps, ClaimInboxKeeps, ClaimEventKeeps, ClaimOperationKeeps, FinishKeeps,
     PendKeeps, BackoffKeeps, EnqueueCreateKeeps, RelayReplyKeeps, CreateIssueKeeps,
     createDiscordOriginLinkKeeps, UpsertStarterKeeps, SetDestinationKeeps, SetRenderHashKeeps,
     UpsertAttachmentKeeps, EnqueueUploadKeeps, EnqueueSyncKeeps, CompleteAttachmentKeeps,
     EnqueueResyncKeeps, ReadBodyKeeps, WriteBodyKeeps, SaveHashKeeps, EnsureLinkKeeps, HearKeeps,
     CopiesKeep, EnqueuePostKeeps, PostsKeep, attachDiscordThreadKeeps, ShowKeeps DEF Work
<1>3. CASE Next /\ ~Work
  BY <1>3, IntakeKeeps, UsersKeep, ReadInventoryKeeps, InterruptKeeps, GiveUpKeeps DEF Next
<1> QED BY <1>1, <1>2, <1>3

\* Every table, row and handler of the creation keeps its type, a handler runs on a row that is
\* there, and what is enqueued, linked or recorded is about an issue that has been made.
THEOREM CreationIsTyped == Spec => []TypeOK
<1>1. CreationInv => TypeOK
  BY DEF CreationInv
<1> QED BY <1>1, InitCreation, CreationStep, PTL DEF Spec
-----------------------------------------------------------------------------
(* A body of a user's that the relay can tell from its own stays.          *)

\* While it does, no handler is about to overwrite it.
KeptInv ==
  kept => /\ item.issue # NoIssue /\ item.hash # NoBody /\ handler.step # "write"
          /\ issues[item.issue] = Users

\* A step that has nothing to do with the body.
Quiet == UNCHANGED <<issues, item, kept>> /\ (handler' = handler \/ handler'.step # "write")

LEMMA WorkerIsQuiet ==
  ASSUME CreationInv,
         \/ ClaimInbox \/ ClaimEvent \/ ClaimOperation \/ Finish \/ Pend \/ Backoff \/ Interrupt \/ GiveUp
  PROVE  Quiet
<1>1. Idle.step # "write"
  BY IdleTypes
<1>2. CASE ClaimInbox
  <2>1. handler'.job = "inbox" /\ UNCHANGED <<issues, item, kept>>
    BY <1>2 DEF ClaimInbox, ClaimOnly, github, record, Idle
  <2>2. handler'.step \in InboxSteps
    BY <1>2, <2>1, ClaimInboxKeeps DEF CreationInv, ClaimsHeld
  <2> QED BY <2>1, <2>2 DEF Quiet, InboxSteps
<1>3. CASE ClaimEvent \/ ClaimOperation
  <2>1. \A op \in Operation : FirstStep(op) # "write"
    BY DEF FirstStep, FirstStepOfAll, Operation
  <2>2. UNCHANGED <<issues, item, kept>>
    BY <1>3 DEF ClaimEvent, ClaimOperation, ClaimOnly, github, record
  <2>3. handler'.step = "link" \/ \E n \in 1..Len(ops) : handler'.step = FirstStep(ops[n])
    BY <1>3 DEF ClaimEvent, ClaimOperation, Idle
  <2>4. \A n \in 1..Len(ops) : ops[n] \in Operation
    BY ElementOfSeq DEF CreationInv, TypeOK
  <2> QED BY <2>1, <2>2, <2>3, <2>4 DEF Quiet
<1>4. CASE Finish \/ GiveUp \/ Pend
  BY <1>1, <1>4 DEF Finish, GiveUp, Pend, SettleRow, Quiet, github, record, history
<1>5. CASE Backoff \/ Interrupt
  BY <1>1, <1>5 DEF Backoff, Interrupt, Quiet, github, record, history
<1> QED BY <1>2, <1>3, <1>4, <1>5

LEMMA OthersAreQuiet ==
  ASSUME \/ \E seen \in BOOLEAN : OpenThread(seen)
         \/ EditStarter \/ PostReply \/ TouchThread \/ ReadInventory \/ EnqueueSnapshot
         \/ EnqueueCreate \/ RelayReply \/ createDiscordOriginLink \/ EnqueueUpload \/ EnqueueSync
         \/ EnqueueResync \/ EnsureLink \/ Hear \/ UpsertCopy \/ EnqueuePost \/ CreateThread
         \/ attachDiscordThread \/ CreateMessage \/ EditMessage \/ ReplaceSegments \/ DeleteMessage
         \/ MarkDeleted,
         handler \in Handler
  PROVE  Quiet
<1>1. CASE (\E seen \in BOOLEAN : OpenThread(seen)) \/ EditStarter \/ PostReply \/ TouchThread
  BY <1>1 DEF OpenThread, EditStarter, PostReply, TouchThread, OutsideDiscord, Quiet, github, record
<1>2. CASE ReadInventory \/ EnqueueSnapshot
  BY <1>2 DEF ReadInventory, EnqueueSnapshot, Quiet, github, record, history
<1>3. CASE EnqueueCreate \/ EnqueueUpload \/ EnqueueSync \/ EnqueueResync \/ EnqueuePost
  BY <1>3 DEF EnqueueCreate, EnqueueUpload, EnqueueSync, EnqueueResync, EnqueuePost, Enqueue, Goto, Handler,
     Quiet, github, record, history
<1>4. CASE RelayReply \/ createDiscordOriginLink \/ EnsureLink \/ attachDiscordThread
  BY <1>4 DEF RelayReply, createDiscordOriginLink, EnsureLink, attachDiscordThread, Goto, Handler, Quiet,
     github, record, history
<1>5. CASE Hear
  BY <1>5 DEF Hear, Heard, Enqueue, Goto, Handler, Quiet, github, record
<1>6. CASE UpsertCopy \/ ReplaceSegments \/ MarkDeleted
  BY <1>6 DEF UpsertCopy, ReplaceSegments, MarkDeleted, OnlyCopy, Goto, Handler, Quiet, github, history
<1>7. CASE CreateThread \/ CreateMessage \/ EditMessage \/ DeleteMessage
  BY <1>7 DEF CreateThread, CreateMessage, EditMessage, DeleteMessage, Post, Goto, Handler, Quiet,
     github, record, history
<1> QED BY <1>1, <1>2, <1>3, <1>4, <1>5, <1>6, <1>7

LEMMA QuietKeeps ==
  ASSUME KeptInv, Quiet
  PROVE  KeptInv'
BY DEF KeptInv, Quiet

LEMMA UserWritesKept ==
  ASSUME CreationInv, KeptInv, NEW i \in Issue, NEW body \in Body, UserWrites(i, body)
  PROVE  KeptInv'
<1>1. /\ UNCHANGED <<item, handler>> /\ i \in Made
      /\ issues' = [issues EXCEPT ![i] = body]
  BY DEF UserWrites, Announce, record
<1>2. issues \in [Issue -> Body \cup {NoBody}]
  BY DEF CreationInv, TypeOK
<1>3. CASE i = item.issue
  <2>1. kept' => body = Users /\ handler.step # "write" /\ item.hash # NoBody
    BY <1>3, Zenon DEF UserWrites
  <2>2. i # NoIssue
    BY DEF Issue, NoIssue
  <2> QED BY <1>1, <1>2, <1>3, <2>1, <2>2 DEF KeptInv
<1>4. CASE i # item.issue
  <2>1. kept' = kept
    BY <1>4 DEF UserWrites
  <2> QED BY <1>1, <1>2, <1>4, <2>1 DEF KeptInv
<1> QED BY <1>3, <1>4

LEMMA UsersKeptStep ==
  ASSUME CreationInv, KeptInv, UserEdits \/ UserReverts
  PROVE  KeptInv'
<1>1. CASE UserEdits
  BY <1>1, UserWritesKept, NoneTypes DEF UserEdits
<1>2. CASE UserReverts
  <2>1. item.hash \in Body /\ item.issue \in Issue /\ UserWrites(item.issue, item.hash)
    BY <1>2 DEF UserReverts, UserWrites, Made, CreationInv, TypeOK, Item
  <2> QED BY <2>1, UserWritesKept
<1> QED BY <1>1, <1>2

\* The hash the relay compares is never that of a user's body.
LEMMA ReadBodyKept ==
  ASSUME CreationInv, KeptInv, ReadBody
  PROVE  KeptInv'
<1>1. handler.step = "read" /\ handler.issue = item.issue
  <2>1. handler.step = "read" /\ handler.job = "operation" /\ ops[handler.row].kind = "body"
    BY RowOfStep DEF ReadBody, StepsOf
  <2> QED BY <2>1 DEF CreationInv, ClaimsHeld, RowsFit
<1>2. UNCHANGED <<issues, kept>> /\ item'.issue = item.issue /\ item'.hash = item.hash
  BY DEF ReadBody, OnlyItem, github, history, CreationInv, TypeOK, Item
<1>3. handler'.step = "write" => item.hash \in {NoBody, issues[handler.issue]}
  BY DEF ReadBody, Goto, CreationInv, TypeOK, Handler
<1>4. kept => handler'.step # "write"
  <2>1. item.hash # NoBody => item.hash # Users
    BY DEF CreationInv, BodiesAreTheRelays, Users
  <2> QED BY <1>1, <1>3, <2>1 DEF KeptInv
<1> QED BY <1>2, <1>4 DEF KeptInv

LEMMA StarterKept ==
  ASSUME CreationInv, KeptInv,
         UpsertStarter \/ SetDestination \/ SetRenderHash \/ UpsertAttachment \/ CompleteAttachment
           \/ SaveHash
  PROVE  KeptInv'
<1>1. UNCHANGED <<issues, kept>> /\ handler'.step # "write"
  BY DEF UpsertStarter, SetDestination, SetRenderHash, UpsertAttachment, CompleteAttachment, SaveHash,
     OnlyItem, Goto, github, history, CreationInv, TypeOK, Handler
<1>2. CASE UpsertStarter
  BY <1>1, <1>2 DEF UpsertStarter, CreationInv, Creation, KeptInv
<1>3. CASE SetDestination \/ UpsertAttachment \/ CompleteAttachment
  <2>1. item'.issue = item.issue /\ item'.hash = item.hash
    BY <1>3 DEF SetDestination, UpsertAttachment, CompleteAttachment, OnlyItem, CreationInv, TypeOK, Item
  <2> QED BY <1>1, <2>1 DEF KeptInv
<1>4. CASE SetRenderHash \/ SaveHash
  <2>1. handler.body # NoBody
    BY <1>4, BodyIsNotNoBody DEF SetRenderHash, SaveHash, CreationInv, BodiesAreTheRelays
  <2>2. item'.issue = item.issue /\ item'.hash = handler.body
    BY <1>4 DEF SetRenderHash, SaveHash, OnlyItem, CreationInv, TypeOK, Item
  <2> QED BY <1>1, <2>1, <2>2 DEF KeptInv
<1> QED BY <1>2, <1>3, <1>4

\* Nobody can have written a body that is not there yet, or that is being overwritten.
LEMMA WriteKept ==
  ASSUME CreationInv, KeptInv, CreateIssue \/ WriteBody
  PROVE  KeptInv'
<1>1. ~kept
  BY DEF CreateIssue, WriteBody, CreationInv, Creation, KeptInv
<1>2. kept' = kept
  BY DEF CreateIssue, WriteBody, history
<1> QED BY <1>1, <1>2 DEF KeptInv

LEMMA KeptStep == CreationInv /\ KeptInv /\ [Next]_vars => KeptInv'
<1> SUFFICES ASSUME CreationInv, KeptInv, [Next]_vars PROVE KeptInv'
  OBVIOUS
<1>1. handler \in Handler
  BY DEF CreationInv, TypeOK
<1>2. CASE UNCHANGED vars
  BY <1>2 DEF vars, KeptInv
<1>3. CASE Work
  BY <1>1, <1>3, WorkerIsQuiet, OthersAreQuiet, QuietKeeps, ReadBodyKept, StarterKept, WriteKept DEF Work
<1>4. CASE Next /\ ~Work
  BY <1>1, <1>4, WorkerIsQuiet, OthersAreQuiet, QuietKeeps, UsersKeptStep DEF Next
<1> QED BY <1>2, <1>3, <1>4

\* A body a user has written stays, as long as no handler had read the one before and the relay
\* knows the hash of its own: a sync then reads the user's body, and records a conflict
\* (decideDiscordEdit).
THEOREM UserBodiesStay == Spec => []UserBodyStays
<1>1. Init => KeptInv
  BY DEF Init, KeptInv
<1>2. KeptInv => UserBodyStays
  BY DEF KeptInv, UserBodyStays
<1> QED BY <1>1, <1>2, InitCreation, CreationStep, KeptStep, PTL DEF Spec
-----------------------------------------------------------------------------
(* Duplicates are paid for.                                                *)

Attached == {i \in Issue : links[i] \notin {NoLink, NoThread}}
Making   == IF handler.step \in {"connect", "join"} THEN 1 ELSE 0
Opened   == IF starter = 0 THEN 0 ELSE 1

\* An issue beyond the first is linked to another thread than the person's or has lost its
\* handler, and so has a thread that is attached to no issue.
Counted ==
  /\ Cardinality(Made) <= strays + (IF Linked \/ handler.step = "connect" THEN 1 ELSE 0)
  /\ Cardinality(Made) + threads <= strays + Cardinality(Attached) + Making + Opened
  /\ starter # 0 => threads # 0

LEMMA OneMore ==
  ASSUME NEW S, IsFiniteSet(S), NEW x, x \notin S
  PROVE  /\ IsFiniteSet(S \cup {x}) /\ Cardinality(S) \in Nat
         /\ Cardinality(S \cup {x}) = Cardinality(S) + 1
BY FS_AddElement, FS_CardinalityType

LEMMA AttachedIsMade ==
  ASSUME CreationInv
  PROVE  /\ Attached \subseteq Made /\ IsFiniteSet(Attached) /\ Cardinality(Attached) \in Nat
         /\ Cardinality(Attached) <= Cardinality(Made) /\ Cardinality(Made) \in Nat
<1>1. Attached \subseteq Made
  BY DEF CreationInv, Creation, Attached
<1> QED BY <1>1, MadeIsFinite, FS_Subset, FS_CardinalityType

LEMMA CountTypes ==
  ASSUME CreationInv
  PROVE  strays \in Nat /\ threads \in Nat /\ Making \in {0, 1} /\ Opened \in {0, 1}
BY DEF CreationInv, TypeOK, Making, Opened

\* The step creates nothing, and leaves no creation half done.
Idles ==
  /\ Made' = Made /\ UNCHANGED <<links, threads, strays>> /\ (starter' = 0 <=> starter = 0)
  /\ \/ handler.step \notin {"connect", "join"} /\ handler'.step \notin {"connect", "join"}
     \/ handler' = handler

LEMMA IdlesKeeps ==
  ASSUME Counted, Idles
  PROVE  Counted'
<1>1. Made' = Made /\ Attached' = Attached /\ Linked' = Linked /\ Making' = Making
      /\ Opened' = Opened /\ UNCHANGED <<threads, strays>> /\ (starter' = 0 <=> starter = 0)
      /\ (handler'.step = "connect" <=> handler.step = "connect")
  BY DEF Idles, Attached, Linked, Making, Opened
<1> QED BY <1>1 DEF Counted

LEMMA OpenThreadCounts ==
  ASSUME CreationInv, Counted, NEW seen \in BOOLEAN, OpenThread(seen)
  PROVE  Counted'
<1>1. starter = 0 /\ threads = 0 /\ Made = {} /\ starter' = 1 /\ threads' = 1
  BY DEF OpenThread, CreationInv, Begun
<1>2. UNCHANGED <<issues, links, handler, strays>>
  BY DEF OpenThread, OutsideDiscord, github, record
<1>3. Made' = Made /\ Attached' = Attached /\ Linked' = Linked /\ Making' = Making
      /\ Opened' = 1 /\ Opened = 0
  BY <1>1, <1>2 DEF Made, Attached, Linked, Making, Opened
<1> QED BY <1>1, <1>2, <1>3, AttachedIsMade, CountTypes DEF Counted

LEMMA CreateIssueCounts ==
  ASSUME CreationInv, Counted, CreateIssue
  PROVE  Counted'
<1>1. /\ handler.step = "issue" /\ handler'.step = "connect" /\ ~Linked
      /\ UNCHANGED <<links, threads, strays, starter>>
  BY DEF CreateIssue, WorkerOnly, record, discord, history, intake, CreationInv, Creation, TypeOK, Handler
<1>2. PICK i \in Issue \ Made : Made' = Made \cup {i}
  <2> DEFINE i == Cardinality(Made) + 1
  <2>1. i \in Issue \ Made /\ Announce(i, "opened", handler.body, TRUE)
    <3>1. i \notin Made
      BY MadeIsFinite
    <3>2. i \in Issue /\ Announce(i, "opened", handler.body, TRUE)
      BY DEF CreateIssue
    <3> QED BY <3>1, <3>2
  <2>2. handler.body # NoBody /\ issues \in [Issue -> Body \cup {NoBody}]
    BY <1>1, BodyIsNotNoBody DEF CreationInv, BodiesAreTheRelays, TypeOK
  <2>3. issues' = [issues EXCEPT ![i] = handler.body]
    BY <2>1 DEF Announce
  <2> HIDE DEF i
  <2>4. Made' = Made \cup {i}
    BY <2>1, <2>2, <2>3 DEF Made
  <2> QED BY <2>1, <2>4
<1>3. Cardinality(Made') = Cardinality(Made) + 1
  BY <1>2, MadeIsFinite, OneMore
<1>4. Attached' = Attached /\ Making = 0 /\ Making' = 1 /\ Opened' = Opened
  BY <1>1 DEF Attached, Making, Opened
<1> QED BY <1>1, <1>3, <1>4, AttachedIsMade, CountTypes DEF Counted
LEMMA createDiscordOriginLinkCounts ==
  ASSUME CreationInv, Counted, createDiscordOriginLink
  PROVE  Counted'
<1>1. /\ handler.step = "connect" /\ handler'.step = "starter" /\ ~Linked
      /\ handler.issue \in Made /\ links[handler.issue] = NoLink
      /\ links' = [links EXCEPT ![handler.issue] = Person]
      /\ UNCHANGED <<issues, threads, strays, starter>>
  BY DEF createDiscordOriginLink, Goto, WorkerOnly, github, discord, history, intake, CreationInv, Creation,
     CreateSteps, TypeOK, Handler
<1>2. Made' = Made /\ Linked' /\ Attached' = Attached \cup {handler.issue}
      /\ handler.issue \notin Attached
  BY <1>1 DEF Made, Linked, Attached, CreationInv, TypeOK, NoLink, NoThread, Person
<1>3. Cardinality(Attached') = Cardinality(Attached) + 1
  BY <1>2, AttachedIsMade, OneMore
<1>4. Making = 1 /\ Making' = 0 /\ Opened' = Opened
  BY <1>1 DEF Making, Opened
<1> QED BY <1>1, <1>2, <1>3, <1>4, AttachedIsMade, CountTypes DEF Counted

LEMMA CreateThreadCounts ==
  ASSUME CreationInv, Counted, CreateThread
  PROVE  Counted'
<1>1. /\ handler.step = "thread" /\ handler'.step = "join" /\ threads' = threads + 1
      /\ UNCHANGED <<issues, links, strays, starter>>
  BY DEF CreateThread, Post, WorkerOnly, github, record, history, intake, CreationInv, TypeOK, Handler
<1>2. Made' = Made /\ Linked' = Linked /\ Attached' = Attached /\ Making = 0 /\ Making' = 1
      /\ Opened' = Opened
  BY <1>1 DEF Made, Linked, Attached, Making, Opened
<1> QED BY <1>1, <1>2, AttachedIsMade, CountTypes DEF Counted

LEMMA attachDiscordThreadCounts ==
  ASSUME CreationInv, Counted, attachDiscordThread
  PROVE  Counted'
<1>1. handler.step = "join" /\ handler'.step = "segments"
      /\ UNCHANGED <<issues, threads, strays, starter>>
      /\ links' = [links EXCEPT ![handler.issue] = threads]
  BY DEF attachDiscordThread, Goto, WorkerOnly, github, discord, history, intake, CreationInv, TypeOK, Handler
<1>2. handler.issue \in Issue /\ links[handler.issue] = NoThread /\ starter # 0
  <2>1. handler.job = "operation" /\ ops[handler.row].kind = "post"
    BY <1>1, RowOfStep DEF StepsOf
  <2> QED BY <1>1, <2>1, HandlerHasThread DEF CreationInv, ClaimsHeld, RowsFit, Made, Creation
<1>3. threads # 0 /\ threads \in Nat
  BY <1>2, CountTypes DEF Counted
<1>4. Made' = Made /\ (Linked => Linked') /\ Attached' = Attached \cup {handler.issue}
      /\ handler.issue \notin Attached
  BY <1>1, <1>2, <1>3 DEF Made, Linked, Attached, CreationInv, TypeOK, NoLink, NoThread, Person
<1>5. Cardinality(Attached') = Cardinality(Attached) + 1
  BY <1>4, AttachedIsMade, OneMore
<1>6. Making = 1 /\ Making' = 0 /\ Opened' = Opened /\ handler.step # "connect"
  BY <1>1 DEF Making, Opened
<1> QED BY <1>1, <1>3, <1>4, <1>5, <1>6, AttachedIsMade, CountTypes DEF Counted

\* A handler that ends between a creation and its record is counted.
LEMMA EndsCount ==
  ASSUME CreationInv, Counted, Interrupt \/ GiveUp
  PROVE  Counted'
<1>1. /\ UNCHANGED <<issues, links, threads, starter>> /\ handler' = Idle
      /\ strays' = strays + Making
  BY DEF Interrupt, GiveUp, SettleRow, Stray, Making, github, record, discord, intake
<1>2. Made' = Made /\ Linked' = Linked /\ Attached' = Attached /\ Making' = 0 /\ Opened' = Opened
  BY <1>1, IdleTypes DEF Made, Linked, Attached, Making, Opened
<1>3. handler.step = "connect" => Making = 1
  BY DEF Making
<1> QED BY <1>1, <1>2, <1>3, AttachedIsMade, CountTypes DEF Counted

\* The other steps of the worker.
LEMMA WorkerIdles ==
  ASSUME CreationInv, ClaimInbox \/ ClaimEvent \/ ClaimOperation \/ Finish \/ Pend \/ Backoff
  PROVE  Idles
<1>1. Idle.step \notin {"connect", "join"}
  BY IdleTypes
<1>2. CASE ClaimInbox
  <2>1. /\ handler'.job = "inbox" /\ UNCHANGED <<issues, links, threads, strays, starter>>
        /\ handler = Idle
    BY <1>2 DEF ClaimInbox, ClaimOnly, WorkerOnly, github, record, discord, intake, Idle
  <2>2. handler'.step \in InboxSteps
    BY <1>2, <2>1, ClaimInboxKeeps DEF CreationInv, ClaimsHeld
  <2> QED BY <1>1, <2>1, <2>2 DEF Idles, Made, InboxSteps
<1>3. CASE ClaimEvent \/ ClaimOperation
  <2>1. \A op \in Operation : FirstStep(op) \notin {"connect", "join"}
    BY DEF FirstStep, FirstStepOfAll, Operation
  <2>2. UNCHANGED <<issues, links, threads, strays, starter>> /\ handler = Idle
    BY <1>3 DEF ClaimEvent, ClaimOperation, ClaimOnly, WorkerOnly, github, record, discord, intake
  <2>3. handler'.step = "link" \/ \E n \in 1..Len(ops) : handler'.step = FirstStep(ops[n])
    BY <1>3 DEF ClaimEvent, ClaimOperation, Idle
  <2>4. \A n \in 1..Len(ops) : ops[n] \in Operation
    BY ElementOfSeq DEF CreationInv, TypeOK
  <2> QED BY <1>1, <2>1, <2>2, <2>3, <2>4 DEF Idles, Made
<1>4. CASE Finish \/ Pend
  BY <1>1, <1>4 DEF Finish, Pend, SettleRow, Idles, Made, github, record, discord, intake, history
<1>5. CASE Backoff
  BY <1>5 DEF Backoff, Idles, Made, github, record, discord, intake, history
<1> QED BY <1>2, <1>3, <1>4, <1>5

LEMMA OutsideIdles ==
  ASSUME CreationInv,
         EditStarter \/ PostReply \/ TouchThread \/ UserEdits \/ UserReverts \/ ReadInventory
           \/ EnqueueSnapshot
  PROVE  Idles
<1>1. CASE EditStarter \/ PostReply \/ TouchThread
  <2>1. UNCHANGED <<issues, links, threads, strays, handler>>
    BY <1>1 DEF EditStarter, PostReply, TouchThread, OutsideDiscord, github, record
  <2>2. starter # 0 /\ starter' # 0
    BY <1>1 DEF EditStarter, PostReply, TouchThread, CreationInv, TypeOK
  <2> QED BY <2>1, <2>2 DEF Idles, Made
<1>2. CASE UserEdits \/ UserReverts
  <2>1. PICK i \in Issue, body \in Body : UserWrites(i, body)
    <3>1. CASE UserEdits
      BY <3>1, NoneTypes DEF UserEdits
    <3>2. CASE UserReverts
      <4>1. item.hash \in Body /\ item.issue \in Issue /\ UserWrites(item.issue, item.hash)
        BY <3>2 DEF UserReverts, UserWrites, Made, CreationInv, TypeOK, Item
      <4> QED BY <4>1
    <3> QED BY <1>2, <3>1, <3>2
  <2>2. UNCHANGED <<links, threads, strays, handler, starter>> /\ i \in Made
        /\ issues' = [issues EXCEPT ![i] = body]
    BY <2>1 DEF UserWrites, Announce, record, discord, intake
  <2>3. Made' = Made
    BY <2>2, BodyIsNotNoBody DEF Made, CreationInv, TypeOK
  <2> QED BY <2>2, <2>3 DEF Idles
<1>3. CASE ReadInventory \/ EnqueueSnapshot
  BY <1>3 DEF ReadInventory, EnqueueSnapshot, Idles, Made, github, record, discord, intake, history
<1> QED BY <1>1, <1>2, <1>3

LEMMA HandlerIdles ==
  ASSUME CreationInv,
         \/ EnqueueCreate \/ RelayReply \/ UpsertStarter \/ SetDestination \/ SetRenderHash
         \/ UpsertAttachment \/ EnqueueUpload \/ EnqueueSync \/ CompleteAttachment
         \/ EnqueueResync \/ ReadBody \/ WriteBody \/ SaveHash \/ Hear \/ UpsertCopy
         \/ EnqueuePost \/ CreateMessage \/ EditMessage \/ ReplaceSegments \/ DeleteMessage
         \/ MarkDeleted
  PROVE  Idles
<1>1. handler \in Handler
  BY DEF CreationInv, TypeOK
<1>2. CASE EnqueueCreate \/ EnqueueUpload \/ EnqueueSync \/ EnqueueResync \/ EnqueuePost
  BY <1>1, <1>2 DEF EnqueueCreate, EnqueueUpload, EnqueueSync, EnqueueResync, EnqueuePost, Enqueue, Goto,
     Handler, Idles, Made, WorkerOnly, github, record, discord, intake, history
<1>3. CASE RelayReply \/ Hear
  BY <1>1, <1>3 DEF RelayReply, Hear, Heard, Enqueue, Goto, Handler, Idles, Made, WorkerOnly, github, record,
     discord, intake, history
<1>4. CASE UpsertStarter \/ SetDestination \/ SetRenderHash \/ UpsertAttachment \/ CompleteAttachment
             \/ ReadBody \/ SaveHash
  BY <1>1, <1>4 DEF UpsertStarter, SetDestination, SetRenderHash, UpsertAttachment, CompleteAttachment,
     ReadBody, SaveHash, OnlyItem, Goto, Handler, Idles, Made, WorkerOnly, github, discord, intake, history
<1>5. CASE UpsertCopy \/ ReplaceSegments \/ MarkDeleted
  BY <1>1, <1>5 DEF UpsertCopy, ReplaceSegments, MarkDeleted, OnlyCopy, Goto, Handler, Idles, Made,
     WorkerOnly, github, discord, intake, history
<1>6. CASE CreateMessage \/ EditMessage \/ DeleteMessage
  BY <1>1, <1>6 DEF CreateMessage, EditMessage, DeleteMessage, Post, Goto, Handler, Idles, Made, WorkerOnly,
     github, record, intake, history
<1>7. CASE WriteBody
  <2>1. /\ handler.step = "write" /\ handler'.step = "save"
        /\ UNCHANGED <<links, threads, strays, starter>>
    BY <1>1, <1>7 DEF WriteBody, Goto, Handler, WorkerOnly, record, discord, intake, history
  <2>2. handler.body # NoBody /\ (issues' = issues \/ issues' = [issues EXCEPT ![handler.issue] = handler.body])
    BY <1>7, BodyIsNotNoBody DEF WriteBody, Announce, github, CreationInv, BodiesAreTheRelays
  <2>3. handler.issue \in Made
    <3>1. handler.job = "operation" /\ ops[handler.row].kind = "body"
      BY <2>1, RowOfStep DEF StepsOf
    <3> QED BY <3>1 DEF CreationInv, ClaimsHeld, RowsFit, Creation
  <2>4. Made' = Made
    BY <2>2, <2>3 DEF Made, CreationInv, TypeOK
  <2> QED BY <2>1, <2>4 DEF Idles
<1> QED BY <1>2, <1>3, <1>4, <1>5, <1>6, <1>7

\* The thread of a webhook is not yet one the issue is attached to.
LEMMA EnsureLinkCounts ==
  ASSUME CreationInv, Counted, EnsureLink
  PROVE  Counted'
<1>1. handler.step = "link" /\ handler'.step = "echo" /\ UNCHANGED <<issues, threads, strays, starter>>
      /\ links' = [links EXCEPT ![handler.issue] = IF @ = NoLink THEN NoThread ELSE @]
  BY DEF EnsureLink, Goto, WorkerOnly, github, discord, history, intake, CreationInv, TypeOK, Handler
<1>2. \A i \in Issue : links'[i] = links[i] \/ (links[i] = NoLink /\ links'[i] = NoThread)
  BY <1>1 DEF CreationInv, TypeOK
<1>3. Made' = Made /\ Attached' = Attached /\ Linked' = Linked /\ Making = 0 /\ Making' = 0
      /\ Opened' = Opened
  BY <1>1, <1>2 DEF Made, Attached, Linked, Making, Opened, NoLink, NoThread, Person
<1> QED BY <1>1, <1>3 DEF Counted

LEMMA CountedStep == CreationInv /\ Counted /\ [Next]_vars => Counted'
<1> SUFFICES ASSUME CreationInv, Counted, [Next]_vars PROVE Counted'
  OBVIOUS
<1>1. CASE UNCHANGED vars
  <2>1. Idles
    BY <1>1 DEF vars, Idles, Made
  <2> QED BY <2>1, IdlesKeeps
<1>2. CASE Work
  BY <1>2, WorkerIdles, OutsideIdles, HandlerIdles, IdlesKeeps, CreateIssueCounts,
     createDiscordOriginLinkCounts, EnsureLinkCounts, CreateThreadCounts, attachDiscordThreadCounts
  DEF Work
<1>3. CASE Next /\ ~Work
  BY <1>3, OpenThreadCounts, OutsideIdles, IdlesKeeps, EndsCount DEF Next
<1> QED BY <1>1, <1>2, <1>3

LEMMA InitCounted == Init => Counted
<1> SUFFICES ASSUME Init PROVE Counted
  OBVIOUS
<1>1. Made = {} /\ Attached = {} /\ starter = 0 /\ threads = 0 /\ strays = 0
  BY DEF Init, Made, Attached
<1>2. handler.step = "none"
  BY IdleTypes DEF Init
<1>3. Making = 0 /\ Opened = 0 /\ Cardinality(Made) = 0 /\ Cardinality(Attached) = 0
  BY <1>1, <1>2, FS_EmptySet DEF Making, Opened
<1> QED BY <1>1, <1>2, <1>3 DEF Counted

\* While an issue or a thread waits for its record it is one more than those that have one.
LEMMA CountedCauses ==
  ASSUME CreationInv, Counted
  PROVE  DuplicatesHaveCauses
<1>1. Cardinality(Attached) + Making <= Cardinality(Made)
  <2>1. CASE handler.step \in {"connect", "join"}
    <3>1. handler.issue \in Made /\ links[handler.issue] \in {NoLink, NoThread}
      <4>1. CASE handler.step = "connect"
        BY <4>1 DEF CreationInv, Creation, CreateSteps
      <4>2. CASE handler.step = "join"
        <5>1. handler.job = "operation" /\ ops[handler.row].kind = "post"
          BY <4>2, RowOfStep DEF StepsOf
        <5> QED BY <4>2, <5>1 DEF CreationInv, ClaimsHeld, RowsFit, Creation
      <4> QED BY <2>1, <4>1, <4>2
    <3>2. handler.issue \notin Attached /\ Attached \cup {handler.issue} \subseteq Made
      BY <3>1, AttachedIsMade DEF Attached
    <3>3. Cardinality(Attached \cup {handler.issue}) = Cardinality(Attached) + 1
      BY <3>2, AttachedIsMade, OneMore
    <3>4. Cardinality(Attached \cup {handler.issue}) <= Cardinality(Made)
      BY <3>2, MadeIsFinite, FS_Subset
    <3> QED BY <2>1, <3>3, <3>4 DEF Making
  <2>2. CASE handler.step \notin {"connect", "join"}
    <3>1. Making = 0
      BY <2>2 DEF Making
    <3> QED BY <3>1, AttachedIsMade
  <2> QED BY <2>1, <2>2
<1>2. Cardinality(Made) <= 1 + strays
  BY AttachedIsMade, CountTypes DEF Counted
<1>3. threads <= 1 + strays
  BY <1>1, AttachedIsMade, CountTypes DEF Counted
<1> QED BY <1>2, <1>3 DEF DuplicatesHaveCauses

\* A second issue of the thread, and a thread made of the relay's own issue, are paid for by a
\* handler that ended between the creation and its record, whatever is retried, announced or
\* found by a reconciliation meanwhile (#createGitHubIssue, ensureThreadForIssue).
THEOREM DuplicatesArePaidFor == Spec => []DuplicatesHaveCauses
BY InitCreation, CreationStep, InitCounted, CountedStep, CountedCauses, PTL DEF Spec
-----------------------------------------------------------------------------
(* No echo without a fault.                                                *)

\* Nothing has failed, and no user has changed a body.
Calm == faults = 0 /\ acts = 0

\* Nothing is in the queue but what the relay has done itself, or has read.
OwnEvents == \A event \in hooks \cup plan.events : event.kind = "opened" \/ ~event.live \/ event.own

\* The issue is the person's, and the relay knows it by its hash.
Known == \A i \in Made : item.issue = i /\ item.placed /\ item.hash = issues[i]

\* While a handler makes the issue, or writes its body, it is on the way to know it.
Tracked ==
  CASE handler.step = "issue" -> Made = {}
    [] handler.step \in {"connect", "starter", "place"} ->
         Made = {handler.issue} /\ issues[handler.issue] = handler.body
    [] handler.step = "hash" ->
         Made = {handler.issue} /\ issues[handler.issue] = handler.body /\ item.placed
    [] handler.step = "save" ->
         Made = {item.issue} /\ issues[item.issue] = handler.body /\ item.placed
    [] OTHER -> Known
Tracking == {"issue", "connect", "starter", "place", "hash", "save"}

\* There is no copy, nor will there be one.
Silent ==
  /\ \A n \in 1..Len(ops) : ops[n].kind \notin {"post", "erase"}
  /\ handler.step \notin {"copy", "post"}
  /\ messages = <<>>
  /\ \A i \in Issue : copies[i].state # "ACTIVE"

EchoInv == Calm => OwnEvents /\ Tracked /\ ("stale" \notin past => Silent)

LEMMA InitEcho == Init => EchoInv
<1> SUFFICES ASSUME Init PROVE EchoInv
  OBVIOUS
<1>1. Made = {} /\ hooks = {} /\ plan.events = {} /\ handler.step = "none" /\ ops = <<>> /\ messages = <<>>
  BY IdleTypes DEF Init, Made, Nothing
<1>2. OwnEvents /\ Tracked
  BY <1>1 DEF OwnEvents, Tracked, Known
<1>3. Silent
  BY <1>1, EmptySeq DEF Silent, Init
<1> QED BY <1>2, <1>3 DEF EchoInv

\* The calm does not come back, and neither does a snapshot that was read in time.
LEMMA EchoFrame ==
  ASSUME EchoInv, Calm' => Calm, "stale" \notin past' => "stale" \notin past,
         UNCHANGED <<issues, item, messages, copies>>,
         hooks' \cup plan'.events \subseteq hooks \cup plan.events,
         \A n \in 1..Len(ops') : \/ ops'[n].kind \notin {"post", "erase"}
                                 \/ \E m \in 1..Len(ops) : ops'[n].kind = ops[m].kind,
         \/ UNCHANGED handler
         \/ handler.step \notin Tracking /\ handler'.step \notin Tracking \cup {"copy", "post"}
  PROVE  EchoInv'
<1> SUFFICES ASSUME Calm' PROVE OwnEvents' /\ Tracked' /\ ("stale" \notin past' => Silent')
  BY DEF EchoInv
<1>1. OwnEvents'
  BY DEF EchoInv, OwnEvents
<1>2. Made' = Made
  BY DEF Made
<1>3. Tracked'
  BY <1>2 DEF EchoInv, Tracked, Known, Tracking
<1>4. "stale" \notin past' => Silent'
  <2> SUFFICES ASSUME "stale" \notin past' PROVE Silent'
    OBVIOUS
  <2>1. Silent
    BY DEF EchoInv
  <2> QED BY <2>1 DEF Silent
<1> QED BY <1>1, <1>3, <1>4

LEMMA FaultEcho ==
  ASSUME CreationInv, EchoInv,
         OpenThread(FALSE) \/ UserEdits \/ UserReverts \/ Interrupt \/ GiveUp
  PROVE  EchoInv'
<1>1. faults \in Nat /\ acts \in Nat
  BY DEF CreationInv, TypeOK
<1>2. faults' = faults + 1 \/ acts' = acts + 1
  BY Zenon DEF OpenThread, UserEdits, UserReverts, UserWrites, Interrupt, GiveUp
<1>3. ~Calm'
  <2>1. faults + 1 # 0 /\ acts + 1 # 0
    BY <1>1
  <2> QED BY <1>2, <2>1 DEF Calm
<1> QED BY <1>3 DEF EchoInv

LEMMA OutsideEcho ==
  ASSUME CreationInv, EchoInv,
         OpenThread(TRUE) \/ EditStarter \/ PostReply \/ TouchThread \/ EnqueueSnapshot
  PROVE  EchoInv'
<1>1. CASE OpenThread(TRUE) \/ EditStarter \/ PostReply \/ TouchThread
  <2>1. UNCHANGED <<issues, hooks, plan, item, copies, messages, ops, handler, acts>>
    BY <1>1 DEF OpenThread, EditStarter, PostReply, TouchThread, OutsideDiscord, github, record, outbox
  <2>2. UNCHANGED <<faults, past>>
    BY <1>1 DEF OpenThread, EditStarter, PostReply, TouchThread
  <2> QED BY <2>1, <2>2, EchoFrame DEF Calm
<1>2. CASE EnqueueSnapshot
  <2>1. UNCHANGED <<issues, item, copies, messages, ops, handler, acts, faults>>
    BY <1>2 DEF EnqueueSnapshot, record, discord, outbox, bounds
  <2>2. hooks' \cup plan'.events \subseteq hooks \cup plan.events
    BY <1>2 DEF EnqueueSnapshot, Nothing
  <2>3. "stale" \notin past' => "stale" \notin past
    BY <1>2 DEF EnqueueSnapshot
  <2> QED BY <2>1, <2>2, <2>3, EchoFrame DEF Calm
<1> QED BY <1>1, <1>2

LEMMA ReadInventoryEcho ==
  ASSUME CreationInv, EchoInv, ReadInventory
  PROVE  EchoInv'
<1>1. UNCHANGED <<issues, hooks, item, copies, messages, ops, handler, acts, faults, past>>
  BY DEF ReadInventory, github, record, discord, outbox, history
<1>2. \A event \in plan'.events : ~event.live
  BY DEF ReadInventory
<1>3. OwnEvents => OwnEvents'
  BY <1>1, <1>2 DEF OwnEvents
<1>4. (Tracked => Tracked') /\ (Silent => Silent') /\ (Calm' => Calm)
  BY <1>1 DEF Tracked, Known, Made, Silent, Calm
<1> QED BY <1>1, <1>3, <1>4 DEF EchoInv

LEMMA ClaimEcho ==
  ASSUME CreationInv, EchoInv, ClaimInbox \/ ClaimEvent \/ ClaimOperation
  PROVE  EchoInv'
<1>1. /\ UNCHANGED <<issues, hooks, plan, item, copies, messages, ops, links, acts, faults>>
      /\ handler.step = "none"
  BY IdleTypes DEF ClaimInbox, ClaimEvent, ClaimOperation, ClaimOnly, WorkerOnly, github, record, discord,
     outbox, bounds
<1>2. "stale" \notin past' => "stale" \notin past
  BY DEF ClaimInbox, ClaimEvent, ClaimOperation
<1>3. \/ handler'.step \notin Tracking \cup {"copy", "post"}
      \/ handler'.step = "issue" /\ ~Linked
  <2>1. CASE ClaimInbox
    <3>1. handler'.job = "inbox"
      BY <2>1 DEF ClaimInbox, Idle
    <3>2. handler'.step \in InboxSteps
      BY <2>1, <3>1, ClaimInboxKeeps DEF CreationInv, ClaimsHeld
    <3> QED BY <3>2 DEF InboxSteps, Tracking
  <2>2. CASE ClaimEvent
    BY <2>2 DEF ClaimEvent, Idle, Tracking
  <2>3. CASE ClaimOperation
    <3>1. \A op \in Operation : \/ FirstStep(op) \notin Tracking \cup {"copy", "post"}
                                \/ FirstStep(op) = "issue" /\ ~Linked
      BY DEF FirstStep, FirstStepOfAll, Operation, Tracking
    <3>2. \A n \in 1..Len(ops) : ops[n] \in Operation
      BY ElementOfSeq DEF CreationInv, TypeOK
    <3>3. \E n \in 1..Len(ops) : handler'.step = FirstStep(ops[n])
      BY <2>3 DEF ClaimOperation, Idle
    <3> QED BY <3>1, <3>2, <3>3
  <2> QED BY <2>1, <2>2, <2>3
<1>4. CASE handler'.step \notin Tracking \cup {"copy", "post"}
  <2>1. handler.step \notin Tracking
    BY <1>1 DEF Tracking
  <2> QED BY <1>1, <1>2, <1>4, <2>1, EchoFrame DEF Calm
<1>5. CASE handler'.step = "issue" /\ ~Linked
  <2> SUFFICES ASSUME Calm' PROVE OwnEvents' /\ Tracked' /\ ("stale" \notin past' => Silent')
    BY DEF EchoInv
  <2>1. Calm /\ OwnEvents /\ Known /\ ("stale" \notin past => Silent)
    BY <1>1 DEF EchoInv, Calm, Tracked
  <2>2. Made = {}
    BY <1>5, <2>1 DEF Known, CreationInv, Creation, Linked, Made
  <2>3. OwnEvents' /\ Made' = Made
    BY <1>1, <2>1 DEF OwnEvents, Made
  <2>4. Tracked'
    BY <1>5, <2>2, <2>3 DEF Tracked
  <2>5. "stale" \notin past' => Silent'
    BY <1>1, <1>2, <1>5, <2>1 DEF Silent
  <2> QED BY <2>3, <2>4, <2>5
<1> QED BY <1>3, <1>4, <1>5

LEMMA EndEcho ==
  ASSUME CreationInv, EchoInv, Finish \/ Pend \/ Backoff
  PROVE  EchoInv'
<1>1. UNCHANGED <<issues, plan, item, copies, messages, acts, faults>> /\ hooks' \subseteq hooks
  BY DEF Finish, Pend, Backoff, SettleRow, github, record, discord, bounds
<1>2. "stale" \notin past' => "stale" \notin past
  BY DEF Finish, Pend, Backoff, history
<1>3. \/ UNCHANGED handler
      \/ handler.step \in {"end", "pend"} /\ handler'.step = "none"
  BY IdleTypes DEF Finish, Pend, Backoff, SettleRow
<1>4. \A n \in 1..Len(ops') : \E m \in 1..Len(ops) : ops'[n].kind = ops[m].kind
  <2>1. ops \in Seq(Operation)
    BY DEF CreationInv, TypeOK
  <2>2. CASE ops' = ops
    BY <2>2
  <2>3. CASE Backoff
    <3>1. PICK n \in 1..Len(ops) : ops' = [ops EXCEPT ![n].due = TRUE]
      BY <2>3 DEF Backoff
    <3>2. TRUE \in BOOLEAN
      OBVIOUS
    <3>3. /\ [ops EXCEPT ![n].due = TRUE] \in Seq(Operation)
          /\ Len([ops EXCEPT ![n].due = TRUE]) = Len(ops)
          /\ \A m \in 1..Len(ops) : /\ [ops EXCEPT ![n].due = TRUE][m].kind = ops[m].kind
                                    /\ [ops EXCEPT ![n].due = TRUE][m].issue = ops[m].issue
      BY <2>1, <3>2, DueTypes, Zenon
    <3> QED BY <3>1, <3>3
  <2>4. CASE handler.job = "operation" /\ ops' = RemoveAt(ops, handler.row)
    <3>1. handler.row \in 1..Len(ops)
      BY <2>4 DEF CreationInv, ClaimsHeld
    <3>2. \A n \in 1..Len(RemoveAt(ops, handler.row)) :
            \E m \in 1..Len(ops) : RemoveAt(ops, handler.row)[n] = ops[m]
      BY <2>1, <3>1, RemoveKeeps
    <3> QED BY <2>4, <3>2
  <2> QED BY <2>2, <2>3, <2>4 DEF Finish, Pend, SettleRow, outbox
<1>5. {"end", "pend", "none"} \cap (Tracking \cup {"copy", "post"}) = {}
  BY DEF Tracking
<1> QED BY <1>1, <1>2, <1>3, <1>4, <1>5, EchoFrame DEF Calm

\* What the handlers of the person's thread and of the starter enqueue.
LEMMA EnqueueEcho ==
  ASSUME CreationInv, EchoInv, EnqueueCreate \/ EnqueueUpload \/ EnqueueSync \/ EnqueueResync
  PROVE  EchoInv'
<1>1. UNCHANGED <<issues, hooks, plan, item, copies, messages, acts, faults, past>>
  BY DEF EnqueueCreate, EnqueueUpload, EnqueueSync, EnqueueResync, Enqueue, WorkerOnly, github, record,
     discord, bounds, history
<1>2. handler.step \notin Tracking /\ handler'.step \notin Tracking \cup {"copy", "post"}
  BY DEF EnqueueCreate, EnqueueUpload, EnqueueSync, EnqueueResync, Goto, CreationInv, TypeOK, Handler,
     Tracking
<1>3. \A n \in 1..Len(ops') : \/ ops'[n].kind \notin {"post", "erase"}
                              \/ \E m \in 1..Len(ops) : ops'[n].kind = ops[m].kind
  <2>1. PICK op \in {Op("create", NoIssue, starter), Op("upload", item.issue, 0), Op("body", item.issue, 0)} :
          ops' = ops \/ ops' = Append(ops, op)
    BY DEF EnqueueCreate, EnqueueUpload, EnqueueSync, EnqueueResync, Enqueue
  <2>2. op \in Operation /\ op.kind \notin {"post", "erase"} /\ ops \in Seq(Operation)
    <3>1. starter \in 0..MaxText /\ 0 \in 0..MaxText /\ item.issue \in 0..MaxIssues
          /\ NoIssue \in 0..MaxIssues /\ ops \in Seq(Operation)
      BY NoneTypes DEF CreationInv, TypeOK, Item
    <3>2. \A kind \in {"create", "upload", "body"}, i \in 0..MaxIssues, text \in 0..MaxText :
            Op(kind, i, text) \in Operation /\ Op(kind, i, text).kind = kind
      BY OpTypes
    <3>3. op \in Operation /\ op.kind \in {"create", "upload", "body"}
      BY <3>1, <3>2
    <3> QED BY <3>1, <3>3
  <2>3. \A n \in 1..Len(ops') : (n \in 1..Len(ops) /\ ops'[n] = ops[n]) \/ ops'[n] = op
    <3>1. CASE ops' = ops
      BY <3>1
    <3>2. CASE ops' = Append(ops, op)
      <4>1. /\ Len(ops) \in Nat /\ \A n \in 1..Len(ops) : Append(ops, op)[n] = ops[n]
            /\ \A n \in 1..Len(Append(ops, op)) : n \in 1..Len(ops) \/ Append(ops, op)[n] = op
        BY <2>2, AppendTypes
      <4> QED BY <3>2, <4>1
    <3> QED BY <2>1, <3>1, <3>2
  <2> QED BY <2>2, <2>3
<1> QED BY <1>1, <1>2, <1>3, EchoFrame DEF Calm

\* Steps that neither make an issue nor show anything.
LEMMA QuietEcho ==
  ASSUME CreationInv, EchoInv, RelayReply \/ attachDiscordThread \/ EnsureLink
  PROVE  EchoInv'
<1>1. UNCHANGED <<issues, hooks, plan, item, copies, messages, ops, acts, faults, past>>
  BY DEF RelayReply, attachDiscordThread, EnsureLink, WorkerOnly, github, record, discord, outbox, bounds, history
<1>2. handler.step \notin Tracking /\ handler'.step \notin Tracking \cup {"copy", "post"}
  BY DEF RelayReply, attachDiscordThread, EnsureLink, Goto, CreationInv, TypeOK, Handler, Tracking
<1> QED BY <1>1, <1>2, EchoFrame DEF Calm

\* The handlers that make the issue, or write its body, know what they have written.
LEMMA TrackFrame ==
  ASSUME CreationInv, EchoInv, UNCHANGED <<plan, ops, copies, messages, acts, faults, past>>,
         Calm => OwnEvents' /\ Tracked', handler'.step \notin {"copy", "post"}
  PROVE  EchoInv'
BY DEF EchoInv, Calm, Silent

LEMMA CreateIssueEcho ==
  ASSUME CreationInv, EchoInv, CreateIssue
  PROVE  EchoInv'
<1>1. UNCHANGED <<plan, ops, copies, messages, acts, faults, past>> /\ handler.step = "issue"
  BY DEF CreateIssue, WorkerOnly, record, discord, outbox, bounds, history
<1>2. PICK i \in Issue :
        /\ Announce(i, "opened", handler.body, TRUE)
        /\ handler' = [handler EXCEPT !.step = "connect", !.issue = i]
  BY DEF CreateIssue
<1>3. handler'.step = "connect" /\ handler'.issue = i /\ handler'.body = handler.body
  BY <1>2 DEF CreationInv, TypeOK, Handler
<1>4. handler.body \in Body
  BY <1>1 DEF CreationInv, BodiesAreTheRelays
<1>5. /\ Made' = Made \cup {i} /\ issues'[i] = handler.body
      /\ \A event \in hooks' : event \in hooks \/ event.kind = "opened"
  <2>1. "opened" \in {"opened", "edited"} /\ TRUE \in BOOLEAN
    OBVIOUS
  <2>2. /\ issues' \in [Issue -> Body \cup {NoBody}] /\ stamp' \in Nat /\ hooks' \subseteq Event
        /\ hooks \subseteq hooks' /\ Made' = Made \cup {i}
        /\ \A event \in hooks' : event \in hooks \/
             (event.kind = "opened" /\ event.issue = i /\ event.body = handler.body /\ event.live)
        /\ issues'[i] = handler.body /\ \A j \in Issue \ {i} : issues'[j] = issues[j]
    BY <1>2, <1>4, <2>1, AnnounceTypes, Zenon
  <2> QED BY <2>2, Zenon
<1>6. ASSUME Calm PROVE OwnEvents' /\ Tracked'
  <2>1. OwnEvents /\ Made = {}
    BY <1>1, <1>6 DEF EchoInv, Tracked
  <2>2. OwnEvents'
    BY <1>1, <1>5, <2>1 DEF OwnEvents
  <2>3. Tracked'
    BY <1>3, <1>5, <2>1 DEF Tracked
  <2> QED BY <2>2, <2>3
<1> QED BY <1>1, <1>3, <1>6, TrackFrame

LEMMA StarterEcho ==
  ASSUME CreationInv, EchoInv,
         createDiscordOriginLink \/ UpsertStarter \/ SetDestination \/ SetRenderHash \/ UpsertAttachment
           \/ CompleteAttachment \/ ReadBody \/ SaveHash
  PROVE  EchoInv'
<1>1. /\ UNCHANGED <<issues, hooks, plan, ops, copies, messages, acts, faults, past>>
      /\ UNCHANGED <<handler.issue, handler.body>> /\ handler'.step \notin {"copy", "post"}
  BY DEF createDiscordOriginLink, UpsertStarter, SetDestination, SetRenderHash, UpsertAttachment,
     CompleteAttachment, ReadBody, SaveHash, OnlyItem, WorkerOnly, Goto, github, discord, outbox,
     bounds, history, CreationInv, TypeOK, Handler
<1>2. Made' = Made
  BY <1>1 DEF Made
<1>3. CASE createDiscordOriginLink \/ UpsertStarter
  <2>1. handler.step \in {"connect", "starter"} /\ handler'.step \in {"starter", "place"}
    BY <1>3 DEF createDiscordOriginLink, UpsertStarter, Goto, CreationInv, TypeOK, Handler
  <2>2. ASSUME Calm PROVE OwnEvents' /\ Tracked'
    BY <1>1, <1>2, <2>1, <2>2 DEF EchoInv, OwnEvents, Tracked
  <2> QED BY <1>1, <2>2, TrackFrame
<1>4. CASE SetDestination
  <2>1. handler.step = "place" /\ handler'.step = "hash" /\ item'.placed
    BY <1>4 DEF SetDestination, OnlyItem, Goto, CreationInv, TypeOK, Handler, Item
  <2>2. ASSUME Calm PROVE OwnEvents' /\ Tracked'
    BY <1>1, <1>2, <2>1, <2>2 DEF EchoInv, OwnEvents, Tracked
  <2> QED BY <1>1, <2>2, TrackFrame
<1>5. CASE SetRenderHash
  <2>1. handler.step = "hash" /\ handler'.step = "attach" /\ item'.hash = handler.body
        /\ item'.issue = item.issue /\ (item.placed => item'.placed) /\ item.issue = handler.issue
    BY <1>5 DEF SetRenderHash, OnlyItem, Goto, CreationInv, TypeOK, Handler, Item, Creation
  <2>2. ASSUME Calm PROVE OwnEvents' /\ Tracked'
    BY <1>1, <1>2, <2>1, <2>2 DEF EchoInv, OwnEvents, Tracked, Known
  <2> QED BY <1>1, <2>2, TrackFrame
<1>6. CASE SaveHash
  <2>1. handler.step = "save" /\ handler'.step = "end" /\ item'.hash = handler.body
        /\ item'.issue = item.issue /\ (item.placed => item'.placed)
    BY <1>6 DEF SaveHash, OnlyItem, Goto, CreationInv, TypeOK, Handler, Item
  <2>2. ASSUME Calm PROVE OwnEvents' /\ Tracked'
    BY <1>1, <1>2, <2>1, <2>2 DEF EchoInv, OwnEvents, Tracked, Known
  <2> QED BY <1>1, <2>2, TrackFrame
<1>7. CASE UpsertAttachment \/ CompleteAttachment \/ ReadBody
  <2>1. handler.step \notin Tracking /\ handler'.step \notin Tracking
    BY <1>7 DEF UpsertAttachment, CompleteAttachment, ReadBody, Goto, Tracking, CreationInv, TypeOK, Handler
  <2>3. \/ item' = [item EXCEPT !.media = "pending"] \/ item' = [item EXCEPT !.media = "done"]
        \/ item' = item \/ item' = [item EXCEPT !.conflict = TRUE]
    BY <1>7, Zenon DEF UpsertAttachment, CompleteAttachment, ReadBody, OnlyItem
  <2>4. item'.hash = item.hash /\ item'.issue = item.issue /\ item'.placed = item.placed
    BY <2>3 DEF CreationInv, TypeOK, Item
  <2>2. ASSUME Calm PROVE OwnEvents' /\ Tracked'
    BY <1>1, <1>2, <2>1, <2>2, <2>4 DEF EchoInv, OwnEvents, Tracked, Tracking, Known
  <2> QED BY <1>1, <2>2, TrackFrame
<1> QED BY <1>3, <1>4, <1>5, <1>6, <1>7

LEMMA WriteBodyEcho ==
  ASSUME CreationInv, EchoInv, WriteBody
  PROVE  EchoInv'
<1>1. /\ UNCHANGED <<plan, ops, item, copies, messages, acts, faults, past>>
      /\ handler.step = "write" /\ handler'.step = "save" /\ handler'.body = handler.body
  BY DEF WriteBody, WorkerOnly, Goto, record, discord, outbox, bounds, history, CreationInv, TypeOK, Handler
<1>2. handler.issue = item.issue /\ item.issue \in Made
  <2>1. handler.job = "operation" /\ ops[handler.row].kind = "body"
    BY <1>1, RowOfStep DEF StepsOf
  <2> QED BY <2>1 DEF CreationInv, ClaimsHeld, RowsFit, Creation
<1>3. handler.body # NoBody
  BY <1>1, BodyIsNotNoBody DEF CreationInv, BodiesAreTheRelays
<1>4. /\ Made' = Made /\ issues'[item.issue] = handler.body
      /\ \A event \in hooks' : event \in hooks \/ event.own
  <2>1. CASE UNCHANGED github /\ handler.body = issues[handler.issue]
    BY <1>2, <2>1 DEF github, Made
  <2>2. CASE Announce(handler.issue, "edited", handler.body, TRUE)
    <3>1. issues' = [issues EXCEPT ![item.issue] = handler.body]
      BY <1>2, <2>2 DEF Announce
    <3>2. Made' = Made /\ issues'[item.issue] = handler.body
      BY <1>2, <1>3, <3>1 DEF Made, CreationInv, TypeOK
    <3>3. \A event \in hooks' : event \in hooks \/ event.own
      BY <2>2 DEF Announce
    <3> QED BY <3>2, <3>3
  <2> QED BY <2>1, <2>2 DEF WriteBody
<1>5. ASSUME Calm PROVE OwnEvents' /\ Tracked'
  <2>1. OwnEvents /\ Known
    BY <1>1, <1>5 DEF EchoInv, Tracked
  <2>2. OwnEvents'
    BY <1>1, <1>4, <2>1 DEF OwnEvents
  <2>3. Made = {item.issue} /\ item.placed
    BY <1>2, <2>1 DEF Known
  <2>4. Tracked'
    BY <1>1, <1>4, <2>3 DEF Tracked
  <2> QED BY <2>2, <2>4
<1> QED BY <1>1, <1>5, TrackFrame

\* A webhook of the relay's own change names the relay, and a snapshot that is still true has
\* the body the relay wrote last.
LEMMA HearEcho ==
  ASSUME CreationInv, EchoInv, Hear
  PROVE  EchoInv'
<1>1. handler.step = "echo" /\ handler'.step \in {"end", "copy"}
      /\ past' = past \cup Belated(handler.event)
      /\ handler'.step = (IF Suppress(handler.event) THEN "end" ELSE "copy")
  BY DEF Hear, Heard, Goto, CreationInv, TypeOK, Handler
<1>2. UNCHANGED <<issues, hooks, plan, item, copies, messages, acts, faults>>
  BY DEF Hear, Enqueue, WorkerOnly, github, record, discord, bounds
<1> SUFFICES ASSUME Calm' PROVE OwnEvents' /\ Tracked' /\ ("stale" \notin past' => Silent')
  BY DEF EchoInv
<1>3. Calm /\ OwnEvents /\ Known
  BY <1>1, <1>2 DEF Calm, EchoInv, Tracked
<1>4. OwnEvents' /\ Tracked'
  BY <1>1, <1>2, <1>3 DEF OwnEvents, Tracked, Known, Made
<1>5. ASSUME "stale" \notin past' PROVE Silent'
  <2>1. "stale" \notin past /\ "stale" \notin Belated(handler.event)
    BY <1>1, <1>5
  <2>2. handler.event \in hooks /\ handler.event.issue \in Made
        /\ handler.event.issue \in Issue /\ handler.issue = handler.event.issue
    <3>1. handler.job = "event"
      BY <1>1, RowOfStep DEF EventSteps
    <3> QED BY <3>1 DEF CreationInv, ClaimsHeld, RowsFit, Made
  <2>3. item.placed /\ item.issue = handler.event.issue /\ item.hash = issues[handler.event.issue]
    BY <1>3, <2>2 DEF Known
  <2>4. ~handler.event.live => handler.event.body = issues[handler.event.issue]
    BY <2>1 DEF Belated
  <2>5. handler.event.kind = "opened" \/ ~handler.event.live \/ handler.event.own
    BY <1>3, <2>2 DEF OwnEvents
  <2>6. Suppress(handler.event)
    BY <2>3, <2>4, <2>5 DEF Suppress
  <2>7. Silent
    BY <1>3, <2>1 DEF EchoInv
  <2>8. ops' = ops
    BY <2>2, <2>7 DEF Hear, Silent, outbox
  <2> QED BY <1>1, <1>2, <2>6, <2>7, <2>8 DEF Silent
<1> QED BY <1>4, <1>5

\* A copy is on its way only if there has been an echo.
LEMMA CopyEcho ==
  ASSUME CreationInv, EchoInv,
         UpsertCopy \/ EnqueuePost \/ CreateThread \/ CreateMessage \/ EditMessage \/ ReplaceSegments
           \/ DeleteMessage \/ MarkDeleted
  PROVE  EchoInv'
<1>1. UNCHANGED <<issues, hooks, plan, item, acts, faults>>
  BY DEF UpsertCopy, EnqueuePost, CreateThread, CreateMessage, EditMessage, ReplaceSegments, DeleteMessage,
     MarkDeleted, Enqueue, Post, OnlyCopy, WorkerOnly, github, record, bounds
<1>2. /\ handler.step \in {"copy", "post", "thread", "message", "edit", "segments", "erase", "mark"}
      /\ handler'.step \in {"post", "end", "join", "segments", "mark"}
      /\ ("stale" \notin past' => "stale" \notin past)
  BY DEF UpsertCopy, EnqueuePost, CreateThread, CreateMessage, EditMessage, ReplaceSegments, DeleteMessage,
     MarkDeleted, Post, OnlyCopy, Goto, history, CreationInv, TypeOK, Handler
<1> SUFFICES ASSUME Calm' PROVE OwnEvents' /\ Tracked' /\ ("stale" \notin past' => Silent')
  BY DEF EchoInv
<1>3. Calm /\ OwnEvents /\ Known
  BY <1>1, <1>2 DEF Calm, EchoInv, Tracked
<1>4. OwnEvents' /\ Tracked'
  BY <1>1, <1>2, <1>3 DEF OwnEvents, Tracked, Known, Made
<1>5. ~Silent
  <2>1. CASE handler.step \in {"copy", "post"}
    BY <2>1 DEF Silent
  <2>2. CASE handler.step \in {"thread", "message", "edit", "segments"}
    <3>1. handler.job = "operation" /\ ops[handler.row].kind = "post"
      BY <2>2, RowOfStep DEF StepsOf
    <3> QED BY <3>1 DEF CreationInv, ClaimsHeld, Silent
  <2>3. CASE handler.step \in {"erase", "mark"}
    <3>1. handler.step \in StepsOf("erase") \ {"end"}
      BY <2>3 DEF StepsOf
    <3>2. handler.job = "operation" /\ ops[handler.row].kind = "erase"
      BY <3>1, RowOfStep
    <3> QED BY <3>2 DEF CreationInv, ClaimsHeld, Silent
  <2> QED BY <1>2, <2>1, <2>2, <2>3
<1>6. "stale" \in past'
  BY <1>2, <1>3, <1>5 DEF EchoInv
<1> QED BY <1>4, <1>6

LEMMA EchoStep == CreationInv /\ EchoInv /\ [Next]_vars => EchoInv'
<1> SUFFICES ASSUME CreationInv, EchoInv, [Next]_vars PROVE EchoInv'
  OBVIOUS
<1>1. CASE UNCHANGED vars
  <2>1. UNCHANGED <<issues, hooks, plan, item, messages, copies, ops, handler, acts, faults, past>>
    BY <1>1 DEF vars
  <2> QED BY <2>1, EchoFrame DEF Calm
<1>2. CASE Work
  BY <1>2, OutsideEcho, ClaimEcho, EndEcho, EnqueueEcho, QuietEcho, CreateIssueEcho, StarterEcho, WriteBodyEcho,
     HearEcho, CopyEcho DEF Work
<1>3. CASE Next /\ ~Work
  <2>1. \A seen \in BOOLEAN : OpenThread(seen) => OpenThread(TRUE) \/ OpenThread(FALSE)
    BY Zenon
  <2> QED BY <1>3, <2>1, FaultEcho, OutsideEcho, ReadInventoryEcho DEF Next
<1> QED BY <1>1, <1>2, <1>3

\* While nothing fails, no user changes the issue and no snapshot is handled after the relay has
\* changed what it shows, nothing of the relay's own issue comes back to the thread: the webhook
\* names the relay, or the body has the hash it wrote last (shouldSuppressGitHubBodyEcho).
THEOREM OwnIssueIsNoEcho == Spec => []NoEcho
<1>1. EchoInv => NoEcho
  BY DEF EchoInv, Calm, Silent, NoEcho
<1> QED BY <1>1, InitCreation, CreationStep, InitEcho, EchoStep, PTL DEF Spec

----------------------------------------------------------------------------
\* The thread shows the body.  StampInv orders the events, CopyInv says what a post and a deletion
\* have done so far, and AccountInv follows the last change of the body to the last operation on
\* its copy.
-----------------------------------------------------------------------------
(* The copy of the body, once everything has settled.                      *)

\* What the property leaves out.
Lapsed == past \cap {"dead", "late", "overtaken", "returned"} # {}

LEMMA PastStays == [Next]_vars => past \ {"missed"} \subseteq past'
<1> SUFFICES ASSUME [Next]_vars PROVE past \ {"missed"} \subseteq past'
  OBVIOUS
<1>1. CASE UNCHANGED vars
  BY <1>1 DEF vars
<1>2. CASE \/ EnqueueSnapshot \/ ClaimInbox \/ ClaimEvent \/ ClaimOperation \/ Finish \/ Pend \/ Backoff
           \/ EnqueueCreate \/ RelayReply \/ EnqueueUpload \/ EnqueueSync \/ EnqueueResync \/ Hear
           \/ EnqueuePost
  BY <1>2 DEF EnqueueSnapshot, ClaimInbox, ClaimEvent, ClaimOperation, Finish, Pend, Backoff, EnqueueCreate,
     RelayReply, EnqueueUpload, EnqueueSync, EnqueueResync, Hear, Heard, EnqueuePost, history
<1>3. CASE \/ CreateIssue \/ createDiscordOriginLink \/ UpsertStarter \/ SetDestination \/ SetRenderHash
           \/ UpsertAttachment \/ CompleteAttachment \/ ReadBody \/ WriteBody \/ SaveHash \/ EnsureLink
           \/ UpsertCopy \/ CreateThread \/ attachDiscordThread \/ CreateMessage \/ EditMessage
           \/ ReplaceSegments \/ DeleteMessage \/ MarkDeleted
  BY <1>3 DEF CreateIssue, createDiscordOriginLink, UpsertStarter, SetDestination, SetRenderHash,
     UpsertAttachment, CompleteAttachment, ReadBody, WriteBody, SaveHash, EnsureLink, UpsertCopy,
     CreateThread, attachDiscordThread, CreateMessage, EditMessage, ReplaceSegments, DeleteMessage,
     MarkDeleted, Post, OnlyItem, OnlyCopy, history
<1>4. CASE \/ \E seen \in BOOLEAN : OpenThread(seen)
           \/ EditStarter \/ PostReply \/ TouchThread \/ UserEdits \/ UserReverts
           \/ ReadInventory \/ Interrupt \/ GiveUp
  BY <1>4 DEF OpenThread, EditStarter, PostReply, TouchThread, UserEdits, UserReverts, UserWrites,
     ReadInventory, Interrupt, GiveUp, history
<1> QED BY <1>1, <1>2, <1>3, <1>4 DEF Next, Work

LEMMA LapsedStays == [Next]_vars /\ Lapsed => Lapsed'
BY PastStays DEF Lapsed

-----------------------------------------------------------------------------
(* Events are heard in the order of their stamps, unless one is late.      *)

HeardInOrder ==
  handler.job = "event" /\ handler.step \in {"copy", "post", "end"} =>
    /\ handler.event.stamp <= heard[handler.issue]
    /\ "late" \notin past => handler.event.stamp = heard[handler.issue]

StampInv ==
  /\ \A event \in hooks \cup plan.events : event.stamp <= stamp
  /\ \A i \in Issue : heard[i] <= stamp
  /\ \A event \in Event : <<"erase", event>> \in keys => event.stamp <= heard[event.issue]
  /\ item.hash # NoBody \/ handler.step = "hash" => item.placed
  /\ HeardInOrder
  /\ handler.step \in {"copy", "post"} => ~Suppress(handler.event)

LEMMA InitStamp == Init => StampInv
<1> SUFFICES ASSUME Init PROVE StampInv
  OBVIOUS
<1>1. hooks = {} /\ plan.events = {} /\ stamp = 0 /\ \A i \in Issue : heard[i] = 0
  BY DEF Init, Nothing
<1>2. handler.job = "none" /\ handler.step = "none" /\ item.hash = NoBody /\ keys = {}
  BY IdleTypes DEF Init
<1> QED BY <1>1, <1>2 DEF StampInv, HeardInOrder

\* What happens to a handler that is about an event, and to what it has found of it.
OnEvent ==
  \/ handler' = handler /\ item' = item
  \/ handler'.step \notin {"copy", "post", "end"}
  \/ handler'.job # "event" /\ handler'.step \notin {"copy", "post"}
  \/ /\ handler.step \in {"copy", "post"} /\ handler'.step \in {"post", "end"} /\ item' = item
     /\ handler'.event = handler.event /\ handler'.issue = handler.issue /\ handler.job = "event"

LEMMA StampFrame ==
  ASSUME CreationInv, StampInv, [Next]_vars, heard' = heard, stamp' = stamp \/ stamp' = stamp + 1,
         \A event \in hooks' \cup plan'.events :
           event \in hooks \cup plan.events \/ event.stamp = stamp',
         \A event \in Event : <<"erase", event>> \in keys' => <<"erase", event>> \in keys,
         item'.hash # NoBody \/ handler'.step = "hash" => item'.placed,
         OnEvent
  PROVE  StampInv'
<1>1. stamp \in Nat /\ stamp <= stamp' /\ stamp' \in Nat /\ heard \in [Issue -> Nat]
      /\ hooks \cup plan.events \subseteq Event
  BY DEF CreationInv, TypeOK, Plan
<1>2. \A event \in hooks' \cup plan'.events : event.stamp <= stamp'
  BY <1>1 DEF StampInv, Event
<1>3. \A i \in Issue : heard'[i] <= stamp'
  BY <1>1 DEF StampInv
<1>4. "late" \notin past' => "late" \notin past
  BY PastStays
<1>5. HeardInOrder'
  BY <1>4 DEF StampInv, HeardInOrder, OnEvent
<1>6. handler'.step \in {"copy", "post"} => ~Suppress(handler.event)'
  BY DEF StampInv, OnEvent, Suppress
<1> QED BY <1>2, <1>3, <1>5, <1>6 DEF StampInv

LEMMA OutsideStamp ==
  ASSUME CreationInv, StampInv, [Next]_vars,
         \/ \E seen \in BOOLEAN : OpenThread(seen)
         \/ EditStarter \/ PostReply \/ TouchThread \/ EnqueueSnapshot \/ ReadInventory \/ UNCHANGED vars
  PROVE  StampInv'
<1>1. CASE \/ \E seen \in BOOLEAN : OpenThread(seen)
           \/ EditStarter \/ PostReply \/ TouchThread
  <2>1. OutsideDiscord
    BY <1>1 DEF OpenThread, EditStarter, PostReply, TouchThread
  <2>2. UNCHANGED <<hooks, stamp, plan, item, keys, handler, heard>>
    BY <2>1 DEF OutsideDiscord, github, record, outbox
  <2> QED BY <2>2, StampFrame DEF StampInv, OnEvent
<1>2. CASE EnqueueSnapshot
  <2>1. UNCHANGED <<stamp, item, keys, handler, heard>>
    BY <1>2 DEF EnqueueSnapshot, record, outbox
  <2>2. \A event \in hooks' \cup plan'.events : event \in hooks \cup plan.events
    BY <1>2 DEF EnqueueSnapshot, Nothing
  <2> QED BY <2>1, <2>2, StampFrame DEF StampInv, OnEvent
<1>3. CASE ReadInventory
  <2>1. UNCHANGED <<stamp, hooks, item, keys, handler, heard>>
    BY <1>3 DEF ReadInventory, github, record, outbox, history
  <2>2. \A event \in plan'.events : event.stamp = stamp
    BY <1>3 DEF ReadInventory
  <2> QED BY <2>1, <2>2, StampFrame DEF StampInv, OnEvent
<1>4. CASE UNCHANGED vars
  <2>1. UNCHANGED <<stamp, hooks, plan, item, keys, handler, heard>>
    BY <1>4 DEF vars
  <2> QED BY <2>1, StampFrame DEF StampInv, OnEvent
<1> QED BY <1>1, <1>2, <1>3, <1>4

LEMMA UserStamps ==
  ASSUME CreationInv, NEW i \in Issue, NEW body \in Body, UserWrites(i, body)
  PROVE  /\ stamp \in Nat /\ stamp' = stamp + 1
         /\ \A event \in hooks' : event \in hooks \/
              (/\ event.kind = "edited" /\ ~event.own /\ event.issue = i /\ event.body = body
               /\ event.stamp = stamp + 1)
         /\ \E event \in hooks' : event.issue = i /\ event.stamp = stamp + 1
         /\ hooks \subseteq hooks'
         /\ issues' = [issues EXCEPT ![i] = body]
<1> DEFINE new == [kind |-> "edited", issue |-> i, body |-> body, own |-> FALSE, live |-> TRUE,
                   stamp |-> stamp']
<1>1. stamp \in Nat /\ stamp' = stamp + 1 /\ hooks' = hooks \cup {new}
      /\ issues' = [issues EXCEPT ![i] = body]
  BY DEF CreationInv, TypeOK, UserWrites, Announce
<1>2. new.kind = "edited" /\ ~new.own /\ new.issue = i /\ new.body = body /\ new.stamp = stamp + 1
  BY <1>1
<1> HIDE DEF new
<1>3. new \in hooks' /\ hooks \subseteq hooks' /\ \A event \in hooks' : event \in hooks \/ event = new
  BY <1>1
<1>4. \A event \in hooks' : event \in hooks \/
        (/\ event.kind = "edited" /\ ~event.own /\ event.issue = i /\ event.body = body
         /\ event.stamp = stamp + 1)
  BY <1>2, <1>3, Zenon
<1>5. \E event \in hooks' : event.issue = i /\ event.stamp = stamp + 1
  BY <1>2, <1>3
<1> QED BY <1>1, <1>3, <1>4, <1>5

LEMMA UsersWrite ==
  ASSUME CreationInv, UserEdits \/ UserReverts
  PROVE  \E i \in Issue, body \in Body :
           UserWrites(i, body) /\ (body = Users \/ (i = item.issue /\ body = item.hash))
<1>1. CASE UserEdits
  BY <1>1, NoneTypes DEF UserEdits
<1>2. CASE UserReverts
  BY <1>2 DEF UserReverts, UserWrites, Made, CreationInv, TypeOK, Item
<1> QED BY <1>1, <1>2

LEMMA UsersStamp ==
  ASSUME CreationInv, StampInv, [Next]_vars, UserEdits \/ UserReverts
  PROVE  StampInv'
<1>1. PICK i \in Issue, body \in Body : UserWrites(i, body)
  BY UsersWrite
<1>2. UNCHANGED <<plan, item, keys, handler, heard>>
  BY <1>1 DEF UserWrites, record, outbox
<1>3. stamp' = stamp + 1 /\ \A event \in hooks' : event \in hooks \/ event.stamp = stamp + 1
  BY <1>1, UserStamps
<1> QED BY <1>2, <1>3, StampFrame DEF StampInv, OnEvent

LEMMA ClaimStamp ==
  ASSUME CreationInv, StampInv, [Next]_vars, ClaimInbox \/ ClaimEvent \/ ClaimOperation
  PROVE  StampInv'
<1>1. UNCHANGED <<hooks, stamp, plan, item, keys, heard>>
  BY DEF ClaimInbox, ClaimEvent, ClaimOperation, ClaimOnly, WorkerOnly, github, record, outbox
<1>2. CreationInv'
  BY ClaimInboxKeeps, ClaimEventKeeps, ClaimOperationKeeps
<1>3. handler'.step \notin {"copy", "post", "hash"} /\ (handler'.step = "end" => handler'.job # "event")
  <2>1. CASE ClaimInbox
    <3>1. handler'.job = "inbox"
      BY <2>1 DEF ClaimInbox, Idle
    <3> QED BY <3>1, <1>2 DEF CreationInv, ClaimsHeld, InboxSteps
  <2>2. CASE ClaimEvent
    BY <2>2 DEF ClaimEvent, Idle
  <2>3. CASE ClaimOperation
    <3>1. \A op \in Operation : FirstStep(op) \notin {"copy", "post", "hash"}
      BY DEF FirstStep, FirstStepOfAll, Operation
    <3>2. \A n \in 1..Len(ops) : ops[n] \in Operation
      BY ElementOfSeq DEF CreationInv, TypeOK
    <3>3. \E n \in 1..Len(ops) : handler'.step = FirstStep(ops[n]) /\ handler'.job = "operation"
      BY <2>3 DEF ClaimOperation, Idle
    <3> QED BY <3>1, <3>2, <3>3
  <2> QED BY <2>1, <2>2, <2>3
<1> QED BY <1>1, <1>3, StampFrame DEF StampInv, OnEvent

LEMMA EndStamp ==
  ASSUME CreationInv, StampInv, [Next]_vars, Finish \/ Pend \/ Backoff \/ Interrupt \/ GiveUp
  PROVE  StampInv'
<1>1. UNCHANGED <<stamp, item, keys, heard>> /\ hooks' \subseteq hooks /\ plan' \in {plan, Nothing}
  BY DEF Finish, Pend, Backoff, Interrupt, GiveUp, SettleRow, github, record, history, outbox
<1>2. handler' = handler \/ handler'.step = "none"
  BY IdleTypes DEF Finish, Pend, Backoff, Interrupt, GiveUp, SettleRow
<1>3. hooks' \cup plan'.events \subseteq hooks \cup plan.events
  BY <1>1 DEF Nothing
<1> QED BY <1>1, <1>2, <1>3, StampFrame DEF StampInv, OnEvent

LEMMA EnqueueStamp ==
  ASSUME CreationInv, StampInv, [Next]_vars,
         EnqueueCreate \/ EnqueueUpload \/ EnqueueSync \/ EnqueueResync \/ EnqueuePost \/ RelayReply
  PROVE  StampInv'
<1>1. UNCHANGED <<hooks, stamp, plan, item, heard>>
  BY DEF EnqueueCreate, EnqueueUpload, EnqueueSync, EnqueueResync, EnqueuePost, RelayReply, Enqueue, WorkerOnly,
     github, record, history
<1>2. \A event \in Event : <<"erase", event>> \in keys' => <<"erase", event>> \in keys
  <2>1. CASE RelayReply
    BY <2>1 DEF RelayReply, outbox
  <2>2. CASE ~RelayReply
    <3> SUFFICES \E key : keys' = keys \cup {key} /\ \A event : key # <<"erase", event>>
      OBVIOUS
    <3>1. CASE EnqueueCreate
      BY <3>1 DEF EnqueueCreate, Enqueue
    <3>2. CASE EnqueueUpload
      BY <3>2 DEF EnqueueUpload, Enqueue
    <3>3. CASE EnqueueSync
      BY <3>3 DEF EnqueueSync, Enqueue
    <3>4. CASE EnqueueResync
      BY <3>4 DEF EnqueueResync, Enqueue
    <3>5. CASE EnqueuePost
      BY <3>5 DEF EnqueuePost, Enqueue
    <3> QED BY <2>2, <3>1, <3>2, <3>3, <3>4, <3>5
  <2> QED BY <2>1, <2>2
<1>3. /\ handler.step \in {"fetch", "upload", "sync", "resync", "post", "reply"}
      /\ handler'.step \in {"end", "sync"} /\ handler'.job = handler.job /\ handler'.event = handler.event
      /\ handler'.issue = handler.issue
  BY DEF EnqueueCreate, EnqueueUpload, EnqueueSync, EnqueueResync, EnqueuePost, RelayReply, Goto, CreationInv,
     TypeOK, Handler
<1>4. OnEvent
  BY <1>1, <1>3, RowOfStep DEF OnEvent, InboxSteps, EventSteps, StepsOf, CreateSteps
<1> QED BY <1>1, <1>2, <1>3, <1>4, StampFrame DEF StampInv

\* The handlers of the starter and of the operations.
LEMMA StarterStamp ==
  ASSUME CreationInv, StampInv, [Next]_vars,
         \/ createDiscordOriginLink \/ UpsertStarter \/ SetDestination \/ SetRenderHash
         \/ UpsertAttachment \/ CompleteAttachment \/ ReadBody \/ SaveHash
  PROVE  StampInv'
<1>1. UNCHANGED <<hooks, stamp, plan, keys, heard>>
  BY DEF createDiscordOriginLink, UpsertStarter, SetDestination, SetRenderHash, UpsertAttachment,
     CompleteAttachment, ReadBody, SaveHash, OnlyItem, WorkerOnly, github, outbox, history
<1>2. handler.step \in {"connect", "starter", "place", "hash", "attach", "store", "read", "save"}
      /\ handler'.job = handler.job
      /\ handler'.step \in {"starter", "place", "hash", "attach", "upload", "resync", "write", "end"}
      /\ (handler'.step = "hash" => handler.step = "place")
  BY DEF createDiscordOriginLink, UpsertStarter, SetDestination, SetRenderHash, UpsertAttachment,
     CompleteAttachment, ReadBody, SaveHash, Goto, CreationInv, TypeOK, Handler
<1>3. handler.job = "operation" /\ (handler.step = "save" => item.hash # NoBody)
  <2>1. PICK kind \in {"create", "upload", "body"} : handler.step \in StepsOf(kind) \ {"end"}
    BY <1>2 DEF StepsOf, CreateSteps
  <2>2. handler.job = "operation" /\ ops[handler.row].kind = kind
    BY <2>1, RowOfStep
  <2>3. handler.step = "save" => kind = "body"
    BY <2>1 DEF StepsOf, CreateSteps
  <2> QED BY <2>2, <2>3 DEF CreationInv, ClaimsHeld, RowsFit
<1>4. item'.hash # NoBody \/ handler'.step = "hash" => item'.placed
  <2>1. CASE SetDestination
    BY <2>1 DEF SetDestination, OnlyItem, CreationInv, TypeOK, Item
  <2>2. CASE SetRenderHash \/ SaveHash
    <3>1. item'.placed = item.placed /\ handler.step \in {"hash", "save"}
      BY <2>2 DEF SetRenderHash, SaveHash, OnlyItem, CreationInv, TypeOK, Item
    <3> QED BY <1>3, <3>1 DEF StampInv
  <2>3. CASE createDiscordOriginLink \/ UpsertStarter \/ UpsertAttachment \/ CompleteAttachment \/ ReadBody
    <3>1. item'.placed = item.placed /\ item'.hash = item.hash
      BY <2>3 DEF createDiscordOriginLink, UpsertStarter, UpsertAttachment, CompleteAttachment, ReadBody, OnlyItem,
         CreationInv, TypeOK, Item
    <3>2. handler'.step # "hash"
      BY <2>3 DEF createDiscordOriginLink, UpsertStarter, UpsertAttachment, CompleteAttachment, ReadBody, Goto,
         CreationInv, TypeOK, Handler
    <3> QED BY <3>1, <3>2 DEF StampInv
  <2> QED BY <2>1, <2>2, <2>3
<1> QED BY <1>1, <1>2, <1>3, <1>4, StampFrame DEF OnEvent

LEMMA IssueStamp ==
  ASSUME CreationInv, StampInv, [Next]_vars, CreateIssue \/ WriteBody
  PROVE  StampInv'
<1>1. UNCHANGED <<item, plan, keys, heard>>
  BY DEF CreateIssue, WriteBody, WorkerOnly, record, outbox, history
<1>2. /\ stamp' = stamp \/ stamp' = stamp + 1
      /\ \A event \in hooks' : event \in hooks \/ event.stamp = stamp'
  <2>1. ASSUME NEW i, NEW kind \in {"opened", "edited"}, Announce(i, kind, handler.body, TRUE)
        PROVE  stamp' = stamp + 1 /\ \A event \in hooks' : event \in hooks \/ event.stamp = stamp'
    BY <2>1 DEF Announce
  <2>2. "opened" \in {"opened", "edited"} /\ "edited" \in {"opened", "edited"}
    OBVIOUS
  <2>3. CASE UNCHANGED github
    BY <2>3 DEF github
  <2> QED BY <2>1, <2>2, <2>3, Zenon DEF CreateIssue, WriteBody
<1>3. handler'.step \in {"connect", "save"}
  BY DEF CreateIssue, WriteBody, Goto, CreationInv, TypeOK, Handler
<1> QED BY <1>1, <1>2, <1>3, StampFrame DEF StampInv, OnEvent

LEMMA CopyStamp ==
  ASSUME CreationInv, StampInv, [Next]_vars,
         \/ EnsureLink \/ UpsertCopy \/ CreateThread \/ attachDiscordThread \/ CreateMessage \/ EditMessage
         \/ ReplaceSegments \/ DeleteMessage \/ MarkDeleted
  PROVE  StampInv'
<1>1. UNCHANGED <<hooks, stamp, plan, keys, heard, item>>
  BY DEF EnsureLink, UpsertCopy, CreateThread, attachDiscordThread, CreateMessage, EditMessage, ReplaceSegments,
     DeleteMessage, MarkDeleted, Post, OnlyCopy, WorkerOnly, github, record, outbox, history
<1>2. handler'.job = handler.job /\ handler'.event = handler.event /\ handler'.issue = handler.issue
  BY DEF EnsureLink, UpsertCopy, CreateThread, attachDiscordThread, CreateMessage, EditMessage, ReplaceSegments,
     DeleteMessage, MarkDeleted, Post, Goto, CreationInv, TypeOK, Handler
<1>3. CASE EnsureLink \/ UpsertCopy
  <2>1. (handler.step = "copy" /\ handler'.step = "post") \/ handler'.step = "echo"
    BY <1>3 DEF EnsureLink, UpsertCopy, Goto, CreationInv, TypeOK, Handler
  <2>2. handler.step = "copy" => handler.job = "event"
    BY RowOfStep DEF EventSteps
  <2> QED BY <1>1, <1>2, <2>1, <2>2, StampFrame DEF StampInv, OnEvent
<1>4. CASE ~(EnsureLink \/ UpsertCopy)
  <2>1. /\ handler.step \in {"thread", "join", "message", "edit", "segments", "erase", "mark"}
        /\ handler'.step \in {"join", "segments", "mark", "end"}
    BY <1>4 DEF CreateThread, attachDiscordThread, CreateMessage, EditMessage, ReplaceSegments, DeleteMessage,
       MarkDeleted, Post, Goto, CreationInv, TypeOK, Handler
  <2>2. PICK kind \in {"post", "erase"} : handler.step \in StepsOf(kind) \ {"end"}
    BY <2>1 DEF StepsOf
  <2>3. handler.job = "operation"
    BY <2>2, RowOfStep
  <2> QED BY <1>1, <1>2, <2>1, <2>3, StampFrame DEF StampInv, OnEvent
<1> QED BY <1>3, <1>4

LEMMA HearStamp ==
  ASSUME CreationInv, StampInv, [Next]_vars, Hear
  PROVE  StampInv'
<1> DEFINE event == handler.event
<1>1. /\ handler.step = "echo" /\ handler.job = "event" /\ event \in hooks /\ event \in Event
      /\ handler.issue = event.issue /\ event.issue \in Issue /\ event.stamp \in Nat
  <2>1. handler.step = "echo" /\ handler.job = "event"
    BY RowOfStep DEF Hear, Heard, EventSteps
  <2> QED BY <2>1 DEF CreationInv, TypeOK, ClaimsHeld, RowsFit, Made, Event
<1>2. /\ handler'.job = "event" /\ handler'.event = event /\ handler'.issue = handler.issue
      /\ handler'.step = IF Suppress(event) THEN "end" ELSE "copy"
  BY <1>1 DEF Hear, Heard, Goto, CreationInv, TypeOK, Handler
<1>3. UNCHANGED <<hooks, stamp, plan, item>>
  BY DEF Hear, Enqueue, WorkerOnly, github, record
<1>4. /\ heard' = [heard EXCEPT ![event.issue] = IF event.stamp > heard[event.issue] THEN event.stamp
                                                 ELSE heard[event.issue]]
      /\ past' = past \cup Belated(event)
  BY DEF Hear, Heard
<1>5. heard \in [Issue -> Nat]
  BY DEF CreationInv, TypeOK
<1>6. /\ event.stamp <= heard'[event.issue]
      /\ \A i \in Issue : heard[i] <= heard'[i] /\ heard'[i] \in {heard[i], event.stamp}
      /\ "late" \notin past' => heard'[event.issue] = event.stamp
  <2>1. /\ event.stamp <= heard'[event.issue]
        /\ \A i \in Issue : heard[i] <= heard'[i] /\ heard'[i] \in {heard[i], event.stamp}
    BY <1>1, <1>4, <1>5
  <2>2. "late" \notin past' => ~(event.stamp < heard[event.issue])
    BY <1>4 DEF Belated
  <2> HIDE DEF event
  <2> QED BY <1>1, <1>4, <1>5, <2>1, <2>2
<1>7. \A i \in Issue : heard'[i] <= stamp'
  BY <1>1, <1>3, <1>6 DEF StampInv
<1>8. \A e \in Event : <<"erase", e>> \in keys' => <<"erase", e>> \in keys \/ e = event
  <2>1. CASE Enqueue(<<"erase", event>>, Op("erase", handler.issue, 0))
    BY <2>1 DEF Enqueue
  <2>2. CASE keys' = keys
    BY <2>2
  <2> QED BY <2>1, <2>2 DEF Hear, outbox
<1>9. \A e \in Event : <<"erase", e>> \in keys' => e.stamp <= heard'[e.issue]
  <2> SUFFICES ASSUME NEW e \in Event, <<"erase", e>> \in keys' PROVE e.stamp <= heard'[e.issue]
    OBVIOUS
  <2>1. CASE e = event
    BY <2>1, <1>6
  <2>2. CASE <<"erase", e>> \in keys
    <3>1. e.stamp <= heard[e.issue] /\ e.stamp \in Nat /\ e.issue \in 0..MaxIssues
      BY <2>2 DEF StampInv, Event
    <3>2. CASE e.issue \in Issue
      <4>1. heard[e.issue] <= heard'[e.issue] /\ heard[e.issue] \in Nat /\ heard'[e.issue] \in Nat
        BY <1>1, <1>5, <1>6, <3>2
      <4> QED BY <3>1, <4>1
    <3>3. CASE e.issue \notin Issue
      <4>1. heard'[e.issue] = heard[e.issue]
        BY <1>1, <1>4, <1>5, <3>3
      <4> QED BY <3>1, <4>1
    <3> QED BY <3>2, <3>3
  <2> QED BY <1>8, <2>1, <2>2
<1>10. HeardInOrder'
  BY <1>1, <1>2, <1>6 DEF HeardInOrder
<1>11. handler'.step \in {"copy", "post"} => ~Suppress(handler.event)'
  BY <1>2, <1>3 DEF Suppress
<1>12. /\ \A e \in hooks' \cup plan'.events : e.stamp <= stamp'
       /\ item'.hash # NoBody \/ handler'.step = "hash" => item'.placed
  BY <1>2, <1>3 DEF StampInv
<1> QED BY <1>7, <1>9, <1>10, <1>11, <1>12 DEF StampInv

LEMMA StampStep == CreationInv /\ StampInv /\ [Next]_vars => StampInv'
BY OutsideStamp, UsersStamp, ClaimStamp, EndStamp, EnqueueStamp, StarterStamp, IssueStamp, CopyStamp, HearStamp
   DEF Next, Work
-----------------------------------------------------------------------------
(* The messages of the copies, and the operations on them.                 *)

\* A copy has its message to itself.
MessagesApart ==
  /\ \A i \in Issue : copies[i].message <= Len(messages)
  /\ \A i, j \in Issue : i # j /\ copies[i].message = copies[j].message => copies[i].message = NoMessage

CopiesNamed ==
  /\ \A i \in Issue : copies[i].state = "none" => copies[i].message = NoMessage
  /\ \A n \in 1..Len(ops) : ops[n].kind = "post" => copies[ops[n].issue].state # "none"
  /\ handler.step = "post" =>
       copies[handler.issue].state # "none" /\ copies[handler.issue].body = handler.event.body

\* The message a handler is about is the copy's, or one that nobody has yet.
HandlerHolds ==
  /\ handler.step \in {"edit", "erase"} =>
       handler.message = copies[handler.issue].message /\ handler.message # NoMessage
  /\ handler.step \in {"join", "segments"} =>
       /\ handler.message \in 1..Len(messages) /\ messages[handler.message] = handler.body
       /\ \A i \in Issue \ {handler.issue} : copies[i].message # handler.message

RunsOn(kind) == handler.job = "operation" /\ ops[handler.row].kind = kind

\* The post and the deletion of a copy run in the order of their rows.
InTurn ==
  RunsOn("post") \/ RunsOn("erase") =>
    Lapsed \/ \A m \in 1..(handler.row - 1) : ~Crossing(ops[m], ops[handler.row])

\* What a post and a deletion of the copy of the person's issue have done so far.
OnCopy ==
  handler.issue = item.issue =>
    /\ RunsOn("post") =>
         /\ handler.step \in {"message", "edit", "segments"} => handler.body = copies[item.issue].body
         /\ handler.step = "end" => Showing(item.issue) = copies[item.issue].body
    /\ RunsOn("erase") /\ handler.step \in {"mark", "end"} => Showing(item.issue) = NoBody

CopyInv == MessagesApart /\ CopiesNamed /\ HandlerHolds /\ InTurn /\ OnCopy

LEMMA InitCopy == Init => CopyInv
<1> SUFFICES ASSUME Init PROVE CopyInv
  OBVIOUS
<1>1. /\ \A i \in Issue : copies[i].message = NoMessage /\ copies[i].state = "none"
      /\ messages = <<>> /\ ops = <<>> /\ handler.job = "none" /\ handler.step = "none"
  BY IdleTypes DEF Init
<1>2. Len(messages) = 0 /\ Len(ops) = 0
  BY <1>1, EmptySeq
<1> QED BY <1>1, <1>2 DEF CopyInv, MessagesApart, CopiesNamed, HandlerHolds, InTurn, OnCopy, RunsOn, NoMessage

\* A handler that goes on or ends, and has nothing to do with copies afterwards.
Elsewhere ==
  /\ handler'.step \notin {"post", "edit", "erase", "join", "segments"}
  /\ ~RunsOn("post")' /\ ~RunsOn("erase")'

\* The rows are the same but for the time they are due.
SameRows ==
  /\ Len(ops') = Len(ops)
  /\ \A n \in 1..Len(ops) : ops'[n].kind = ops[n].kind /\ ops'[n].issue = ops[n].issue

LEMMA DueRows ==
  ASSUME CreationInv, Interrupt \/ Backoff
  PROVE  SameRows
<1>1. ops \in Seq(Operation)
  BY DEF CreationInv, TypeOK
<1>2. \/ ops' = ops
      \/ \E n \in 1..Len(ops) : \/ ops' = [ops EXCEPT ![n].due = TRUE]
                               \/ ops' = [ops EXCEPT ![n].due = FALSE]
  <2>1. handler.job = "operation" => handler.row \in 1..Len(ops)
    BY DEF CreationInv, ClaimsHeld
  <2> QED BY <2>1 DEF Interrupt, Backoff
<1>3. CASE ops' = ops
  BY <1>3 DEF SameRows
<1>4. ASSUME NEW n \in 1..Len(ops), ops' = [ops EXCEPT ![n].due = TRUE]
      PROVE  SameRows
  <2>1. TRUE \in BOOLEAN
    OBVIOUS
  <2>2. /\ Len([ops EXCEPT ![n].due = TRUE]) = Len(ops)
        /\ \A m \in 1..Len(ops) : /\ [ops EXCEPT ![n].due = TRUE][m].kind = ops[m].kind
                                  /\ [ops EXCEPT ![n].due = TRUE][m].issue = ops[m].issue
    BY <1>1, <2>1, DueTypes, Zenon
  <2> QED BY <1>4, <2>2, Zenon DEF SameRows
<1>5. ASSUME NEW n \in 1..Len(ops), ops' = [ops EXCEPT ![n].due = FALSE]
      PROVE  SameRows
  <2>1. FALSE \in BOOLEAN
    OBVIOUS
  <2>2. /\ Len([ops EXCEPT ![n].due = FALSE]) = Len(ops)
        /\ \A m \in 1..Len(ops) : /\ [ops EXCEPT ![n].due = FALSE][m].kind = ops[m].kind
                                  /\ [ops EXCEPT ![n].due = FALSE][m].issue = ops[m].issue
    BY <1>1, <2>1, DueTypes, Zenon
  <2> QED BY <1>5, <2>2, Zenon DEF SameRows
<1> QED BY <1>2, <1>3, <1>4, <1>5

\* A row is added, or not.
LEMMA GrownRows ==
  ASSUME CreationInv, NEW op \in Operation, ops' = ops \/ ops' = Append(ops, op)
  PROVE  /\ \A n \in 1..Len(ops) : n \in 1..Len(ops') /\ ops'[n] = ops[n]
         /\ \A n \in 1..Len(ops') : (n \in 1..Len(ops) /\ ops'[n] = ops[n]) \/ ops'[n] = op
         /\ ops' # ops => /\ Len(ops) \in Nat /\ Len(ops') = Len(ops) + 1
                          /\ ops'[Len(ops) + 1] = op
<1>1. ops \in Seq(Operation)
  BY DEF CreationInv, TypeOK
<1>2. CASE ops' = ops
  BY <1>2
<1>3. CASE ops' = Append(ops, op)
  <2>1. /\ Append(ops, op) \in Seq(Operation) /\ Len(ops) \in Nat
        /\ Len(Append(ops, op)) = Len(ops) + 1
        /\ \A n \in 1..Len(ops) : Append(ops, op)[n] = ops[n]
        /\ Append(ops, op)[Len(ops) + 1] = op
        /\ \A n \in 1..Len(Append(ops, op)) : n \in 1..Len(ops) \/ Append(ops, op)[n] = op
    BY <1>1, AppendTypes
  <2> QED BY <1>3, <2>1
<1> QED BY <1>2, <1>3

\* The operations on the starter and its issue.
OnStarter(op) ==
  op \in Operation /\ op.kind \in {"create", "upload", "body"}
  /\ (op.kind \in {"upload", "body"} => op.issue = item.issue)

LEMMA StarterRow ==
  ASSUME CreationInv, EnqueueCreate \/ EnqueueUpload \/ EnqueueSync \/ EnqueueResync
  PROVE  \E op : OnStarter(op) /\ (ops' = ops \/ ops' = Append(ops, op))
<1>1. starter \in 0..MaxText /\ 0 \in 0..MaxText /\ item.issue \in 0..MaxIssues /\ NoIssue \in 0..MaxIssues
  BY NoneTypes DEF CreationInv, TypeOK, Item
<1>2. \A kind \in {"create", "upload", "body"}, i \in 0..MaxIssues, text \in 0..MaxText :
        /\ Op(kind, i, text) \in Operation
        /\ Op(kind, i, text).kind = kind /\ Op(kind, i, text).issue = i
  BY OpTypes
<1>3. PICK op \in {Op("create", NoIssue, starter), Op("upload", item.issue, 0), Op("body", item.issue, 0)} :
        ops' = ops \/ ops' = Append(ops, op)
  BY DEF EnqueueCreate, EnqueueUpload, EnqueueSync, EnqueueResync, Enqueue
<1>4. OnStarter(op)
  <2>1. CASE op = Op("create", NoIssue, starter)
    BY <1>1, <1>2, <2>1 DEF OnStarter
  <2>2. CASE op = Op("upload", item.issue, 0)
    BY <1>1, <1>2, <2>2 DEF OnStarter
  <2>3. CASE op = Op("body", item.issue, 0)
    BY <1>1, <1>2, <2>3 DEF OnStarter
  <2> QED BY <1>3, <2>1, <2>2, <2>3
<1> QED BY <1>3, <1>4

LEMMA CopyFrame ==
  ASSUME CreationInv, CopyInv, [Next]_vars, UNCHANGED <<copies, messages>>,
         \A n \in 1..Len(ops') : ops'[n].kind = "post" => copies[ops'[n].issue].state # "none",
         \/ Elsewhere
         \/ UNCHANGED handler /\ item'.issue = item.issue /\ SameRows
  PROVE  CopyInv'
<1>1. MessagesApart'
  BY DEF CopyInv, MessagesApart
<1>2. CopiesNamed'
  BY DEF CopyInv, CopiesNamed, Elsewhere
<1>3. HandlerHolds'
  BY DEF CopyInv, HandlerHolds, Elsewhere
<1>4. CASE Elsewhere
  BY <1>1, <1>2, <1>3, <1>4 DEF CopyInv, InTurn, OnCopy, Elsewhere
<1>5. CASE UNCHANGED handler /\ item'.issue = item.issue /\ SameRows
  <2>1. handler.job = "operation" => handler.row \in 1..Len(ops) /\ Len(ops) \in Nat
    BY LenProperties DEF CreationInv, ClaimsHeld, TypeOK
  <2>2. \A kind : RunsOn(kind)' <=> RunsOn(kind)
    BY <1>5, <2>1 DEF RunsOn, SameRows
  <2>3. InTurn'
    <3> SUFFICES ASSUME RunsOn("post") \/ RunsOn("erase"), ~Lapsed', NEW m \in 1..(handler.row - 1)
                 PROVE  ~Crossing(ops'[m], ops'[handler.row])
      BY <1>5, <2>2 DEF InTurn
    <3>1. m \in 1..Len(ops) /\ handler.row \in 1..Len(ops)
      BY <2>1 DEF RunsOn
    <3>2. ~Crossing(ops[m], ops[handler.row])
      BY LapsedStays DEF CopyInv, InTurn
    <3> QED BY <1>5, <3>1, <3>2 DEF Crossing, SameRows
  <2>4. OnCopy'
    <3>1. Showing(item.issue)' = Showing(item.issue)
      BY <1>5 DEF Showing
    <3> QED BY <1>5, <2>2, <3>1 DEF CopyInv, OnCopy
  <2> QED BY <1>1, <1>2, <1>3, <2>3, <2>4 DEF CopyInv
<1> QED BY <1>4, <1>5

LEMMA OutsideCopy ==
  ASSUME CreationInv, CopyInv, [Next]_vars,
         \/ \E seen \in BOOLEAN : OpenThread(seen)
         \/ EditStarter \/ PostReply \/ TouchThread \/ UserEdits \/ UserReverts
         \/ EnqueueSnapshot \/ ReadInventory \/ UNCHANGED vars
  PROVE  CopyInv'
<1>1. UNCHANGED <<ops, item, copies, messages, handler>>
  BY DEF OpenThread, EditStarter, PostReply, TouchThread, OutsideDiscord, UserEdits, UserReverts, UserWrites,
     EnqueueSnapshot, ReadInventory, record, discord, outbox, vars
<1>2. SameRows /\ \A n \in 1..Len(ops') : ops'[n].kind = "post" => copies[ops'[n].issue].state # "none"
  BY <1>1 DEF SameRows, CopyInv, CopiesNamed
<1> QED BY <1>1, <1>2, CopyFrame

LEMMA EndCopy ==
  ASSUME CreationInv, CopyInv, [Next]_vars, Finish \/ Pend \/ Backoff \/ Interrupt \/ GiveUp
  PROVE  CopyInv'
<1>1. UNCHANGED <<item, copies, messages>>
  BY DEF Finish, Pend, Backoff, Interrupt, GiveUp, SettleRow, record, discord
<1>2. ops \in Seq(Operation) /\ Len(ops) \in Nat
  BY LenProperties DEF CreationInv, TypeOK
<1>3. ASSUME handler' = Idle PROVE Elsewhere
  BY <1>3, IdleTypes DEF Elsewhere, RunsOn
<1>4. CASE Backoff \/ Interrupt
  <2>1. SameRows
    BY <1>4, DueRows
  <2>2. \A n \in 1..Len(ops') : ops'[n].kind = "post" => copies[ops'[n].issue].state # "none"
    BY <2>1 DEF SameRows, CopyInv, CopiesNamed
  <2>3. handler' = Idle \/ UNCHANGED handler
    BY <1>4 DEF Backoff, Interrupt
  <2> QED BY <1>1, <1>3, <2>1, <2>2, <2>3, CopyFrame
<1>5. CASE Finish \/ Pend \/ GiveUp
  <2>1. handler' = Idle
    BY <1>5 DEF Finish, Pend, GiveUp, SettleRow
  <2>2. \A n \in 1..Len(ops') : \E m \in 1..Len(ops) : ops'[n] = ops[m]
    <3>1. CASE ops' = ops
      BY <3>1
    <3>2. CASE handler.job = "operation" /\ ops' = RemoveAt(ops, handler.row)
      <4>1. handler.row \in 1..Len(ops)
        BY <3>2 DEF CreationInv, ClaimsHeld
      <4>2. \A n \in 1..Len(RemoveAt(ops, handler.row)) :
              \E m \in 1..Len(ops) : RemoveAt(ops, handler.row)[n] = ops[m]
        BY <1>2, <4>1, RemoveKeeps
      <4> QED BY <3>2, <4>2
    <3> QED BY <1>5, <3>1, <3>2 DEF Finish, Pend, GiveUp, SettleRow, outbox
  <2>3. \A n \in 1..Len(ops') : ops'[n].kind = "post" => copies[ops'[n].issue].state # "none"
    BY <2>2 DEF CopyInv, CopiesNamed
  <2> QED BY <1>1, <1>3, <2>1, <2>3, CopyFrame
<1> QED BY <1>4, <1>5

\* Where the handlers of the starter are, and where they go.
LEMMA StarterSteps ==
  ASSUME CreationInv,
         \/ EnqueueCreate \/ EnqueueUpload \/ EnqueueSync \/ EnqueueResync \/ RelayReply
         \/ CreateIssue \/ createDiscordOriginLink \/ UpsertStarter \/ SetDestination \/ SetRenderHash
         \/ UpsertAttachment \/ CompleteAttachment \/ ReadBody \/ WriteBody \/ SaveHash
  PROVE  /\ handler.step \in (InboxSteps \cup StepsOf("create") \cup StepsOf("upload") \cup StepsOf("body")) \ {"end"}
         /\ handler'.step \in CreateSteps \cup {"end", "resync", "write", "save"}
         /\ handler'.job = handler.job /\ handler'.row = handler.row
<1>1. handler \in Handler
  BY DEF CreationInv, TypeOK
<1>2. \A step : Goto(step) =>
       handler'.step = step /\ handler'.job = handler.job /\ handler'.row = handler.row
  BY <1>1 DEF Goto, Handler
<1>3. CASE EnqueueCreate \/ RelayReply \/ EnqueueUpload \/ EnqueueSync \/ EnqueueResync
  BY <1>2, <1>3 DEF EnqueueCreate, EnqueueUpload, EnqueueSync, EnqueueResync, RelayReply,
     InboxSteps, StepsOf, CreateSteps
<1>4. CASE CreateIssue
  BY <1>1, <1>4 DEF CreateIssue, Handler, StepsOf, CreateSteps
<1>5. CASE \/ createDiscordOriginLink \/ UpsertStarter \/ SetDestination \/ SetRenderHash
           \/ UpsertAttachment \/ CompleteAttachment
  BY <1>2, <1>5 DEF createDiscordOriginLink, UpsertStarter, SetDestination, SetRenderHash,
     UpsertAttachment, CompleteAttachment, StepsOf, CreateSteps
<1>6. CASE ReadBody \/ WriteBody \/ SaveHash
  BY <1>2, <1>6 DEF ReadBody, WriteBody, SaveHash, StepsOf
<1> QED BY <1>3, <1>4, <1>5, <1>6

\* The handlers of the starter, and the events, leave the copies alone.
LEMMA StarterCopy ==
  ASSUME CreationInv, CopyInv, [Next]_vars,
         \/ EnqueueCreate \/ EnqueueUpload \/ EnqueueSync \/ EnqueueResync \/ RelayReply
         \/ CreateIssue \/ createDiscordOriginLink \/ UpsertStarter \/ SetDestination \/ SetRenderHash
         \/ UpsertAttachment \/ CompleteAttachment \/ ReadBody \/ WriteBody \/ SaveHash
  PROVE  CopyInv'
<1>1. UNCHANGED <<copies, messages>>
  BY DEF EnqueueCreate, EnqueueUpload, EnqueueSync, EnqueueResync, RelayReply, CreateIssue,
     createDiscordOriginLink, UpsertStarter, SetDestination, SetRenderHash, UpsertAttachment,
     CompleteAttachment, ReadBody, WriteBody, SaveHash, Enqueue, OnlyItem, WorkerOnly, record, discord
<1>2. /\ handler.step \in (InboxSteps \cup StepsOf("create") \cup StepsOf("upload") \cup StepsOf("body")) \ {"end"}
      /\ handler'.step \in CreateSteps \cup {"end", "resync", "write", "save"}
      /\ handler'.job = handler.job /\ handler'.row = handler.row
  BY StarterSteps
<1>3. /\ \A n \in 1..Len(ops) : ops'[n] = ops[n]
      /\ \A n \in 1..Len(ops') : (n \in 1..Len(ops) /\ ops'[n] = ops[n]) \/ ops'[n].kind # "post"
  <2>1. CASE EnqueueCreate \/ EnqueueUpload \/ EnqueueSync \/ EnqueueResync
    <3>1. PICK op : OnStarter(op) /\ (ops' = ops \/ ops' = Append(ops, op))
      BY <2>1, StarterRow
    <3>2. op \in Operation /\ op.kind # "post"
      BY <3>1 DEF OnStarter
    <3>3. /\ \A n \in 1..Len(ops) : n \in 1..Len(ops') /\ ops'[n] = ops[n]
          /\ \A n \in 1..Len(ops') : (n \in 1..Len(ops) /\ ops'[n] = ops[n]) \/ ops'[n] = op
      BY <3>1, <3>2, GrownRows
    <3> QED BY <3>2, <3>3
  <2>2. CASE ~(EnqueueCreate \/ EnqueueUpload \/ EnqueueSync \/ EnqueueResync)
    <3>1. ops' = ops
      BY <2>2 DEF RelayReply, CreateIssue, createDiscordOriginLink, UpsertStarter, SetDestination, SetRenderHash,
         UpsertAttachment, CompleteAttachment, ReadBody, WriteBody, SaveHash, OnlyItem, outbox
    <3> QED BY <3>1
  <2> QED BY <2>1, <2>2
<1>4. handler.job = "inbox" \/
        (/\ handler.job = "operation" /\ handler.row \in 1..Len(ops)
         /\ ops[handler.row].kind \in {"create", "upload", "body"})
  BY <1>2, RowOfStep DEF CreationInv, ClaimsHeld
<1>5. Elsewhere
  BY <1>2, <1>3, <1>4 DEF Elsewhere, RunsOn, CreateSteps
<1>6. \A n \in 1..Len(ops') : ops'[n].kind = "post" => copies[ops'[n].issue].state # "none"
  BY <1>3 DEF CopyInv, CopiesNamed
<1> QED BY <1>1, <1>5, <1>6, CopyFrame

LEMMA ClaimCopy ==
  ASSUME CreationInv, CopyInv, [Next]_vars, ClaimInbox \/ ClaimEvent
  PROVE  CopyInv'
<1>1. UNCHANGED <<copies, messages, ops, item>>
  BY DEF ClaimInbox, ClaimEvent, ClaimOnly, record, discord, outbox
<1>2. CreationInv'
  BY ClaimInboxKeeps, ClaimEventKeeps
<1>3. Elsewhere
  <2>1. CASE ClaimInbox
    <3>1. handler'.job = "inbox"
      BY <2>1 DEF ClaimInbox, Idle
    <3> QED BY <3>1, <1>2 DEF CreationInv, ClaimsHeld, InboxSteps, Elsewhere, RunsOn
  <2>2. CASE ClaimEvent
    BY <2>2 DEF ClaimEvent, Idle, Elsewhere, RunsOn
  <2> QED BY <2>1, <2>2
<1>4. \A n \in 1..Len(ops') : ops'[n].kind = "post" => copies[ops'[n].issue].state # "none"
  BY <1>1 DEF CopyInv, CopiesNamed
<1> QED BY <1>1, <1>3, <1>4, CopyFrame

LEMMA ClaimRowCopy ==
  ASSUME CreationInv, CopyInv, [Next]_vars, ClaimOperation
  PROVE  CopyInv'
<1>1. UNCHANGED <<copies, messages, ops, item, links>>
  BY DEF ClaimOperation, ClaimOnly, record, discord, outbox
<1>2. PICK n \in 1..Len(ops) :
        /\ handler' = [Idle EXCEPT !.job = "operation", !.row = n, !.issue = ops[n].issue,
                        !.text = ops[n].text, !.body = Rendered(ops[n]),
                        !.message = IF ops[n].kind \in {"post", "erase"}
                                    THEN copies[ops[n].issue].message ELSE NoMessage,
                        !.step = FirstStep(ops[n])]
        /\ past' = IF \E m \in 1..(n - 1) : Crossing(ops[m], ops[n])
                   THEN past \cup {"overtaken"} ELSE past
  BY DEF ClaimOperation
<1>3. /\ handler'.job = "operation" /\ handler'.row = n /\ handler'.issue = ops[n].issue
      /\ handler'.body = Rendered(ops[n]) /\ handler'.step = FirstStep(ops[n])
      /\ ops[n].kind \in {"post", "erase"} => handler'.message = copies[ops[n].issue].message
  BY <1>2 DEF Idle
<1>4. ops[n].kind \in {"create", "upload", "body", "post", "erase"}
  <2>1. ops[n] \in Operation
    BY ElementOfSeq DEF CreationInv, TypeOK
  <2> QED BY <2>1 DEF Operation
<1>5. /\ handler'.step \notin {"join", "segments"}
      /\ handler'.step \in {"edit", "message"} => ops[n].kind = "post"
      /\ handler'.step \in {"erase", "mark"} => ops[n].kind = "erase"
      /\ handler'.step = "edit" => copies[ops[n].issue].message # NoMessage
      /\ handler'.step = "erase" => copies[ops[n].issue].message # NoMessage
      /\ handler'.step = "mark" => copies[ops[n].issue].message = NoMessage
      /\ handler'.step = "end" /\ ops[n].kind = "erase" => links[ops[n].issue] = NoThread
      /\ handler'.step = "end" => ops[n].kind # "post"
      /\ handler'.step # "post"
  BY <1>3, <1>4 DEF FirstStep, FirstStepOfAll
<1>6. ops[n].kind \in {"post", "erase"} /\ ops[n].issue = item.issue => links[ops[n].issue] = Person
  BY DEF CreationInv, RowsFit, Creation, Made, Issue, NoIssue
<1>7. MessagesApart' /\ CopiesNamed'
  BY <1>1, <1>5 DEF CopyInv, MessagesApart, CopiesNamed
<1>8. HandlerHolds'
  BY <1>1, <1>3, <1>5 DEF HandlerHolds
<1>9. InTurn'
  BY <1>1, <1>2, <1>3 DEF InTurn, Lapsed
<1>10. OnCopy'
  <2>1. RunsOn("post")' => ops[n].kind = "post" /\ handler'.body = copies[ops[n].issue].body
    BY <1>1, <1>3 DEF RunsOn, Rendered
  <2>2. RunsOn("erase")' => ops[n].kind = "erase"
    BY <1>1, <1>3 DEF RunsOn
  <2>3. handler'.issue = item'.issue /\ RunsOn("erase")' /\ handler'.step \in {"mark", "end"} =>
          Showing(item.issue)' = NoBody
    BY <1>1, <1>3, <1>5, <1>6, <2>2 DEF Showing, NoThread, Person
  <2> QED BY <1>1, <1>3, <1>5, <2>1, <2>2, <2>3 DEF OnCopy
<1> QED BY <1>7, <1>8, <1>9, <1>10 DEF CopyInv

\* An event on its way to a copy.
LEMMA EventCopy ==
  ASSUME CreationInv, CopyInv, [Next]_vars, EnsureLink \/ Hear \/ EnqueuePost
  PROVE  CopyInv'
<1>1. UNCHANGED <<copies, messages, item>>
  BY DEF EnsureLink, Hear, EnqueuePost, Enqueue, WorkerOnly, record, discord
<1>2. /\ handler.step \in EventSteps \ {"end"} /\ handler'.step \in {"echo", "copy", "end"}
      /\ handler'.job = handler.job
  BY DEF EnsureLink, Hear, Heard, EnqueuePost, Goto, CreationInv, TypeOK, Handler, EventSteps
<1>3. handler.job = "event" /\ handler.issue \in Issue
  <2>1. handler.job = "event"
    BY <1>2, RowOfStep
  <2> QED BY <2>1 DEF CreationInv, ClaimsHeld, RowsFit, Made
<1>4. Elsewhere
  BY <1>2, <1>3 DEF Elsewhere, RunsOn
<1>5. \E op \in Operation :
        /\ ops' = ops \/ ops' = Append(ops, op)
        /\ op.kind = "post" => copies[op.issue].state # "none"
  <2>1. handler.issue \in 0..MaxIssues /\ 0 \in 0..MaxText
    BY <1>3 DEF Issue
  <2>2. /\ Op("post", handler.issue, 0) \in Operation
        /\ Op("post", handler.issue, 0).issue = handler.issue
        /\ Op("erase", handler.issue, 0) \in Operation
        /\ Op("erase", handler.issue, 0).kind = "erase"
    BY <2>1, OpTypes
  <2>3. CASE EnqueuePost
    <3>1. ops' = ops \/ ops' = Append(ops, Op("post", handler.issue, 0))
      BY <2>3 DEF EnqueuePost, Enqueue
    <3>2. copies[handler.issue].state # "none"
      BY <2>3 DEF EnqueuePost, CopyInv, CopiesNamed
    <3> QED BY <2>2, <3>1, <3>2
  <2>4. CASE EnsureLink \/ Hear
    <3>1. ops' = ops \/ ops' = Append(ops, Op("erase", handler.issue, 0))
      BY <2>4 DEF EnsureLink, Hear, Enqueue, outbox
    <3> QED BY <2>2, <3>1
  <2> QED BY <2>3, <2>4
<1>6. \A n \in 1..Len(ops') : ops'[n].kind = "post" => copies[ops'[n].issue].state # "none"
  <2>1. PICK op \in Operation :
          /\ ops' = ops \/ ops' = Append(ops, op)
          /\ op.kind = "post" => copies[op.issue].state # "none"
    BY <1>5
  <2>2. \A n \in 1..Len(ops') : (n \in 1..Len(ops) /\ ops'[n] = ops[n]) \/ ops'[n] = op
    BY <2>1, GrownRows
  <2> QED BY <2>1, <2>2 DEF CopyInv, CopiesNamed
<1> QED BY <1>1, <1>4, <1>6, CopyFrame

\* What the step of a handler of a copy says of the row it runs on.
LEMMA OnRow ==
  ASSUME CreationInv,
         handler.step \in {"thread", "join", "message", "edit", "segments", "erase", "mark"}
  PROVE  /\ handler.job = "operation" /\ handler.row \in 1..Len(ops)
         /\ handler.issue = ops[handler.row].issue /\ handler.issue \in Issue
         /\ handler.step \in {"thread", "join", "message", "edit", "segments"} => ops[handler.row].kind = "post"
         /\ handler.step \in {"erase", "mark"} => ops[handler.row].kind = "erase"
         /\ handler.step \in {"thread", "join"} => handler.issue # item.issue
<1>1. PICK kind \in {"post", "erase"} :
        /\ handler.step \in StepsOf(kind) \ {"end"}
        /\ handler.step \in {"thread", "join", "message", "edit", "segments"} => kind = "post"
        /\ handler.step \in {"erase", "mark"} => kind = "erase"
  BY DEF StepsOf
<1>2. handler.job = "operation" /\ ops[handler.row].kind = kind
  BY <1>1, RowOfStep
<1>3. handler.row \in 1..Len(ops) /\ handler.issue = ops[handler.row].issue
  BY <1>2 DEF CreationInv, ClaimsHeld
<1>4. handler.issue \in Made /\ handler.issue \in Issue
  BY <1>2, <1>3 DEF CreationInv, RowsFit, Made
<1>5. handler.step \in {"thread", "join"} => handler.issue # item.issue
  BY <1>4 DEF CreationInv, Creation, NoThread, Person, NoIssue, Issue
<1> QED BY <1>1, <1>2, <1>3, <1>4, <1>5

LEMMA UpsertsCopy ==
  ASSUME CreationInv, CopyInv, [Next]_vars, UpsertCopy
  PROVE  CopyInv'
<1>1. handler.job = "event" /\ handler.issue \in Issue
  <2>1. handler.job = "event"
    BY RowOfStep DEF UpsertCopy, EventSteps
  <2> QED BY <2>1 DEF CreationInv, ClaimsHeld, RowsFit, Made
<1>2. /\ handler'.step = "post" /\ handler'.job = "event" /\ handler'.issue = handler.issue
      /\ handler'.event = handler.event
  BY <1>1 DEF UpsertCopy, Goto, CreationInv, TypeOK, Handler
<1>3. UNCHANGED <<messages, ops, item>>
  BY DEF UpsertCopy, OnlyCopy, discord, outbox
<1>4. /\ copies \in [Issue -> Copy] /\ copies[handler.issue] \in Copy
      /\ copies' = [copies EXCEPT ![handler.issue] =
                      [copies[handler.issue] EXCEPT !.state = "ACTIVE", !.body = handler.event.body]]
  BY <1>1 DEF UpsertCopy, OnlyCopy, CreationInv, TypeOK
<1>5. /\ \A i \in Issue : copies'[i].message = copies[i].message
      /\ \A i \in Issue \ {handler.issue} : copies'[i] = copies[i]
      /\ copies'[handler.issue].state = "ACTIVE" /\ copies'[handler.issue].body = handler.event.body
  BY <1>1, <1>4 DEF Copy
<1>6. MessagesApart'
  BY <1>3, <1>5 DEF CopyInv, MessagesApart
<1>7. \A n \in 1..Len(ops) : ops[n].kind = "post" => ops[n].issue \in Issue
  BY DEF CreationInv, RowsFit, Made
<1>8. CopiesNamed'
  BY <1>1, <1>2, <1>3, <1>5, <1>7 DEF CopyInv, CopiesNamed
<1>9. HandlerHolds' /\ InTurn' /\ OnCopy'
  BY <1>2 DEF HandlerHolds, InTurn, OnCopy, RunsOn
<1> QED BY <1>6, <1>8, <1>9 DEF CopyInv

LEMMA TurnStays ==
  ASSUME CopyInv, [Next]_vars, UNCHANGED <<ops, handler.row, handler.job>>
  PROVE  InTurn'
BY LapsedStays DEF CopyInv, InTurn, RunsOn

LEMMA PostsCopy ==
  ASSUME CreationInv, CopyInv, [Next]_vars, CreateThread \/ CreateMessage
  PROVE  CopyInv'
<1>1. /\ handler.step \in {"thread", "message"}
      /\ handler.job = "operation" /\ handler.issue \in Issue
      /\ handler.step = "thread" => handler.issue # item.issue
  BY OnRow DEF CreateThread, CreateMessage
<1>2. /\ handler'.job = handler.job /\ handler'.row = handler.row /\ handler'.issue = handler.issue
      /\ handler'.body = handler.body /\ handler'.message = Len(messages')
      /\ handler'.step \in {"join", "segments"} /\ (handler'.step = "join" <=> handler.step = "thread")
      /\ messages' = Append(messages, handler.body)
      /\ UNCHANGED <<copies, item, ops>>
  BY DEF CreateThread, CreateMessage, Post, CreationInv, TypeOK, Handler, record, outbox
<1>3. /\ Len(messages) \in Nat /\ Len(messages') = Len(messages) + 1
      /\ messages'[Len(messages')] = handler.body
  BY <1>2, AppendProperties, LenProperties DEF CreationInv, TypeOK, Handler
<1>4. MessagesApart'
  <2>1. \A i \in Issue : copies[i].message \in Nat
    BY DEF CreationInv, TypeOK, Copy
  <2> QED BY <1>2, <1>3, <2>1 DEF CopyInv, MessagesApart
<1>5. CopiesNamed'
  BY <1>2 DEF CopyInv, CopiesNamed
<1>6. HandlerHolds'
  <2>1. Len(messages') \in 1..Len(messages')
    BY <1>3
  <2>2. \A i \in Issue : copies[i].message # Len(messages')
    <3> SUFFICES ASSUME NEW i \in Issue PROVE copies[i].message # Len(messages')
      OBVIOUS
    <3>1. copies[i].message <= Len(messages)
      BY DEF CopyInv, MessagesApart
    <3>2. copies[i].message \in Nat
      BY DEF CreationInv, TypeOK, Copy
    <3> QED BY <1>3, <3>1, <3>2
  <2> QED BY <1>2, <1>3, <2>1, <2>2 DEF HandlerHolds
<1>7. InTurn'
  BY <1>2, TurnStays
<1>8. OnCopy'
  BY <1>1, <1>2 DEF CopyInv, OnCopy, RunsOn
<1> QED BY <1>4, <1>5, <1>6, <1>7, <1>8 DEF CopyInv

LEMMA JoinsCopy ==
  ASSUME CreationInv, CopyInv, [Next]_vars, attachDiscordThread
  PROVE  CopyInv'
<1>1. handler.step = "join" /\ handler.job = "operation" /\ handler.issue # item.issue
  BY OnRow DEF attachDiscordThread
<1>2. /\ handler'.job = handler.job /\ handler'.row = handler.row /\ handler'.issue = handler.issue
      /\ handler'.body = handler.body /\ handler'.message = handler.message
      /\ handler'.step = "segments"
      /\ UNCHANGED <<copies, item, ops, messages>>
  BY DEF attachDiscordThread, Goto, CreationInv, TypeOK, Handler, discord, outbox
<1>3. MessagesApart' /\ CopiesNamed'
  BY <1>2 DEF CopyInv, MessagesApart, CopiesNamed
<1>4. HandlerHolds'
  BY <1>1, <1>2 DEF CopyInv, HandlerHolds
<1>5. InTurn'
  BY <1>2, TurnStays
<1>6. OnCopy'
  BY <1>1, <1>2 DEF OnCopy
<1> QED BY <1>3, <1>4, <1>5, <1>6 DEF CopyInv

LEMMA WritesCopy ==
  ASSUME CreationInv, CopyInv, [Next]_vars, EditMessage \/ DeleteMessage
  PROVE  CopyInv'
<1>1. /\ handler.step \in {"edit", "erase"} /\ handler.job = "operation" /\ handler.issue \in Issue
      /\ handler.step = "edit" => ops[handler.row].kind = "post"
      /\ handler.step = "erase" => ops[handler.row].kind = "erase"
  BY OnRow DEF EditMessage, DeleteMessage
<1>2. /\ handler'.job = handler.job /\ handler'.row = handler.row /\ handler'.issue = handler.issue
      /\ handler'.body = handler.body /\ handler'.message = handler.message
      /\ handler.step = "edit" => handler'.step = "segments"
      /\ handler.step = "erase" => handler'.step = "mark"
      /\ messages' = [messages EXCEPT ![handler.message] =
                        IF handler.step = "edit" THEN handler.body ELSE NoBody]
      /\ UNCHANGED <<copies, item, ops>>
  BY DEF EditMessage, DeleteMessage, Goto, CreationInv, TypeOK, Handler, record, outbox
<1>3. handler.message = copies[handler.issue].message /\ handler.message # NoMessage
  BY <1>1 DEF CopyInv, HandlerHolds
<1>4. handler.message \in 1..Len(messages)
  <2>1. handler.message \in Nat /\ Len(messages) \in Nat
    BY LenProperties DEF CreationInv, TypeOK, Handler
  <2>2. handler.message <= Len(messages)
    BY <1>1, <1>3 DEF CopyInv, MessagesApart
  <2> QED BY <1>3, <2>1, <2>2 DEF NoMessage
<1>5. /\ Len(messages') = Len(messages)
      /\ messages'[handler.message] = IF handler.step = "edit" THEN handler.body ELSE NoBody
  BY <1>2, <1>4 DEF CreationInv, TypeOK
<1>6. MessagesApart' /\ CopiesNamed'
  BY <1>1, <1>2, <1>5 DEF CopyInv, MessagesApart, CopiesNamed
<1>7. HandlerHolds'
  <2>1. \A i \in Issue \ {handler.issue} : copies[i].message # handler.message
    BY <1>1, <1>3 DEF CopyInv, MessagesApart
  <2> QED BY <1>1, <1>2, <1>4, <1>5, <2>1 DEF HandlerHolds
<1>8. InTurn'
  BY <1>2, TurnStays
<1>9. OnCopy'
  <2>1. handler.issue = item.issue /\ handler.step = "erase" => Showing(item.issue)' = NoBody
    BY <1>2, <1>3, <1>5 DEF Showing
  <2>2. RunsOn("post")' <=> RunsOn("post")
    BY <1>2 DEF RunsOn
  <2>3. RunsOn("erase")' <=> handler.step = "erase"
    BY <1>1, <1>2 DEF RunsOn
  <2>4. RunsOn("post") <=> handler.step = "edit"
    BY <1>1 DEF RunsOn
  <2> QED BY <1>1, <1>2, <2>1, <2>2, <2>3, <2>4 DEF CopyInv, OnCopy
<1> QED BY <1>6, <1>7, <1>8, <1>9 DEF CopyInv

LEMMA RecordsCopy ==
  ASSUME CreationInv, CopyInv, [Next]_vars, ReplaceSegments \/ MarkDeleted
  PROVE  CopyInv'
<1>1. /\ handler.step \in {"segments", "mark"} /\ handler.job = "operation" /\ handler.issue \in Issue
      /\ handler.row \in 1..Len(ops) /\ handler.issue = ops[handler.row].issue
      /\ handler.step = "segments" => ops[handler.row].kind = "post"
      /\ handler.step = "mark" => ops[handler.row].kind = "erase"
  BY OnRow DEF ReplaceSegments, MarkDeleted
<1>2. /\ handler'.job = handler.job /\ handler'.row = handler.row /\ handler'.issue = handler.issue
      /\ handler'.step = "end"
      /\ UNCHANGED <<messages, item, ops>>
  BY DEF ReplaceSegments, MarkDeleted, OnlyCopy, Goto, CreationInv, TypeOK, Handler, discord, outbox
<1>3. /\ \A i \in Issue \ {handler.issue} : copies'[i] = copies[i]
      /\ copies'[handler.issue].body = copies[handler.issue].body
      /\ handler.step = "segments" => /\ copies'[handler.issue].message = handler.message
                                      /\ copies'[handler.issue].state = copies[handler.issue].state
      /\ handler.step = "mark" => /\ copies'[handler.issue].message = NoMessage
                                  /\ copies'[handler.issue].state = "DELETED"
  <2>1. copies \in [Issue -> Copy] /\ copies[handler.issue] \in Copy
    BY <1>1 DEF CreationInv, TypeOK
  <2> QED BY <1>1, <2>1 DEF ReplaceSegments, MarkDeleted, OnlyCopy, Copy
<1>4. handler.step = "segments" =>
        /\ handler.message \in 1..Len(messages) /\ messages[handler.message] = handler.body
        /\ \A i \in Issue \ {handler.issue} : copies[i].message # handler.message
  BY DEF CopyInv, HandlerHolds
<1>5. handler.message # NoMessage \/ handler.step = "mark"
  BY <1>1, <1>4 DEF NoMessage
<1>6. MessagesApart'
  <2>1. \A i \in Issue : copies'[i].message <= Len(messages)
    <3>1. 0 <= Len(messages) /\ Len(messages) \in Nat
      BY LenProperties DEF CreationInv, TypeOK
    <3>2. copies'[handler.issue].message <= Len(messages)
      BY <1>1, <1>3, <1>4, <3>1 DEF NoMessage
    <3> QED BY <1>3, <3>2 DEF CopyInv, MessagesApart
  <2>2. \A i, j \in Issue : i # j /\ copies'[i].message = copies'[j].message => copies'[i].message = NoMessage
    BY <1>1, <1>3, <1>4 DEF CopyInv, MessagesApart
  <2> QED BY <1>2, <2>1, <2>2 DEF MessagesApart
<1>7. CopiesNamed'
  <2>1. \A n \in 1..Len(ops) : ops[n].kind = "post" => ops[n].issue \in Issue
    BY DEF CreationInv, RowsFit, Made
  <2>2. handler.step = "segments" => copies[handler.issue].state # "none"
    BY <1>1 DEF CopyInv, CopiesNamed
  <2>3. \A i \in Issue : copies'[i].state = "none" => copies[i].state = "none" /\ i # handler.issue
    BY <1>1, <1>3, <2>2
  <2> QED BY <1>2, <1>3, <2>1, <2>3 DEF CopyInv, CopiesNamed
<1>8. HandlerHolds'
  BY <1>2 DEF HandlerHolds
<1>9. InTurn'
  BY <1>2, TurnStays
<1>10. OnCopy'
  <2> SUFFICES ASSUME handler.issue = item.issue
               PROVE  /\ RunsOn("post")' => Showing(item.issue)' = copies'[item.issue].body
                      /\ RunsOn("erase")' => Showing(item.issue)' = NoBody
    BY <1>2 DEF OnCopy
  <2>1. RunsOn("post")' => handler.step = "segments" /\ handler.body = copies[item.issue].body
    BY <1>1, <1>2 DEF RunsOn, CopyInv, OnCopy
  <2>2. RunsOn("erase")' => handler.step = "mark"
    BY <1>1, <1>2 DEF RunsOn
  <2>3. handler.step = "segments" => Showing(item.issue)' = handler.body
    BY <1>2, <1>3, <1>4, <1>5 DEF Showing
  <2>4. handler.step = "mark" => Showing(item.issue)' = NoBody
    BY <1>2, <1>3 DEF Showing
  <2> QED BY <1>3, <2>1, <2>2, <2>3, <2>4
<1> QED BY <1>6, <1>7, <1>8, <1>9, <1>10 DEF CopyInv

LEMMA CopiesFit == CreationInv /\ CopyInv /\ [Next]_vars => CopyInv'
BY OutsideCopy, EndCopy, StarterCopy, ClaimCopy, ClaimRowCopy, EventCopy, UpsertsCopy, PostsCopy, JoinsCopy,
   WritesCopy, RecordsCopy DEF Next, Work
-----------------------------------------------------------------------------
(* The account of the body: since its last change, what is told of it, and  *)
(* what the thread is going to show.                                        *)

\* An event that only the hash on record can tell from a user's.
Foreign(event) == event.kind = "edited" /\ ~(event.live /\ event.own)

\* The body has not changed since its change c, by the relay or by a user.
Since(i, c, by) ==
  /\ \A event \in hooks \cup plan.events : event.issue = i /\ event.stamp >= c =>
       event.body = issues[i] /\ (by = "relay" \/ Foreign(event))
  /\ c > heard[i] => \E event \in hooks : event.issue = i /\ event.stamp = c

\* While the creation is at it nobody has heard of the issue.
StartInv ==
  handler.step \in {"connect", "starter", "place", "hash"} =>
    \E c \in 1..stamp, by \in {"relay", "user"} :
      /\ Since(handler.issue, c, by) /\ c > heard[handler.issue]
      /\ by = "relay" => issues[handler.issue] = handler.body

Rows(kind) == {n \in 1..Len(ops) : ops[n].kind = kind /\ ops[n].issue = item.issue}
Spent(n)   == handler.job = "operation" /\ handler.row = n /\ handler.step = "end"
Done(kind) == \A n \in Rows(kind) : Spent(n)

\* The last operation on the copy is of this kind, and leaves it with this body.
Ends(kind, other, body) ==
  /\ \A n \in Rows(other) : \E m \in Rows(kind) : n < m
  /\ Done(kind) => Showing(item.issue) = body

WillErase == Ends("erase", "post", NoBody)
WillShow  == copies[item.issue].body = issues[item.issue] /\ Ends("post", "erase", issues[item.issue])

\* An event of the change c, or a later one, that may still have something enqueued.
Closed(event) == handler.job = "event" /\ handler.event = event /\ handler.step = "end"
Open(c) == \E event \in hooks : event.issue = item.issue /\ event.stamp >= c /\ ~Closed(event)

\* The relay has its own body on record, has taken it for a conflict, or has a sync to come.
Written == item.hash = issues[item.issue] \/ item.conflict \/ ~Done("body")

Account(c, by) ==
  LET body == issues[item.issue]
  IN /\ Since(item.issue, c, by)
     /\ by = "relay" =>
          /\ body # Users
          /\ Written
          /\ handler.step = "save" => body = handler.body
     /\ handler.step = "write" => body \in {item.hash, Users}
     /\ handler.step = "save" => handler.body = item.hash \/ c > heard[item.issue]
     /\ c <= heard[item.issue] /\ item.hash = body => WillErase
     /\ c <= heard[item.issue] /\ item.hash # body /\ by = "user" => WillShow \/ Open(c)

AccountInv ==
  item.hash # NoBody /\ ~Lapsed => \E c \in 1..stamp, by \in {"relay", "user"} : Account(c, by)

LEMMA InitAccount == Init => StartInv /\ AccountInv
<1> SUFFICES ASSUME Init PROVE StartInv /\ AccountInv
  OBVIOUS
<1>1. handler.step = "none" /\ item.hash = NoBody
  BY IdleTypes DEF Init
<1> QED BY <1>1 DEF StartInv, AccountInv

\* What is added to the events of an issue is a snapshot of it, and none is taken away
\* that has not been heard.
LEMMA SinceStays ==
  ASSUME CreationInv, NEW i \in Issue, NEW c \in Nat, NEW by \in {"relay", "user"}, Since(i, c, by),
         issues'[i] = issues[i], heard'[i] = heard[i],
         \A event \in hooks' \cup plan'.events :
           \/ event \in hooks \cup plan.events
           \/ event.issue # i
           \/ event.body = issues[i] /\ Foreign(event),
         \A event \in hooks : event \in hooks' \/ event.issue # i \/ event.stamp <= heard[i]
  PROVE  Since(i, c, by)'
<1>1. \A event \in hooks' \cup plan'.events : event.issue = i /\ event.stamp >= c =>
        event.body = issues[i] /\ (by = "relay" \/ Foreign(event))
  BY DEF Since
<1>2. ASSUME c > heard[i] PROVE \E event \in hooks' : event.issue = i /\ event.stamp = c
  <2>1. PICK event \in hooks : event.issue = i /\ event.stamp = c
    BY <1>2 DEF Since
  <2>2. heard[i] \in Nat
    BY DEF CreationInv, TypeOK
  <2>3. ~(event.stamp <= heard[i])
    BY <1>2, <2>1, <2>2
  <2> QED BY <2>1, <2>3
<1>3. \A event : Foreign(event)' <=> Foreign(event)
  BY DEF Foreign
<1> QED BY <1>1, <1>2, <1>3 DEF Since

\* The steps that add no event but snapshots, and take none away that has not been heard.
Unheard ==
  /\ \A event \in hooks' \cup plan'.events :
       \/ event \in hooks \cup plan.events
       \/ event.issue \in Issue /\ event.body = issues[event.issue] /\ Foreign(event)
  /\ \A event \in hooks : event \in hooks' \/ event.stamp <= heard[event.issue]

LEMMA SinceKept ==
  ASSUME CreationInv, NEW i \in Issue, NEW c \in Nat, NEW by \in {"relay", "user"}, Since(i, c, by),
         issues'[i] = issues[i], heard'[i] = heard[i], Unheard
  PROVE  Since(i, c, by)'
<1>1. /\ \A event \in hooks' \cup plan'.events :
           \/ event \in hooks \cup plan.events
           \/ event.issue # i
           \/ event.body = issues[i] /\ Foreign(event)
      /\ \A event \in hooks : event \in hooks' \/ event.issue # i \/ event.stamp <= heard[i]
  BY DEF Unheard
<1> QED BY <1>1, SinceStays

\* A change of the body begins a new account of it.
LEMMA SinceNow ==
  ASSUME CreationInv, StampInv, NEW i \in Issue, NEW by \in {"relay", "user"},
         stamp' = stamp + 1, plan' = plan, heard' = heard,
         \A event \in hooks' : event \in hooks \/
           (event.issue = i /\ event.body = issues'[i] /\ (by = "relay" \/ Foreign(event))),
         \E event \in hooks' : event.issue = i /\ event.stamp = stamp + 1
  PROVE  /\ stamp' \in 1..stamp' /\ stamp' > heard[i] /\ Since(i, stamp, by)'
<1>1. stamp \in Nat /\ heard[i] \in Nat /\ heard[i] <= stamp
  BY DEF CreationInv, TypeOK, StampInv
<1>2. \A event \in hooks \cup plan.events : event.stamp <= stamp /\ event.stamp \in Nat
  BY DEF CreationInv, TypeOK, StampInv, Event, Plan
<1>3. \A event \in hooks \cup plan.events : ~(event.stamp >= stamp + 1)
  BY <1>1, <1>2
<1>4. \A event \in hooks' \cup plan'.events : event.issue = i /\ event.stamp >= stamp + 1 =>
        event.body = issues'[i] /\ (by = "relay" \/ Foreign(event))
  BY <1>3
<1>5. \A event : Foreign(event)' <=> Foreign(event)
  BY DEF Foreign
<1>6. Since(i, stamp, by)'
  <2>1. \E event \in hooks' : event.issue = i /\ event.stamp = stamp'
    OBVIOUS
  <2>2. \A event \in hooks' \cup plan'.events : event.issue = i /\ event.stamp >= stamp' =>
          event.body = issues'[i] /\ (by = "relay" \/ Foreign(event)')
    BY <1>4, <1>5
  <2> QED BY <2>1, <2>2 DEF Since
<1> QED BY <1>1, <1>6

\* The account is about a later change, or none.
LEMMA AnnounceSince ==
  ASSUME CreationInv, StampInv, NEW i \in Issue, NEW kind \in {"opened", "edited"}, NEW body \in Body,
         Announce(i, kind, body, TRUE), plan' = plan, heard' = heard
  PROVE  /\ stamp' \in 1..stamp' /\ stamp' > heard[i] /\ Since(i, stamp, "relay")'
         /\ issues'[i] = body
<1> DEFINE new == [kind |-> kind, issue |-> i, body |-> body, own |-> TRUE, live |-> TRUE,
                   stamp |-> stamp']
<1>1. stamp' = stamp + 1 /\ hooks' = hooks \cup {new} /\ issues' = [issues EXCEPT ![i] = body]
  BY DEF Announce
<1>2. new.issue = i /\ new.body = body /\ new.stamp = stamp + 1
  BY <1>1
<1> HIDE DEF new
<1>3. issues'[i] = body
  BY <1>1 DEF CreationInv, TypeOK
<1>4. \A event \in hooks' : event \in hooks \/
        (event.issue = i /\ event.body = issues'[i] /\ ("relay" = "relay" \/ Foreign(event)))
  BY <1>1, <1>2, <1>3
<1>5. \E event \in hooks' : event.issue = i /\ event.stamp = stamp + 1
  BY <1>1, <1>2
<1> HIDE DEF Announce
<1> QED BY <1>1, <1>3, <1>4, <1>5, SinceNow

LEMMA UserSince ==
  ASSUME CreationInv, StampInv, NEW i \in Issue, NEW body \in Body, UserWrites(i, body)
  PROVE  /\ stamp' \in 1..stamp' /\ stamp' > heard[i] /\ Since(i, stamp, "user")'
         /\ issues'[i] = body /\ stamp' = stamp + 1
<1>1. /\ stamp' = stamp + 1
      /\ \A event \in hooks' : event \in hooks \/
           (event.kind = "edited" /\ ~event.own /\ event.issue = i /\ event.body = body)
      /\ \E event \in hooks' : event.issue = i /\ event.stamp = stamp + 1
      /\ issues' = [issues EXCEPT ![i] = body]
  <2>1. /\ stamp \in Nat /\ stamp' = stamp + 1
        /\ \A event \in hooks' : event \in hooks \/
             (/\ event.kind = "edited" /\ ~event.own /\ event.issue = i /\ event.body = body
              /\ event.stamp = stamp + 1)
        /\ \E event \in hooks' : event.issue = i /\ event.stamp = stamp + 1
        /\ hooks \subseteq hooks'
        /\ issues' = [issues EXCEPT ![i] = body]
    BY UserStamps
  <2> QED BY <2>1, Zenon
<1>2. issues'[i] = body
  BY <1>1 DEF CreationInv, TypeOK
<1>3. \A event \in hooks' : event \in hooks \/
        (event.issue = i /\ event.body = issues'[i] /\ ("user" = "relay" \/ Foreign(event)))
  BY <1>1, <1>2, Zenon DEF Foreign
<1>4. plan' = plan /\ heard' = heard
  BY DEF UserWrites
<1> QED BY <1>1, <1>2, <1>3, <1>4, SinceNow

\* Most steps change no body.
LEMMA QuietEvents ==
  ASSUME CreationInv, StampInv, [Next]_vars,
         ~(UserEdits \/ UserReverts \/ CreateIssue \/ WriteBody \/ GiveUp)
  PROVE  Unheard /\ UNCHANGED <<issues, stamp>>
<1>1. CASE EnqueueSnapshot
  <2>1. hooks' \cup plan'.events \subseteq hooks \cup plan.events /\ hooks \subseteq hooks'
    BY <1>1 DEF EnqueueSnapshot, Nothing
  <2> QED BY <1>1, <2>1 DEF EnqueueSnapshot, Unheard
<1>2. CASE ReadInventory
  <2>1. UNCHANGED <<hooks, issues, stamp>>
    BY <1>2 DEF ReadInventory, github
  <2>2. \A event \in plan'.events :
          event.issue \in Made /\ event.body = issues[event.issue] /\ Foreign(event)
    <3> SUFFICES ASSUME NEW i \in Made,
                        NEW event, event = [kind |-> "edited", issue |-> i, body |-> issues[i], own |-> FALSE,
                                            live |-> FALSE, stamp |-> stamp]
                 PROVE  event.issue \in Made /\ event.body = issues[event.issue] /\ Foreign(event)
      BY <1>2 DEF ReadInventory
    <3>1. event.kind = "edited" /\ event.issue = i /\ event.body = issues[i] /\ event.live = FALSE
      OBVIOUS
    <3>2. Foreign(event)
      BY <3>1, Zenon DEF Foreign
    <3> QED BY <3>1, <3>2
  <2> QED BY <2>1, <2>2 DEF Unheard, Made
<1>3. CASE Finish \/ Pend
  <2>1. UNCHANGED <<issues, stamp, plan>>
    BY <1>3 DEF Finish, Pend, SettleRow, github
  <2>2. \/ hooks' = hooks
        \/ handler.job = "event" /\ handler.step \in {"end", "pend"} /\ hooks' = hooks \ {handler.event}
    BY <1>3 DEF Finish, Pend, SettleRow, github
  <2>3. CASE hooks' = hooks
    BY <2>1, <2>3 DEF Unheard
  <2>4. CASE handler.job = "event" /\ handler.step \in {"end", "pend"} /\ hooks' = hooks \ {handler.event}
    <3>1. handler.step = "end" /\ handler.issue = handler.event.issue
      BY <2>4 DEF CreationInv, ClaimsHeld, EventSteps
    <3>2. handler.event.stamp <= heard[handler.event.issue]
      BY <2>4, <3>1 DEF StampInv, HeardInOrder
    <3> QED BY <2>1, <2>4, <3>2 DEF Unheard
  <2> QED BY <2>1, <2>2, <2>3, <2>4
<1>4. CASE Interrupt
  <2>1. UNCHANGED <<issues, stamp, hooks>> /\ plan' \in {plan, Nothing}
    BY <1>4 DEF Interrupt, github
  <2> QED BY <2>1 DEF Unheard, Nothing
<1>5. CASE UNCHANGED <<issues, stamp, hooks, plan>>
  BY <1>5 DEF Unheard
<1>6. CASE \/ \E seen \in BOOLEAN : OpenThread(seen)
           \/ EditStarter \/ PostReply \/ TouchThread \/ UNCHANGED vars
  <2>1. UNCHANGED <<issues, stamp, hooks, plan>>
    BY <1>6 DEF OpenThread, EditStarter, PostReply, TouchThread, OutsideDiscord, github, vars
  <2> QED BY <1>5, <2>1
<1>7. CASE \/ ClaimInbox \/ ClaimEvent \/ ClaimOperation \/ Backoff \/ EnqueueCreate \/ RelayReply
           \/ EnqueueUpload \/ EnqueueSync \/ EnqueueResync \/ EnqueuePost \/ Hear \/ EnsureLink
  <2>1. UNCHANGED <<issues, stamp, hooks, plan>>
    BY <1>7 DEF ClaimInbox, ClaimEvent, ClaimOperation, ClaimOnly, Backoff, EnqueueCreate, RelayReply,
       EnqueueUpload, EnqueueSync, EnqueueResync, EnqueuePost, Hear, EnsureLink, Enqueue, WorkerOnly, github
  <2> QED BY <1>5, <2>1
<1>8. CASE \/ createDiscordOriginLink \/ UpsertStarter \/ SetDestination \/ SetRenderHash
           \/ UpsertAttachment \/ CompleteAttachment \/ ReadBody \/ SaveHash
           \/ UpsertCopy \/ CreateThread \/ attachDiscordThread \/ CreateMessage \/ EditMessage
           \/ ReplaceSegments \/ DeleteMessage \/ MarkDeleted
  <2>1. UNCHANGED <<issues, stamp, hooks, plan>>
    BY <1>8 DEF createDiscordOriginLink, UpsertStarter, SetDestination, SetRenderHash,
       UpsertAttachment, CompleteAttachment, ReadBody, SaveHash, UpsertCopy, CreateThread, attachDiscordThread,
       CreateMessage, EditMessage, ReplaceSegments, DeleteMessage, MarkDeleted, Post, OnlyItem, OnlyCopy,
       WorkerOnly, github
  <2> QED BY <1>5, <2>1
<1> QED BY <1>1, <1>2, <1>3, <1>4, <1>6, <1>7, <1>8 DEF Next, Work

\* What a user does to another issue.
LEMMA SinceElsewhere ==
  ASSUME CreationInv, NEW i \in Issue, NEW c \in Nat, NEW by \in {"relay", "user"}, Since(i, c, by),
         NEW j \in Issue, NEW body \in Body, UserWrites(j, body), j # i
  PROVE  Since(i, c, by)' /\ issues'[i] = issues[i]
<1>1. /\ \A event \in hooks' : event \in hooks \/ event.issue = j
      /\ hooks \subseteq hooks' /\ issues' = [issues EXCEPT ![j] = body]
  <2>1. /\ stamp \in Nat /\ stamp' = stamp + 1
        /\ \A event \in hooks' : event \in hooks \/
             (/\ event.kind = "edited" /\ ~event.own /\ event.issue = j /\ event.body = body
              /\ event.stamp = stamp + 1)
        /\ \E event \in hooks' : event.issue = j /\ event.stamp = stamp + 1
        /\ hooks \subseteq hooks'
        /\ issues' = [issues EXCEPT ![j] = body]
    BY UserStamps
  <2> QED BY <2>1
<1>2. issues'[i] = issues[i]
  BY <1>1 DEF CreationInv, TypeOK
<1>3. plan' = plan /\ heard' = heard
  BY DEF UserWrites
<1> QED BY <1>1, <1>2, <1>3, SinceStays

\* What leads a handler to the steps of the creation that this is about.
Starts == {"connect", "starter", "place", "hash"}

LEMMA StartsFrom ==
  ASSUME CreationInv, [Next]_vars, handler'.step \in Starts
  PROVE  \/ handler' = handler
         \/ CreateIssue
         \/ /\ createDiscordOriginLink \/ UpsertStarter \/ SetDestination
            /\ handler.step \in Starts /\ handler'.issue = handler.issue /\ handler'.body = handler.body
<1>1. CASE \/ \E seen \in BOOLEAN : OpenThread(seen)
           \/ EditStarter \/ PostReply \/ TouchThread \/ UserEdits \/ UserReverts
           \/ EnqueueSnapshot \/ ReadInventory \/ Backoff \/ UNCHANGED vars
  BY <1>1 DEF OpenThread, EditStarter, PostReply, TouchThread, OutsideDiscord, UserEdits, UserReverts,
     UserWrites, EnqueueSnapshot, ReadInventory, Backoff, vars
<1>2. CASE Finish \/ Pend \/ Interrupt \/ GiveUp
  BY <1>2, IdleTypes DEF Finish, Pend, Interrupt, GiveUp, SettleRow, Starts
<1>3. CASE ClaimInbox \/ ClaimEvent
  <2>1. CreationInv'
    BY <1>3, ClaimInboxKeeps, ClaimEventKeeps
  <2>2. handler'.job \in {"inbox", "event"}
    BY <1>3 DEF ClaimInbox, ClaimEvent, Idle
  <2> QED BY <2>1, <2>2 DEF CreationInv, ClaimsHeld, InboxSteps, EventSteps, Starts
<1>4. CASE ClaimOperation
  <2>1. PICK n \in 1..Len(ops) : handler'.step = FirstStep(ops[n])
    BY <1>4 DEF ClaimOperation, Idle
  <2>2. ops[n] \in Operation
    BY ElementOfSeq DEF CreationInv, TypeOK
  <2> QED BY <2>1, <2>2 DEF FirstStep, FirstStepOfAll, Operation, Starts
<1>5. CASE \/ EnqueueCreate \/ RelayReply \/ EnqueueUpload \/ EnqueueSync \/ EnqueueResync \/ EnqueuePost
           \/ Hear \/ EnsureLink \/ UpsertAttachment \/ CompleteAttachment \/ ReadBody
  BY <1>5 DEF EnqueueCreate, RelayReply, EnqueueUpload, EnqueueSync, EnqueueResync, EnqueuePost, Hear, Heard,
     EnsureLink, UpsertAttachment, CompleteAttachment, ReadBody, Goto, CreationInv, TypeOK, Handler, Starts
<1>7. CASE \/ SetRenderHash \/ WriteBody \/ SaveHash \/ UpsertCopy \/ CreateThread \/ attachDiscordThread
           \/ CreateMessage \/ EditMessage \/ ReplaceSegments \/ DeleteMessage \/ MarkDeleted
  <2>1. handler'.step \in {"attach", "save", "end", "post", "join", "segments", "mark"}
    BY <1>7 DEF SetRenderHash, WriteBody, SaveHash, UpsertCopy, CreateThread, attachDiscordThread, CreateMessage,
       EditMessage, ReplaceSegments, DeleteMessage, MarkDeleted, Post, Goto, CreationInv, TypeOK, Handler
  <2> QED BY <2>1 DEF Starts
<1>6. CASE createDiscordOriginLink \/ UpsertStarter \/ SetDestination
  BY <1>6 DEF createDiscordOriginLink, UpsertStarter, SetDestination, Goto, CreationInv, TypeOK, Handler, Starts
<1> QED BY <1>1, <1>2, <1>3, <1>4, <1>5, <1>6, <1>7 DEF Next, Work

LEMMA HeardStays ==
  ASSUME [Next]_vars, ~Hear
  PROVE  heard' = heard
<1>1. CASE UNCHANGED vars
  BY <1>1 DEF vars
<1>2. CASE \/ EnqueueSnapshot \/ ClaimInbox \/ ClaimEvent \/ ClaimOperation \/ Finish \/ Pend \/ Backoff
           \/ EnqueueCreate \/ RelayReply \/ EnqueueUpload \/ EnqueueSync \/ EnqueueResync
           \/ EnqueuePost
  BY <1>2 DEF EnqueueSnapshot, ClaimInbox, ClaimEvent, ClaimOperation, ClaimOnly, Finish, Pend, SettleRow, Backoff,
     EnqueueCreate, RelayReply, EnqueueUpload, EnqueueSync, EnqueueResync, EnqueuePost, history
<1>3. CASE \/ CreateIssue \/ createDiscordOriginLink \/ UpsertStarter \/ SetDestination \/ SetRenderHash
           \/ UpsertAttachment \/ CompleteAttachment \/ ReadBody \/ WriteBody \/ SaveHash \/ EnsureLink
           \/ UpsertCopy \/ CreateThread \/ attachDiscordThread \/ CreateMessage \/ EditMessage
           \/ ReplaceSegments \/ DeleteMessage \/ MarkDeleted
  BY <1>3 DEF CreateIssue, createDiscordOriginLink, UpsertStarter, SetDestination, SetRenderHash,
     UpsertAttachment, CompleteAttachment, ReadBody, WriteBody, SaveHash, EnsureLink, UpsertCopy,
     CreateThread, attachDiscordThread, CreateMessage, EditMessage, ReplaceSegments, DeleteMessage,
     MarkDeleted, Post, OnlyItem, OnlyCopy, history
<1>4. CASE \/ \E seen \in BOOLEAN : OpenThread(seen)
           \/ EditStarter \/ PostReply \/ TouchThread \/ UserEdits \/ UserReverts
           \/ ReadInventory \/ Interrupt \/ GiveUp
  BY <1>4 DEF OpenThread, EditStarter, PostReply, TouchThread, OutsideDiscord, UserEdits, UserReverts, UserWrites,
     ReadInventory, Interrupt, GiveUp, SettleRow, history
<1> QED BY <1>1, <1>2, <1>3, <1>4 DEF Next, Work

LEMMA StartStep == CreationInv /\ StampInv /\ StartInv /\ [Next]_vars => StartInv'
<1> SUFFICES ASSUME CreationInv, StampInv, StartInv, [Next]_vars, handler'.step \in Starts
             PROVE  \E c \in 1..stamp', by \in {"relay", "user"} :
                      /\ Since(handler.issue, c, by)' /\ c > heard'[handler'.issue]
                      /\ by = "relay" => issues'[handler'.issue] = handler'.body
  BY DEF StartInv, Starts
<1>1. CASE CreateIssue
  <2>1. PICK i \in Issue :
          /\ Announce(i, "opened", handler.body, TRUE)
          /\ handler' = [handler EXCEPT !.step = "connect", !.issue = i]
    BY <1>1 DEF CreateIssue
  <2>2. handler'.issue = i /\ handler'.body = handler.body /\ handler.body \in Body
    BY <1>1, <2>1 DEF CreateIssue, CreationInv, BodiesAreTheRelays, TypeOK, Handler, Issue
  <2>3. plan' = plan /\ heard' = heard
    BY <1>1 DEF CreateIssue, WorkerOnly, history
  <2>4. /\ stamp' \in 1..stamp' /\ stamp' > heard[i] /\ Since(i, stamp, "relay")'
        /\ issues'[i] = handler.body
    BY <2>1, <2>2, <2>3, AnnounceSince
  <2>5. Since(handler.issue, stamp, "relay")'
    BY <2>2, <2>4
  <2> QED BY <2>2, <2>3, <2>4, <2>5
<1>2. CASE handler.step \in Starts /\ ~CreateIssue
  <2>1. PICK i \in Issue : i = handler.issue
    BY <1>2 DEF CreationInv, Creation, Made, Starts, CreateSteps
  <2>2. handler'.issue = i /\ handler'.body = handler.body
    BY <1>2, <2>1, StartsFrom
  <2>3. PICK c \in 1..stamp, by \in {"relay", "user"} :
          /\ Since(i, c, by) /\ c > heard[i] /\ (by = "relay" => issues[i] = handler.body)
    BY <1>2, <2>1 DEF StartInv, Starts
  <2>4. c \in Nat /\ stamp \in Nat
    BY DEF CreationInv, TypeOK
  <2>5. CASE UserEdits \/ UserReverts
    <3>1. PICK j \in Issue, body \in Body : UserWrites(j, body)
      BY <2>5, UsersWrite
    <3>2. heard' = heard
      BY <3>1 DEF UserWrites
    <3>3. CASE j = i
      <4>1. stamp' \in 1..stamp' /\ stamp' > heard[i] /\ Since(i, stamp, "user")'
        BY <3>1, <3>3, UserSince
      <4>2. Since(handler.issue, stamp, "user")'
        BY <2>2, <4>1
      <4> QED BY <2>2, <3>2, <4>1, <4>2
    <3>4. CASE j # i
      <4>1. Since(i, c, by)' /\ issues'[i] = issues[i]
        BY <2>1, <2>3, <2>4, <3>1, <3>4, SinceElsewhere
      <4>2. stamp' = stamp + 1
        BY <3>1, UserStamps, Zenon
      <4>3. Since(handler.issue, c, by)' /\ c \in 1..stamp'
        BY <2>2, <2>4, <4>1, <4>2
      <4> QED BY <2>2, <2>3, <3>2, <4>1, <4>3
    <3> QED BY <3>3, <3>4
  <2>6. CASE ~(UserEdits \/ UserReverts)
    <3>1. ~WriteBody /\ ~GiveUp /\ ~Hear
      BY <1>2, IdleTypes DEF WriteBody, GiveUp, SettleRow, Hear, Heard, Starts
    <3>2. Unheard /\ UNCHANGED <<issues, stamp>>
      BY <1>2, <2>6, <3>1, QuietEvents
    <3>3. heard' = heard
      BY <3>1, HeardStays
    <3>4. Since(i, c, by)'
      BY <2>1, <2>3, <2>4, <3>2, <3>3, SinceKept
    <3>5. Since(handler.issue, c, by)'
      BY <2>2, <3>4
    <3> QED BY <2>2, <2>3, <3>2, <3>3, <3>5
  <2> QED BY <2>5, <2>6
<1> QED BY <1>1, <1>2, StartsFrom

-----------------------------------------------------------------------------
(* The last operation on the copy stays the last, and leaves what it leaves.*)

LEMMA ItemStays ==
  ASSUME CreationInv, [Next]_vars, item.hash # NoBody
  PROVE  item.issue \in Issue /\ links[item.issue] = Person /\ item'.issue = item.issue
<1>1. item.issue \in Issue /\ links[item.issue] = Person /\ item.issue # NoIssue
  BY DEF CreationInv, Creation, Made
<1>2. ~UpsertStarter
  BY <1>1 DEF UpsertStarter, CreationInv, Creation
<1>3. CASE item' = item
  BY <1>1, <1>3
<1>4. CASE \/ SetDestination \/ SetRenderHash \/ UpsertAttachment \/ CompleteAttachment \/ ReadBody \/ SaveHash
  <2>1. item'.issue = item.issue
    BY <1>4 DEF SetDestination, SetRenderHash, UpsertAttachment, CompleteAttachment, ReadBody, SaveHash, OnlyItem,
       CreationInv, TypeOK, Item
  <2> QED BY <1>1, <2>1
<1>5. CASE \/ \E seen \in BOOLEAN : OpenThread(seen)
           \/ EditStarter \/ PostReply \/ TouchThread \/ UserEdits \/ UserReverts
           \/ ReadInventory \/ Interrupt \/ GiveUp \/ EnqueueSnapshot \/ ClaimInbox \/ ClaimEvent
           \/ ClaimOperation \/ Finish \/ Pend \/ Backoff \/ EnqueueCreate \/ RelayReply
  <2>1. item' = item
    BY <1>5 DEF OpenThread, EditStarter, PostReply, TouchThread, OutsideDiscord, UserEdits, UserReverts, UserWrites,
       ReadInventory, Interrupt, GiveUp, SettleRow, EnqueueSnapshot, ClaimInbox, ClaimEvent, ClaimOperation,
       ClaimOnly, Finish, Pend, Backoff, EnqueueCreate, Enqueue, RelayReply, record
  <2> QED BY <1>3, <2>1
<1>6. CASE \/ CreateIssue \/ createDiscordOriginLink \/ EnqueueUpload \/ EnqueueSync \/ EnqueueResync \/ WriteBody
           \/ EnsureLink \/ Hear \/ UpsertCopy \/ EnqueuePost \/ CreateThread \/ attachDiscordThread
           \/ CreateMessage \/ EditMessage \/ ReplaceSegments \/ DeleteMessage \/ MarkDeleted
  <2>1. item' = item
    BY <1>6 DEF CreateIssue, createDiscordOriginLink, EnqueueUpload, EnqueueSync, EnqueueResync, WriteBody,
       EnsureLink, Hear, UpsertCopy, EnqueuePost, CreateThread, attachDiscordThread, CreateMessage, EditMessage,
       ReplaceSegments, DeleteMessage, MarkDeleted, Post, Enqueue, OnlyCopy, WorkerOnly, record
  <2> QED BY <1>3, <2>1
<1> QED BY <1>2, <1>3, <1>4, <1>5, <1>6 DEF Next, Work, vars

LEMMA RemoveIndex ==
  ASSUME NEW S, NEW seq \in Seq(S), NEW r \in 1..Len(seq)
  PROVE  /\ Len(seq) \in Nat /\ Len(RemoveAt(seq, r)) = Len(seq) - 1
         /\ \A n \in 1..(Len(seq) - 1) : RemoveAt(seq, r)[n] = IF n < r THEN seq[n] ELSE seq[n + 1]
<1> DEFINE front == SubSeq(seq, 1, r - 1)
           back  == SubSeq(seq, r + 1, Len(seq))
<1>1. Len(seq) \in Nat /\ \A j \in 1..Len(seq) : seq[j] \in S
  BY LenProperties, ElementOfSeq
<1>2. /\ front \in Seq(S) /\ Len(front) = r - 1
      /\ \A n \in 1..(r - 1) : front[n] = seq[n]
  <2>1. \A j \in 1..(r - 1) : seq[j] \in S
    BY <1>1
  <2> QED BY <2>1, <1>1, SubSeqProperties
<1>3. /\ back \in Seq(S) /\ Len(back) = Len(seq) - r
      /\ \A n \in 1..(Len(seq) - r) : back[n] = seq[r + n]
  <2>1. \A j \in (r + 1)..Len(seq) : seq[j] \in S
    BY <1>1
  <2>2. /\ back \in Seq(S)
        /\ Len(back) = IF r + 1 <= Len(seq) THEN Len(seq) - (r + 1) + 1 ELSE 0
        /\ \A n \in 1..(Len(seq) - (r + 1) + 1) : back[n] = seq[(r + 1) + n - 1]
    BY <2>1, <1>1, SubSeqProperties
  <2> HIDE DEF back
  <2>3. Len(back) = Len(seq) - r
    BY <1>1, <2>2
  <2>4. \A n \in 1..(Len(seq) - r) : back[n] = seq[r + n]
    BY <1>1, <2>2
  <2> QED BY <2>2, <2>3, <2>4
<1>4. RemoveAt(seq, r) = front \o back
  BY DEF RemoveAt
<1> HIDE DEF front, back
<1>5. /\ Len(front \o back) = Len(front) + Len(back)
      /\ \A n \in 1..(Len(front) + Len(back)) :
           (front \o back)[n] = IF n <= Len(front) THEN front[n] ELSE back[n - Len(front)]
  BY <1>2, <1>3, ConcatProperties
<1>6. Len(front \o back) = Len(seq) - 1
  BY <1>1, <1>2, <1>3, <1>5
<1>7. \A n \in 1..(Len(seq) - 1) : (front \o back)[n] = IF n < r THEN seq[n] ELSE seq[n + 1]
  <2> TAKE n \in 1..(Len(seq) - 1)
  <2>1. CASE n < r
    BY <1>1, <1>2, <1>3, <1>5, <2>1
  <2>2. CASE ~(n < r)
    <3>1. (front \o back)[n] = back[n - (r - 1)] /\ n - (r - 1) \in 1..(Len(seq) - r)
      BY <1>1, <1>2, <1>3, <1>5, <2>2
    <3>2. back[n - (r - 1)] = seq[r + (n - (r - 1))] /\ r + (n - (r - 1)) = n + 1
      BY <1>3, <3>1
    <3> QED BY <2>2, <3>1, <3>2
  <2> QED BY <2>1, <2>2
<1> QED BY <1>1, <1>4, <1>6, <1>7

LEMMA RowsSame ==
  ASSUME CreationInv, item'.issue = item.issue, SameRows
  PROVE  \A kind : Rows(kind)' = Rows(kind)
BY DEF Rows, SameRows

\* A row that is not about the copy does not matter to it.
LEMMA RowsGrown ==
  ASSUME CreationInv, item'.issue = item.issue, NEW op \in Operation, ops' = ops \/ ops' = Append(ops, op),
         NEW kind, op.kind # kind \/ op.issue # item.issue
  PROVE  Rows(kind)' = Rows(kind)
<1>1. /\ \A n \in 1..Len(ops) : n \in 1..Len(ops') /\ ops'[n] = ops[n]
      /\ \A n \in 1..Len(ops') : (n \in 1..Len(ops) /\ ops'[n] = ops[n]) \/ ops'[n] = op
  BY GrownRows
<1> QED BY <1>1 DEF Rows

LEMMA EndsFrame ==
  ASSUME NEW kind, NEW other, NEW body, Ends(kind, other, body), item'.issue = item.issue,
         Rows(kind)' = Rows(kind), Rows(other)' = Rows(other),
         Done(kind)' => Showing(item.issue)' = body \/ (Done(kind) /\ Showing(item.issue)' = Showing(item.issue))
  PROVE  Ends(kind, other, body)'
<1>1. \A n \in Rows(other)' : \E m \in Rows(kind)' : n < m
  BY DEF Ends
<1>2. Done(kind)' => Showing(item.issue)' = body
  BY DEF Ends
<1> QED BY <1>1, <1>2 DEF Ends

\* The row that was claimed last, and in its turn, is settled.
LEMMA FinishEnds ==
  ASSUME CreationInv, CopyInv, ~Lapsed, NEW kind \in {"post", "erase"}, NEW other \in {"post", "erase"},
         kind # other, NEW body, Ends(kind, other, body), item' = item, UNCHANGED <<copies, messages>>,
         handler.job = "operation", handler.step = "end", handler' = Idle,
         ops' = RemoveAt(ops, handler.row)
  PROVE  Ends(kind, other, body)'
<1>1. PICK r \in 1..Len(ops) : r = handler.row
  BY DEF CreationInv, ClaimsHeld
<1>2. /\ Len(ops) \in Nat /\ Len(ops') = Len(ops) - 1
      /\ \A n \in 1..(Len(ops) - 1) : ops'[n] = IF n < r THEN ops[n] ELSE ops[n + 1]
  <2>1. ops \in Seq(Operation)
    BY DEF CreationInv, TypeOK
  <2>2. /\ Len(ops) \in Nat /\ Len(RemoveAt(ops, r)) = Len(ops) - 1
        /\ \A n \in 1..(Len(ops) - 1) : RemoveAt(ops, r)[n] = IF n < r THEN ops[n] ELSE ops[n + 1]
    BY <2>1, RemoveIndex
  <2> QED BY <1>1, <2>2
<1>3. \A k, n : n \in Rows(k)' => \E m \in Rows(k) : m # r /\ m = IF n < r THEN n ELSE n + 1
  <2> SUFFICES ASSUME NEW k, NEW n \in Rows(k)'
               PROVE  \E m \in Rows(k) : m # r /\ m = IF n < r THEN n ELSE n + 1
    OBVIOUS
  <2>1. n \in 1..(Len(ops) - 1) /\ ops'[n].kind = k /\ ops'[n].issue = item.issue
    BY <1>2 DEF Rows
  <2>2. CASE n < r
    BY <1>2, <2>1, <2>2 DEF Rows
  <2>3. CASE ~(n < r)
    <3>1. n + 1 \in 1..Len(ops) /\ ops'[n] = ops[n + 1] /\ n + 1 # r
      BY <1>2, <2>1, <2>3
    <3> QED BY <2>1, <2>3, <3>1 DEF Rows
  <2> QED BY <2>2, <2>3
<1>4. \A k, m : m \in Rows(k) /\ m # r => (IF m < r THEN m ELSE m - 1) \in Rows(k)'
  <2> SUFFICES ASSUME NEW k, NEW m \in Rows(k), m # r
               PROVE  (IF m < r THEN m ELSE m - 1) \in Rows(k)'
    OBVIOUS
  <2>1. m \in 1..Len(ops) /\ ops[m].kind = k /\ ops[m].issue = item.issue
    BY DEF Rows
  <2>2. CASE m < r
    <3>1. m \in 1..(Len(ops) - 1) /\ ops'[m] = ops[m]
      BY <1>2, <2>1, <2>2
    <3> QED BY <1>2, <2>1, <2>2, <3>1 DEF Rows
  <2>3. CASE ~(m < r)
    <3>1. m - 1 \in 1..(Len(ops) - 1) /\ ~(m - 1 < r) /\ (m - 1) + 1 = m
      BY <1>2, <2>1, <2>3
    <3>2. ops'[m - 1] = ops[m]
      BY <1>2, <3>1
    <3> QED BY <1>2, <2>1, <2>3, <3>1, <3>2 DEF Rows
  <2> QED BY <2>2, <2>3
<1>5. r \in Rows(kind) => \A n \in Rows(other) : ~(n < r)
  <2> SUFFICES ASSUME r \in Rows(kind), NEW n \in Rows(other), n < r PROVE FALSE
    OBVIOUS
  <2>1. n \in 1..(r - 1) /\ ops[n].kind = other /\ ops[n].issue = item.issue
    BY <1>2 DEF Rows
  <2>2. ops[r].kind = kind /\ ops[r].issue = item.issue
    BY DEF Rows
  <2>3. RunsOn("post") \/ RunsOn("erase")
    BY <1>1, <2>2 DEF RunsOn
  <2>4. ~Crossing(ops[n], ops[r])
    BY <1>1, <2>1, <2>3 DEF CopyInv, InTurn
  <2>5. {ops[n].kind, ops[r].kind} = {"post", "erase"}
    BY <2>1, <2>2
  <2> QED BY <2>1, <2>2, <2>4, <2>5 DEF Crossing
<1>6. ASSUME NEW n \in Rows(other)' PROVE \E m \in Rows(kind)' : n < m
  <2>1. n \in 1..(Len(ops) - 1)
    BY <1>2 DEF Rows
  <2>2. PICK p \in Rows(other) : p # r /\ p = IF n < r THEN n ELSE n + 1
    BY <1>3
  <2>3. PICK m \in Rows(kind) : p < m
    BY DEF Ends
  <2>4. m # r
    BY <1>5, <2>3
  <2>5. (IF m < r THEN m ELSE m - 1) \in Rows(kind)'
    BY <1>4, <2>4
  <2>6. m \in 1..Len(ops) /\ p \in 1..Len(ops)
    BY DEF Rows
  <2>7. n < IF m < r THEN m ELSE m - 1
    BY <1>2, <2>1, <2>2, <2>3, <2>4, <2>6
  <2> QED BY <2>5, <2>7
<1>7. Done(kind)' => Showing(item.issue)' = body
  <2> SUFFICES ASSUME Done(kind)' PROVE Showing(item.issue)' = body
    OBVIOUS
  <2>1. \A n \in Rows(kind)' : FALSE
    BY IdleTypes DEF Done, Spent
  <2>2. \A m \in Rows(kind) : m = r
    BY <1>4, <2>1
  <2>3. Done(kind)
    BY <1>1, <2>2 DEF Done, Spent
  <2>4. Showing(item.issue)' = Showing(item.issue)
    BY DEF Showing
  <2> QED BY <2>3, <2>4 DEF Ends
<1> QED BY <1>6, <1>7 DEF Ends

\* No step but one of a post or a deletion of the copy changes what is shown of it.
LEMMA SameEnds ==
  ASSUME NEW kind \in {"post", "erase"}, NEW other \in {"post", "erase"}, kind # other, NEW body,
         Ends(kind, other, body), item'.issue = item.issue,
         \A k \in {"post", "erase"} : Rows(k)' = Rows(k),
         Showing(item.issue)' = Showing(item.issue),
         \A n \in Rows(kind) : Spent(n)' => Spent(n)
  PROVE  Ends(kind, other, body)'
<1>1. Rows(kind)' = Rows(kind) /\ Rows(other)' = Rows(other)
  OBVIOUS
<1>2. Done(kind)' => Done(kind)
  BY <1>1 DEF Done
<1> QED BY <1>1, <1>2, EndsFrame

\* What the copies show.
LEMMA ShowingStays ==
  ASSUME UNCHANGED <<copies, messages>>, item'.issue = item.issue
  PROVE  Showing(item.issue)' = Showing(item.issue)
BY DEF Showing

LEMMA OutsideEnds ==
  ASSUME CreationInv, item'.issue = item.issue,
         NEW kind \in {"post", "erase"}, NEW other \in {"post", "erase"}, kind # other, NEW body,
         Ends(kind, other, body),
         \/ \E seen \in BOOLEAN : OpenThread(seen)
         \/ EditStarter \/ PostReply \/ TouchThread \/ UserEdits \/ UserReverts
         \/ EnqueueSnapshot \/ ReadInventory \/ Backoff \/ UNCHANGED vars
  PROVE  Ends(kind, other, body)'
<1>1. UNCHANGED <<copies, messages, handler>>
  BY DEF OpenThread, EditStarter, PostReply, TouchThread, OutsideDiscord, UserEdits, UserReverts, UserWrites,
     EnqueueSnapshot, ReadInventory, Backoff, record, discord, vars
<1>2. SameRows
  <2>1. CASE Backoff
    BY <2>1, DueRows
  <2>2. CASE ops' = ops
    BY <2>2 DEF SameRows
  <2>3. ops' = ops \/ Backoff
    BY DEF OpenThread, EditStarter, PostReply, TouchThread, OutsideDiscord, UserEdits, UserReverts, UserWrites,
       EnqueueSnapshot, ReadInventory, outbox, vars
  <2> QED BY <2>1, <2>2, <2>3
<1>3. \A k : Rows(k)' = Rows(k)
  BY <1>2, RowsSame
<1>4. \A n : Spent(n)' => Spent(n)
  BY <1>1 DEF Spent
<1> QED BY <1>1, <1>3, <1>4, ShowingStays, SameEnds

LEMMA IdleEnds ==
  ASSUME CreationInv, CopyInv, item'.issue = item.issue, ~Lapsed, ~Lapsed',
         NEW kind \in {"post", "erase"}, NEW other \in {"post", "erase"}, kind # other, NEW body,
         Ends(kind, other, body), Finish \/ Pend \/ Interrupt \/ GiveUp
  PROVE  Ends(kind, other, body)'
<1>1. UNCHANGED <<copies, messages, item>> /\ handler' = Idle
  BY DEF Finish, Pend, Interrupt, GiveUp, SettleRow, record, discord
<1>2. ~GiveUp
  BY DEF GiveUp, Lapsed
<1>3. CASE Finish /\ handler.job = "operation"
  <2>1. ops' = RemoveAt(ops, handler.row) /\ handler.step = "end"
    BY <1>3 DEF Finish, SettleRow
  <2> QED BY <1>1, <1>3, <2>1, FinishEnds
<1>4. CASE ~(Finish /\ handler.job = "operation")
  <2>1. SameRows
    <3>1. CASE Interrupt
      BY <3>1, DueRows
    <3>2. CASE Finish
      BY <1>4, <3>2 DEF Finish, SettleRow, SameRows
    <3>3. CASE Pend
      <4>1. ~(past' = past \cup {"dead"})
        BY DEF Lapsed
      <4> QED BY <3>3, <4>1 DEF Pend, SameRows, outbox
    <3> QED BY <1>2, <3>1, <3>2, <3>3
  <2>2. \A k : Rows(k)' = Rows(k)
    BY <2>1, RowsSame
  <2>3. \A n : Spent(n)' => Spent(n)
    BY <1>1, IdleTypes DEF Spent
  <2> QED BY <1>1, <2>2, <2>3, ShowingStays, SameEnds
<1> QED BY <1>3, <1>4

LEMMA ClaimEnds ==
  ASSUME CreationInv, item'.issue = item.issue, item.issue \in Issue, links[item.issue] = Person,
         NEW kind \in {"post", "erase"}, NEW other \in {"post", "erase"}, kind # other, NEW body,
         Ends(kind, other, body), ClaimInbox \/ ClaimEvent \/ ClaimOperation
  PROVE  Ends(kind, other, body)'
<1>1. UNCHANGED <<copies, messages, item, ops, links>>
  BY DEF ClaimInbox, ClaimEvent, ClaimOperation, ClaimOnly, record, discord, outbox
<1>2. \A k : Rows(k)' = Rows(k)
  BY <1>1 DEF Rows
<1>3. \A n \in Rows(kind) : ~Spent(n)'
  <2>1. CASE ClaimInbox \/ ClaimEvent
    <3>1. handler'.job \in {"inbox", "event"}
      BY <2>1 DEF ClaimInbox, ClaimEvent, Idle
    <3> QED BY <3>1 DEF Spent
  <2>2. CASE ClaimOperation
    <3>1. PICK r \in 1..Len(ops) : handler'.row = r /\ handler'.step = FirstStep(ops[r])
      BY <2>2 DEF ClaimOperation, Idle
    <3>2. r \in Rows(kind) => FirstStep(ops[r]) # "end"
      BY DEF Rows, FirstStep, FirstStepOfAll, NoThread, Person
    <3> QED BY <3>1, <3>2 DEF Spent
  <2> QED BY <2>1, <2>2
<1> QED BY <1>1, <1>2, <1>3, ShowingStays, SameEnds

\* The handlers of the starter, and of the inbox.
LEMMA StarterEnds ==
  ASSUME CreationInv, item'.issue = item.issue,
         NEW kind \in {"post", "erase"}, NEW other \in {"post", "erase"}, kind # other, NEW body,
         Ends(kind, other, body),
         \/ EnqueueCreate \/ EnqueueUpload \/ EnqueueSync \/ EnqueueResync \/ RelayReply
         \/ CreateIssue \/ createDiscordOriginLink \/ UpsertStarter \/ SetDestination \/ SetRenderHash
         \/ UpsertAttachment \/ CompleteAttachment \/ ReadBody \/ WriteBody \/ SaveHash
  PROVE  Ends(kind, other, body)'
<1>1. UNCHANGED <<copies, messages>>
  BY DEF EnqueueCreate, EnqueueUpload, EnqueueSync, EnqueueResync, RelayReply, CreateIssue,
     createDiscordOriginLink, UpsertStarter, SetDestination, SetRenderHash, UpsertAttachment,
     CompleteAttachment, ReadBody, WriteBody, SaveHash, Enqueue, OnlyItem, WorkerOnly, record, discord
<1>2. /\ handler.step \in (InboxSteps \cup StepsOf("create") \cup StepsOf("upload") \cup StepsOf("body")) \ {"end"}
      /\ handler'.job = handler.job /\ handler'.row = handler.row
  BY StarterSteps
<1>3. handler.job = "inbox" \/
        (handler.job = "operation" /\ ops[handler.row].kind \in {"create", "upload", "body"})
  BY <1>2, RowOfStep
<1>4. \A n \in Rows(kind) : ~Spent(n)'
  BY <1>2, <1>3 DEF Rows, Spent
<1>5. \A k \in {"post", "erase"} : Rows(k)' = Rows(k)
  <2>1. CASE EnqueueCreate \/ EnqueueUpload \/ EnqueueSync \/ EnqueueResync
    <3>1. PICK op : OnStarter(op) /\ (ops' = ops \/ ops' = Append(ops, op))
      BY <2>1, StarterRow
    <3>2. op \in Operation /\ op.kind \notin {"post", "erase"}
      BY <3>1 DEF OnStarter
    <3> QED BY <3>1, <3>2, RowsGrown
  <2>2. CASE ~(EnqueueCreate \/ EnqueueUpload \/ EnqueueSync \/ EnqueueResync)
    <3>1. ops' = ops
      BY <2>2 DEF RelayReply, CreateIssue, createDiscordOriginLink, UpsertStarter, SetDestination, SetRenderHash,
         UpsertAttachment, CompleteAttachment, ReadBody, WriteBody, SaveHash, OnlyItem, outbox
    <3> QED BY <3>1 DEF Rows
  <2> QED BY <2>1, <2>2
<1> QED BY <1>1, <1>4, <1>5, ShowingStays, SameEnds

\* The events, as long as they enqueue nothing that is about the copy.
LEMMA EventEnds ==
  ASSUME CreationInv, item'.issue = item.issue, item.issue \in Issue,
         NEW kind \in {"post", "erase"}, NEW other \in {"post", "erase"}, kind # other, NEW body,
         Ends(kind, other, body),
         EnsureLink \/ UpsertCopy \/ ((Hear \/ EnqueuePost) /\ (handler.issue # item.issue \/ ops' = ops))
  PROVE  Ends(kind, other, body)'
<1>1. handler.job = "event" /\ handler'.job = handler.job /\ handler.issue \in Issue
  <2>1. handler.step \in EventSteps \ {"end"} /\ handler'.job = handler.job
    BY DEF EnsureLink, UpsertCopy, Hear, Heard, EnqueuePost, Goto, EventSteps, CreationInv, TypeOK, Handler
  <2>2. handler.job = "event"
    BY <2>1, RowOfStep
  <2> QED BY <2>1, <2>2 DEF CreationInv, ClaimsHeld, RowsFit, Made
<1>2. Showing(item.issue)' = Showing(item.issue)
  <2>1. messages' = messages
    BY DEF EnsureLink, UpsertCopy, Hear, EnqueuePost, Enqueue, discord
  <2>2. copies'[item.issue].message = copies[item.issue].message
    <3>1. CASE UpsertCopy
      <4>1. copies \in [Issue -> Copy] /\ copies[handler.issue] \in Copy
        BY <1>1 DEF CreationInv, TypeOK
      <4>2. copies' = [copies EXCEPT ![handler.issue] =
                         [copies[handler.issue] EXCEPT !.state = "ACTIVE", !.body = handler.event.body]]
        BY <3>1 DEF UpsertCopy, OnlyCopy
      <4> QED BY <1>1, <4>1, <4>2 DEF Copy
    <3>2. CASE ~UpsertCopy
      BY <3>2 DEF EnsureLink, Hear, EnqueuePost, Enqueue, record
    <3> QED BY <3>1, <3>2
  <2> QED BY <2>1, <2>2 DEF Showing
<1>3. \A n : ~Spent(n)'
  BY <1>1 DEF Spent
<1>4. \A k : Rows(k)' = Rows(k)
  <2>1. CASE ops' = ops
    BY <2>1 DEF Rows
  <2>2. CASE ops' # ops
    <3>1. handler.issue # item.issue /\ (Hear \/ EnqueuePost)
      BY <2>2 DEF EnsureLink, UpsertCopy, OnlyCopy, outbox
    <3>2. handler.issue \in 0..MaxIssues /\ 0 \in 0..MaxText
      BY <1>1 DEF Issue
    <3>3. \A k \in {"post", "erase"} :
            Op(k, handler.issue, 0) \in Operation /\ Op(k, handler.issue, 0).issue = handler.issue
      BY <3>2, OpTypes
    <3>4. \E op \in Operation : op.issue = handler.issue /\ ops' = Append(ops, op)
      <4>1. CASE Hear
        BY <2>2, <3>3, <4>1 DEF Hear, Enqueue, outbox
      <4>2. CASE EnqueuePost
        BY <2>2, <3>3, <4>2 DEF EnqueuePost, Enqueue
      <4> QED BY <3>1, <4>1, <4>2
    <3>5. PICK op \in Operation : op.issue = handler.issue /\ ops' = Append(ops, op)
      BY <3>4
    <3> QED BY <3>1, <3>5, RowsGrown
  <2> QED BY <2>1, <2>2
<1> QED BY <1>2, <1>3, <1>4, SameEnds

\* A post or a deletion, whose end is on the way until it is settled.
LEMMA RunEnds ==
  ASSUME CreationInv, CopyInv, CopyInv', item'.issue = item.issue, item.issue \in Issue,
         NEW kind \in {"post", "erase"}, NEW other \in {"post", "erase"}, kind # other, NEW body,
         Ends(kind, other, body),
         kind = "post" => body = copies[item.issue].body,
         kind = "erase" => body = NoBody,
         \/ CreateThread \/ attachDiscordThread \/ CreateMessage \/ EditMessage \/ ReplaceSegments
         \/ DeleteMessage \/ MarkDeleted
  PROVE  Ends(kind, other, body)'
<1>1. /\ handler.step \in {"thread", "join", "message", "edit", "segments", "erase", "mark"}
      /\ handler'.job = handler.job /\ handler'.row = handler.row /\ handler'.issue = handler.issue
      /\ handler'.step \in {"join", "segments", "mark", "end"}
      /\ UNCHANGED <<ops, item>>
  BY DEF CreateThread, attachDiscordThread, CreateMessage, EditMessage, ReplaceSegments, DeleteMessage, MarkDeleted,
     Post, OnlyCopy, Goto, CreationInv, TypeOK, Handler, record, outbox
<1>2. PICK r \in 1..Len(ops) :
        /\ r = handler.row /\ handler.job = "operation" /\ handler.issue = ops[r].issue /\ handler.issue \in Issue
        /\ ops[r].kind \in {"post", "erase"}
  BY <1>1, OnRow
<1>3. \A k : Rows(k)' = Rows(k)
  BY <1>1 DEF Rows
<1>4. \A n : Spent(n)' => n = r /\ handler'.step = "end"
  BY <1>1, <1>2 DEF Spent
<1>5. CASE handler.issue = item.issue
  <2>1. CASE ops[r].kind = other
    <3>1. r \in Rows(other)
      BY <1>2, <1>5, <2>1 DEF Rows
    <3>2. PICK m \in Rows(kind) : r < m
      BY <3>1 DEF Ends
    <3>3. m # r
      BY <1>2, <3>2 DEF Rows
    <3>4. ~Done(kind)'
      BY <1>3, <1>4, <3>2, <3>3 DEF Done
    <3> QED BY <1>3, <3>4, EndsFrame
  <2>2. CASE ops[r].kind = kind
    <3>1. r \in Rows(kind)
      BY <1>2, <1>5, <2>2 DEF Rows
    <3>2. ASSUME handler'.step = "end" PROVE Showing(item.issue)' = body
      <4>1. RunsOn(kind)' /\ handler'.issue = item'.issue
        BY <1>1, <1>2, <1>5, <2>2 DEF RunsOn
      <4>2. CASE kind = "post"
        <5>1. Showing(item.issue)' = copies'[item'.issue].body
          BY <3>2, <4>1, <4>2 DEF CopyInv, OnCopy
        <5>2. copies'[item.issue].body = copies[item.issue].body
          <6>1. CASE ReplaceSegments \/ MarkDeleted
            <7>1. copies \in [Issue -> Copy] /\ copies[handler.issue] \in Copy
              BY <1>2 DEF CreationInv, TypeOK
            <7>2. CASE ReplaceSegments
              <8>1. copies' = [copies EXCEPT ![handler.issue] =
                                 [copies[handler.issue] EXCEPT !.message = handler.message]]
                BY <7>2 DEF ReplaceSegments, OnlyCopy
              <8> QED BY <1>2, <1>5, <7>1, <8>1 DEF Copy
            <7>3. CASE MarkDeleted
              <8> DEFINE new == [copies[handler.issue] EXCEPT !.state = "DELETED", !.message = NoMessage]
              <8>1. copies' = [copies EXCEPT ![handler.issue] = new]
                BY <7>3 DEF MarkDeleted, OnlyCopy
              <8>2. new.body = copies[handler.issue].body
                BY <7>1 DEF Copy
              <8> HIDE DEF new
              <8> QED BY <1>2, <1>5, <7>1, <8>1, <8>2
            <7> QED BY <6>1, <7>2, <7>3
          <6>2. CASE ~(ReplaceSegments \/ MarkDeleted)
            BY <6>2 DEF CreateThread, attachDiscordThread, CreateMessage, EditMessage, DeleteMessage, Post, record
          <6> QED BY <6>1, <6>2
        <5> QED BY <4>2, <5>1, <5>2
      <4>3. CASE kind = "erase"
        BY <3>2, <4>1, <4>3 DEF CopyInv, OnCopy
      <4> QED BY <4>2, <4>3
    <3>3. Done(kind)' => handler'.step = "end"
      BY <1>3, <1>4, <3>1 DEF Done
    <3> QED BY <1>3, <3>2, <3>3, EndsFrame
  <2> QED BY <1>2, <2>1, <2>2
<1>6. CASE handler.issue # item.issue
  <2>1. \A n \in Rows(kind) : ~Spent(n)'
    BY <1>2, <1>4, <1>6 DEF Rows
  <2>2. Showing(item.issue)' = Showing(item.issue)
    <3>1. copies'[item.issue] = copies[item.issue]
      BY <1>2, <1>6 DEF CreateThread, attachDiscordThread, CreateMessage, EditMessage, ReplaceSegments,
         DeleteMessage, MarkDeleted, Post, OnlyCopy, record, CreationInv, TypeOK
    <3>2. copies[item.issue].message # NoMessage =>
            messages'[copies[item.issue].message] = messages[copies[item.issue].message]
      <4> SUFFICES ASSUME NEW m \in 1..Len(messages), m = copies[item.issue].message
                   PROVE  messages'[m] = messages[m]
        <5>1. copies[item.issue].message \in Nat
          BY DEF CreationInv, TypeOK, Copy
        <5>2. copies[item.issue].message <= Len(messages) /\ Len(messages) \in Nat
          BY LenProperties DEF CopyInv, MessagesApart, CreationInv, TypeOK
        <5> QED BY <5>1, <5>2 DEF NoMessage
      <4>1. CASE CreateThread \/ CreateMessage
        <5>1. messages' = Append(messages, handler.body)
          BY <4>1 DEF CreateThread, CreateMessage, Post
        <5> QED BY <5>1, AppendProperties DEF CreationInv, TypeOK, Handler
      <4>2. CASE EditMessage \/ DeleteMessage
        <5>1. handler.message = copies[handler.issue].message /\ handler.message # NoMessage
          BY <4>2 DEF EditMessage, DeleteMessage, CopyInv, HandlerHolds
        <5>2. handler.message # m
          BY <1>2, <1>6, <5>1 DEF CopyInv, MessagesApart
        <5> QED BY <4>2, <5>2 DEF EditMessage, DeleteMessage, CreationInv, TypeOK
      <4>3. CASE attachDiscordThread \/ ReplaceSegments \/ MarkDeleted
        BY <4>3 DEF attachDiscordThread, ReplaceSegments, MarkDeleted, discord
      <4> QED BY <4>1, <4>2, <4>3
    <3> QED BY <1>1, <3>1, <3>2 DEF Showing
  <2> QED BY <1>3, <2>1, <2>2, SameEnds
<1> QED BY <1>5, <1>6

LEMMA EndsStep ==
  ASSUME CreationInv, CopyInv, [Next]_vars, item.hash # NoBody, ~Lapsed',
         NEW kind \in {"post", "erase"}, NEW other \in {"post", "erase"}, kind # other, NEW body,
         Ends(kind, other, body),
         kind = "post" => body = copies[item.issue].body,
         kind = "erase" => body = NoBody,
         Hear \/ EnqueuePost => handler.issue # item.issue \/ ops' = ops
  PROVE  Ends(kind, other, body)'
<1>1. item.issue \in Issue /\ links[item.issue] = Person /\ item'.issue = item.issue
  BY ItemStays
<1>2. ~Lapsed /\ CopyInv'
  BY LapsedStays, CopiesFit
<1>3. CASE \/ \E seen \in BOOLEAN : OpenThread(seen)
           \/ EditStarter \/ PostReply \/ TouchThread \/ UserEdits \/ UserReverts
           \/ EnqueueSnapshot \/ ReadInventory \/ Backoff \/ UNCHANGED vars
  BY <1>1, <1>3, OutsideEnds
<1>4. CASE Finish \/ Pend \/ Interrupt \/ GiveUp
  BY <1>1, <1>2, <1>4, IdleEnds
<1>5. CASE ClaimInbox \/ ClaimEvent \/ ClaimOperation
  BY <1>1, <1>5, ClaimEnds
<1>6. CASE \/ EnqueueCreate \/ EnqueueUpload \/ EnqueueSync \/ EnqueueResync \/ RelayReply
           \/ CreateIssue \/ createDiscordOriginLink \/ UpsertStarter \/ SetDestination \/ SetRenderHash
           \/ UpsertAttachment \/ CompleteAttachment \/ ReadBody \/ WriteBody \/ SaveHash
  BY <1>1, <1>6, StarterEnds
<1>7. CASE EnsureLink \/ UpsertCopy \/ Hear \/ EnqueuePost
  BY <1>1, <1>7, EventEnds
<1>8. CASE \/ CreateThread \/ attachDiscordThread \/ CreateMessage \/ EditMessage \/ ReplaceSegments
           \/ DeleteMessage \/ MarkDeleted
  BY <1>1, <1>2, <1>8, RunEnds
<1> QED BY <1>3, <1>4, <1>5, <1>6, <1>7, <1>8 DEF Next, Work

-----------------------------------------------------------------------------
(* The rest of the account.                                                *)

\* The steps of the worker within a handler.
Within ==
  \/ EnqueueCreate \/ RelayReply
  \/ CreateIssue \/ createDiscordOriginLink \/ UpsertStarter \/ SetDestination \/ SetRenderHash
  \/ UpsertAttachment \/ EnqueueUpload \/ EnqueueSync
  \/ CompleteAttachment \/ EnqueueResync \/ ReadBody \/ WriteBody \/ SaveHash
  \/ EnsureLink \/ Hear \/ UpsertCopy \/ EnqueuePost
  \/ CreateThread \/ attachDiscordThread \/ CreateMessage \/ EditMessage \/ ReplaceSegments
  \/ DeleteMessage \/ MarkDeleted

LEMMA WithinOrNot ==
  ASSUME [Next]_vars
  PROVE  \/ Within
         \/ \E seen \in BOOLEAN : OpenThread(seen)
         \/ EditStarter \/ PostReply \/ TouchThread \/ UserEdits \/ UserReverts
         \/ EnqueueSnapshot \/ ReadInventory \/ Backoff \/ UNCHANGED vars
         \/ Finish \/ Pend \/ Interrupt \/ GiveUp
         \/ ClaimInbox \/ ClaimEvent \/ ClaimOperation
BY DEF Next, Work, Within

LEMMA HashStays ==
  ASSUME CreationInv, [Next]_vars
  PROVE  item'.hash = item.hash \/ SetRenderHash \/ SaveHash
<1>1. CASE \/ UpsertStarter \/ SetDestination \/ UpsertAttachment \/ CompleteAttachment \/ ReadBody
  BY <1>1 DEF UpsertStarter, SetDestination, UpsertAttachment, CompleteAttachment, ReadBody, OnlyItem, CreationInv,
     TypeOK, Item
<1>2. CASE \/ \E seen \in BOOLEAN : OpenThread(seen)
           \/ EditStarter \/ PostReply \/ TouchThread \/ UserEdits \/ UserReverts
           \/ ReadInventory \/ Interrupt \/ GiveUp \/ EnqueueSnapshot \/ ClaimInbox \/ ClaimEvent
           \/ ClaimOperation \/ Finish \/ Pend \/ Backoff \/ EnqueueCreate \/ RelayReply \/ UNCHANGED vars
  <2>1. item' = item
    BY <1>2 DEF OpenThread, EditStarter, PostReply, TouchThread, OutsideDiscord, UserEdits, UserReverts, UserWrites,
       ReadInventory, Interrupt, GiveUp, SettleRow, EnqueueSnapshot, ClaimInbox, ClaimEvent, ClaimOperation,
       ClaimOnly, Finish, Pend, Backoff, EnqueueCreate, Enqueue, RelayReply, record, vars
  <2> QED BY <2>1
<1>3. CASE \/ CreateIssue \/ createDiscordOriginLink \/ EnqueueUpload \/ EnqueueSync \/ EnqueueResync \/ WriteBody
           \/ EnsureLink \/ Hear \/ UpsertCopy \/ EnqueuePost \/ CreateThread \/ attachDiscordThread
           \/ CreateMessage \/ EditMessage \/ ReplaceSegments \/ DeleteMessage \/ MarkDeleted
  <2>1. item' = item
    BY <1>3 DEF CreateIssue, createDiscordOriginLink, EnqueueUpload, EnqueueSync, EnqueueResync, WriteBody,
       EnsureLink, Hear, UpsertCopy, EnqueuePost, CreateThread, attachDiscordThread, CreateMessage, EditMessage,
       ReplaceSegments, DeleteMessage, MarkDeleted, Post, Enqueue, OnlyCopy, WorkerOnly, record
  <2> QED BY <2>1
<1> QED BY <1>1, <1>2, <1>3 DEF Next, Work

\* A handler stays on its row, and the rows stay where they are.
LEMMA WithinMoves ==
  ASSUME CreationInv, Within
  PROVE  /\ UNCHANGED <<handler.job, handler.row, handler.event>>
         /\ handler.step = "issue" \/ handler'.issue = handler.issue
         /\ \A n \in 1..Len(ops) : n \in 1..Len(ops') /\ ops'[n] = ops[n]
         /\ hooks \subseteq hooks'
<1>1. /\ UNCHANGED <<handler.job, handler.row, handler.event>>
      /\ handler.step = "issue" \/ handler'.issue = handler.issue
  <2>1. CASE CreateIssue
    BY <2>1 DEF CreateIssue, CreationInv, TypeOK, Handler
  <2>2. CASE CreateThread \/ CreateMessage
    BY <2>2 DEF CreateThread, CreateMessage, Post, CreationInv, TypeOK, Handler
  <2>3. CASE \E step : Goto(step)
    BY <2>3 DEF Goto, CreationInv, TypeOK, Handler
  <2>4. CreateIssue \/ CreateThread \/ CreateMessage \/ \E step : Goto(step)
    BY DEF Within, EnqueueCreate, RelayReply, createDiscordOriginLink, UpsertStarter, SetDestination, SetRenderHash,
       UpsertAttachment, EnqueueUpload, EnqueueSync, CompleteAttachment, EnqueueResync, ReadBody, WriteBody,
       SaveHash, EnsureLink, Hear, Heard, UpsertCopy, EnqueuePost, attachDiscordThread, EditMessage,
       ReplaceSegments, DeleteMessage, MarkDeleted
  <2> QED BY <2>1, <2>2, <2>3, <2>4
<1>2. \A n \in 1..Len(ops) : n \in 1..Len(ops') /\ ops'[n] = ops[n]
  <2>1. CASE ops' = ops
    BY <2>1
  <2>2. CASE EnqueueCreate \/ EnqueueUpload \/ EnqueueSync \/ EnqueueResync
    <3>1. PICK op : OnStarter(op) /\ (ops' = ops \/ ops' = Append(ops, op))
      BY <2>2, StarterRow
    <3>2. op \in Operation
      BY <3>1 DEF OnStarter
    <3> QED BY <3>1, <3>2, GrownRows
  <2>3. CASE Hear \/ EnqueuePost
    <3>1. handler.issue \in 0..MaxIssues /\ 0 \in 0..MaxText
      BY DEF CreationInv, TypeOK, Handler
    <3>2. \A k \in {"post", "erase"} : Op(k, handler.issue, 0) \in Operation
      BY <3>1, OpTypes
    <3>3. \E op \in Operation : ops' = ops \/ ops' = Append(ops, op)
      BY <2>3, <3>2 DEF Hear, EnqueuePost, Enqueue, outbox
    <3> QED BY <3>3, GrownRows
  <2>4. ops' = ops \/ EnqueueCreate \/ EnqueueUpload \/ EnqueueSync \/ EnqueueResync \/ Hear \/ EnqueuePost
    BY DEF Within, RelayReply, CreateIssue, createDiscordOriginLink, UpsertStarter, SetDestination, SetRenderHash,
       UpsertAttachment, CompleteAttachment, ReadBody, WriteBody, SaveHash, EnsureLink, UpsertCopy, CreateThread,
       attachDiscordThread, CreateMessage, EditMessage, ReplaceSegments, DeleteMessage, MarkDeleted, Post,
       OnlyItem, OnlyCopy, outbox
  <2> QED BY <2>1, <2>2, <2>3, <2>4
<1>3. hooks \subseteq hooks'
  <2>1. CASE CreateIssue \/ WriteBody
    BY <2>1 DEF CreateIssue, WriteBody, Announce, github
  <2>2. CASE ~(CreateIssue \/ WriteBody)
    BY <2>2 DEF Within, EnqueueCreate, RelayReply, createDiscordOriginLink, UpsertStarter, SetDestination,
       SetRenderHash, UpsertAttachment, EnqueueUpload, EnqueueSync, CompleteAttachment, EnqueueResync, ReadBody,
       SaveHash, EnsureLink, Hear, UpsertCopy, EnqueuePost, CreateThread, attachDiscordThread, CreateMessage,
       EditMessage, ReplaceSegments, DeleteMessage, MarkDeleted, Post, Enqueue, OnlyItem, OnlyCopy, WorkerOnly,
       github
  <2> QED BY <2>1, <2>2
<1> QED BY <1>1, <1>2, <1>3

\* A sync that is still to come, still is.
LEMMA BodyRowStays ==
  ASSUME CreationInv, [Next]_vars, item.hash # NoBody, ~Lapsed', ~Done("body"), ~SaveHash, ~ReadBody
  PROVE  ~Done("body")'
<1>1. item'.issue = item.issue
  BY ItemStays
<1>2. PICK n \in Rows("body") : ~Spent(n)
  BY DEF Done
<1>3. n \in 1..Len(ops) /\ ops[n].kind = "body" /\ ops[n].issue = item.issue
  BY DEF Rows
<1>4. CASE \/ \E seen \in BOOLEAN : OpenThread(seen)
           \/ EditStarter \/ PostReply \/ TouchThread \/ UserEdits \/ UserReverts
           \/ EnqueueSnapshot \/ ReadInventory \/ Backoff \/ UNCHANGED vars
  <2>1. handler' = handler
    BY <1>4 DEF OpenThread, EditStarter, PostReply, TouchThread, OutsideDiscord, UserEdits, UserReverts, UserWrites,
       EnqueueSnapshot, ReadInventory, Backoff, vars
  <2>2. SameRows
    <3>1. CASE Backoff
      BY <3>1, DueRows
    <3>2. CASE ops' = ops
      BY <3>2 DEF SameRows
    <3>3. ops' = ops \/ Backoff
      BY <1>4 DEF OpenThread, EditStarter, PostReply, TouchThread, OutsideDiscord, UserEdits, UserReverts,
         UserWrites, EnqueueSnapshot, ReadInventory, outbox, vars
    <3> QED BY <3>1, <3>2, <3>3
  <2>3. n \in Rows("body")'
    BY <1>1, <2>2, RowsSame
  <2> QED BY <1>2, <2>1, <2>3 DEF Done, Spent
<1>5. CASE Finish \/ Pend \/ Interrupt \/ GiveUp
  <2>1. handler' = Idle /\ ~GiveUp
    BY <1>5 DEF Finish, Pend, Interrupt, GiveUp, SettleRow, Lapsed
  <2>2. \A m : ~Spent(m)'
    BY <2>1, IdleTypes DEF Spent
  <2>3. \E m : m \in Rows("body")'
    <3>1. CASE Finish /\ handler.job = "operation"
      <4>1. PICK r \in 1..Len(ops) : r = handler.row
        BY <3>1 DEF CreationInv, ClaimsHeld
      <4>2. r # n /\ ops' = RemoveAt(ops, r)
        BY <1>2, <3>1, <4>1 DEF Finish, SettleRow, Spent
      <4>3. /\ Len(ops) \in Nat /\ Len(RemoveAt(ops, r)) = Len(ops) - 1
            /\ \A m \in 1..(Len(ops) - 1) : RemoveAt(ops, r)[m] = IF m < r THEN ops[m] ELSE ops[m + 1]
        BY RemoveIndex DEF CreationInv, TypeOK
      <4>4. CASE n < r
        <5>1. n \in 1..(Len(ops) - 1) /\ ops'[n] = ops[n]
          BY <1>3, <4>2, <4>3, <4>4
        <5> QED BY <1>1, <1>3, <4>2, <4>3, <5>1 DEF Rows
      <4>5. CASE ~(n < r)
        <5>1. n - 1 \in 1..(Len(ops) - 1) /\ ~(n - 1 < r) /\ (n - 1) + 1 = n
          BY <1>3, <4>1, <4>2, <4>3, <4>5
        <5>2. ops'[n - 1] = ops[n]
          BY <4>2, <4>3, <5>1
        <5> QED BY <1>1, <1>3, <4>2, <4>3, <5>1, <5>2 DEF Rows
      <4> QED BY <4>4, <4>5
    <3>2. CASE ~(Finish /\ handler.job = "operation")
      <4>1. SameRows
        <5>1. CASE Interrupt
          BY <5>1, DueRows
        <5>2. CASE Finish
          BY <3>2, <5>2 DEF Finish, SettleRow, SameRows
        <5>3. CASE Pend
          <6>1. ~(past' = past \cup {"dead"})
            BY DEF Lapsed
          <6> QED BY <5>3, <6>1 DEF Pend, SameRows, outbox
        <5> QED BY <1>5, <2>1, <5>1, <5>2, <5>3
      <4> QED BY <1>1, <4>1, RowsSame
    <3> QED BY <3>1, <3>2
  <2> QED BY <2>2, <2>3 DEF Done
<1>6. CASE ClaimInbox \/ ClaimEvent \/ ClaimOperation
  <2>1. ops' = ops
    BY <1>6 DEF ClaimInbox, ClaimEvent, ClaimOperation, ClaimOnly, outbox
  <2>2. n \in Rows("body")'
    BY <1>1, <1>3, <2>1 DEF Rows
  <2>3. ~Spent(n)'
    <3>1. CASE ClaimInbox \/ ClaimEvent
      <4>1. handler'.job \in {"inbox", "event"}
        BY <3>1 DEF ClaimInbox, ClaimEvent, Idle
      <4> QED BY <4>1 DEF Spent
    <3>2. CASE ClaimOperation
      <4>1. PICK r \in 1..Len(ops) : handler'.row = r /\ handler'.step = FirstStep(ops[r])
        BY <3>2 DEF ClaimOperation, Idle
      <4>2. r = n => FirstStep(ops[r]) = "read"
        BY <1>3 DEF FirstStep, FirstStepOfAll
      <4> QED BY <4>1, <4>2 DEF Spent
    <3> QED BY <1>6, <3>1, <3>2
  <2> QED BY <2>2, <2>3 DEF Done
<1>7. CASE Within
  <2>1. /\ UNCHANGED <<handler.job, handler.row>>
        /\ n \in 1..Len(ops') /\ ops'[n] = ops[n]
    BY <1>3, <1>7, WithinMoves
  <2>2. n \in Rows("body")'
    BY <1>1, <1>3, <2>1 DEF Rows
  <2>3. ~Spent(n)'
    <3> SUFFICES ASSUME Spent(n)' PROVE FALSE
      OBVIOUS
    <3>1. handler.job = "operation" /\ handler.row = n /\ handler'.step = "end"
      BY <2>1 DEF Spent
    <3>2. handler.step \in {"read", "write", "save"}
      BY <1>2, <1>3, <3>1 DEF CreationInv, ClaimsHeld, StepsOf, Spent
    <3>3. WriteBody
      BY <1>7, <3>2 DEF Within, EnqueueCreate, RelayReply, CreateIssue, createDiscordOriginLink, UpsertStarter,
         SetDestination, SetRenderHash, UpsertAttachment, EnqueueUpload, EnqueueSync, CompleteAttachment,
         EnqueueResync, ReadBody, SaveHash, EnsureLink, Hear, Heard, UpsertCopy, EnqueuePost, CreateThread,
         attachDiscordThread, CreateMessage, EditMessage, ReplaceSegments, DeleteMessage, MarkDeleted
    <3>4. handler'.step = "save"
      BY <3>3 DEF WriteBody, Goto, CreationInv, TypeOK, Handler
    <3> QED BY <3>1, <3>4
  <2> QED BY <2>2, <2>3 DEF Done
<1> QED BY <1>4, <1>5, <1>6, <1>7, WithinOrNot

\* An event that may still have something enqueued stays one until it is heard for what it
\* is, or its post is enqueued.
LEMMA OpenStays ==
  ASSUME CreationInv, [Next]_vars, item.hash # NoBody, ~Lapsed', NEW c, Open(c),
         Hear \/ EnqueuePost => handler.issue # item.issue
  PROVE  Open(c)'
<1>1. item'.issue = item.issue
  BY ItemStays
<1>2. PICK event \in hooks : event.issue = item.issue /\ event.stamp >= c /\ ~Closed(event)
  BY DEF Open
<1> SUFFICES event \in hooks' /\ ~Closed(event)'
  BY <1>1, <1>2 DEF Open
<1>3. CASE \/ \E seen \in BOOLEAN : OpenThread(seen)
           \/ EditStarter \/ PostReply \/ TouchThread
           \/ EnqueueSnapshot \/ ReadInventory \/ Backoff \/ UNCHANGED vars
  <2>1. handler' = handler /\ hooks \subseteq hooks'
    BY <1>3 DEF OpenThread, EditStarter, PostReply, TouchThread, OutsideDiscord, EnqueueSnapshot, ReadInventory,
       Backoff, github, vars
  <2> QED BY <1>2, <2>1 DEF Closed
<1>4. CASE UserEdits \/ UserReverts
  <2>1. PICK i \in Issue, body \in Body : UserWrites(i, body)
    BY <1>4, UsersWrite
  <2>2. handler' = handler /\ hooks \subseteq hooks'
    BY <2>1 DEF UserWrites, Announce
  <2> QED BY <1>2, <2>2 DEF Closed
<1>5. CASE Finish \/ Pend \/ Interrupt \/ GiveUp
  <2>1. handler' = Idle /\ ~GiveUp
    BY <1>5 DEF Finish, Pend, Interrupt, GiveUp, SettleRow, Lapsed
  <2>2. ~Closed(event)'
    BY <2>1, IdleTypes DEF Closed
  <2>3. event \in hooks'
    <3>1. CASE hooks' = hooks
      BY <3>1
    <3>2. CASE Finish /\ handler.job = "event"
      BY <1>2, <3>2 DEF Finish, SettleRow, Closed
    <3>3. ~(past' = past \cup {"dead"})
      BY DEF Lapsed
    <3> QED BY <1>5, <2>1, <3>1, <3>2, <3>3 DEF Finish, Pend, Interrupt, SettleRow, github
  <2> QED BY <2>2, <2>3
<1>6. CASE ClaimInbox \/ ClaimEvent \/ ClaimOperation
  <2>1. hooks' = hooks
    BY <1>6 DEF ClaimInbox, ClaimEvent, ClaimOperation, ClaimOnly, github
  <2>2. handler'.job # "event" \/ handler'.step = "link"
    BY <1>6 DEF ClaimInbox, ClaimEvent, ClaimOperation, Idle
  <2> QED BY <2>1, <2>2 DEF Closed
<1>7. CASE Within
  <2>1. UNCHANGED <<handler.job, handler.event>> /\ event \in hooks'
    BY <1>7, WithinMoves
  <2>2. ~Closed(event)'
    <3> SUFFICES ASSUME Closed(event)' PROVE FALSE
      OBVIOUS
    <3>1. handler.job = "event" /\ handler.event = event /\ handler'.step = "end"
      BY <2>1 DEF Closed
    <3>2. handler.issue = item.issue /\ handler.step \in EventSteps
      BY <1>2, <3>1 DEF CreationInv, ClaimsHeld
    <3>3. handler.step # "end"
      BY <1>2, <3>1 DEF Closed
    <3>4. Hear \/ EnqueuePost \/ EnsureLink \/ UpsertCopy
      BY <1>7, <3>2, <3>3 DEF EventSteps, Within, EnqueueCreate, RelayReply, CreateIssue, createDiscordOriginLink,
         UpsertStarter, SetDestination, SetRenderHash, UpsertAttachment, EnqueueUpload, EnqueueSync,
         CompleteAttachment, EnqueueResync, ReadBody, WriteBody, SaveHash, CreateThread, attachDiscordThread,
         CreateMessage, EditMessage, ReplaceSegments, DeleteMessage, MarkDeleted
    <3>5. EnsureLink \/ UpsertCopy => handler'.step \in {"echo", "post"}
      BY DEF EnsureLink, UpsertCopy, Goto, CreationInv, TypeOK, Handler
    <3> QED BY <3>1, <3>2, <3>4, <3>5
  <2> QED BY <2>1, <2>2
<1> QED BY <1>3, <1>4, <1>5, <1>6, <1>7, WithinOrNot

\* A copy changes what it is of when an event of it is at hand.
LEMMA CopyBodyStays ==
  ASSUME CreationInv, [Next]_vars, NEW i \in Issue, UpsertCopy => handler.issue # i
  PROVE  copies'[i].body = copies[i].body
<1>1. CASE copies' = copies
  BY <1>1
<1>2. CASE UpsertCopy
  <2>1. copies'[i] = copies[i]
    BY <1>2 DEF UpsertCopy, OnlyCopy, CreationInv, TypeOK
  <2> QED BY <2>1
<1>3. CASE ReplaceSegments \/ MarkDeleted
  <2>1. copies \in [Issue -> Copy] /\ copies[i] \in Copy
    BY DEF CreationInv, TypeOK
  <2>2. CASE ReplaceSegments
    <3> DEFINE new == [copies[handler.issue] EXCEPT !.message = handler.message]
    <3>1. copies' = [copies EXCEPT ![handler.issue] = new]
      BY <2>2 DEF ReplaceSegments, OnlyCopy
    <3>2. handler.issue = i => new.body = copies[i].body
      BY <2>1 DEF Copy
    <3> HIDE DEF new
    <3> QED BY <2>1, <3>1, <3>2
  <2>3. CASE MarkDeleted
    <3> DEFINE new == [copies[handler.issue] EXCEPT !.state = "DELETED", !.message = NoMessage]
    <3>1. copies' = [copies EXCEPT ![handler.issue] = new]
      BY <2>3 DEF MarkDeleted, OnlyCopy
    <3>2. handler.issue = i => new.body = copies[i].body
      BY <2>1 DEF Copy
    <3> HIDE DEF new
    <3> QED BY <2>1, <3>1, <3>2
  <2> QED BY <1>3, <2>2, <2>3
<1>4. CASE \/ \E seen \in BOOLEAN : OpenThread(seen)
           \/ EditStarter \/ PostReply \/ TouchThread \/ UserEdits \/ UserReverts
           \/ EnqueueSnapshot \/ ReadInventory \/ Backoff \/ UNCHANGED vars
           \/ Finish \/ Pend \/ Interrupt \/ GiveUp
           \/ ClaimInbox \/ ClaimEvent \/ ClaimOperation
  <2>1. copies' = copies
    BY <1>4 DEF OpenThread, EditStarter, PostReply, TouchThread, OutsideDiscord, UserEdits, UserReverts, UserWrites,
       EnqueueSnapshot, ReadInventory, Backoff, Finish, Pend, Interrupt, GiveUp, SettleRow, ClaimInbox,
       ClaimEvent, ClaimOperation, ClaimOnly, record, vars
  <2> QED BY <2>1
<1>5. CASE Within /\ ~UpsertCopy /\ ~ReplaceSegments /\ ~MarkDeleted
  <2>1. copies' = copies
    BY <1>5 DEF Within, EnqueueCreate, RelayReply, CreateIssue, createDiscordOriginLink, UpsertStarter,
       SetDestination, SetRenderHash, UpsertAttachment, EnqueueUpload, EnqueueSync, CompleteAttachment,
       EnqueueResync, ReadBody, WriteBody, SaveHash, EnsureLink, Hear, EnqueuePost, CreateThread,
       attachDiscordThread, CreateMessage, EditMessage, DeleteMessage, Post, Enqueue, OnlyItem, WorkerOnly, record
  <2> QED BY <2>1
<1> QED BY <1>2, <1>3, <1>4, <1>5, WithinOrNot

\* How a handler comes to write a body.
LEMMA WritesFrom ==
  ASSUME CreationInv, [Next]_vars, handler'.step \in {"write", "save"}
  PROVE  handler' = handler \/ (ReadBody /\ handler'.step = "write") \/ WriteBody
<1>1. CASE \/ \E seen \in BOOLEAN : OpenThread(seen)
           \/ EditStarter \/ PostReply \/ TouchThread \/ UserEdits \/ UserReverts
           \/ EnqueueSnapshot \/ ReadInventory \/ Backoff \/ UNCHANGED vars
  BY <1>1 DEF OpenThread, EditStarter, PostReply, TouchThread, OutsideDiscord, UserEdits, UserReverts, UserWrites,
     EnqueueSnapshot, ReadInventory, Backoff, vars
<1>2. CASE Finish \/ Pend \/ Interrupt \/ GiveUp
  BY <1>2, IdleTypes DEF Finish, Pend, Interrupt, GiveUp, SettleRow
<1>3. CASE ClaimInbox \/ ClaimEvent
  <2>1. CreationInv'
    BY <1>3, ClaimInboxKeeps, ClaimEventKeeps
  <2>2. handler'.job \in {"inbox", "event"}
    BY <1>3 DEF ClaimInbox, ClaimEvent, Idle
  <2> QED BY <2>1, <2>2 DEF CreationInv, ClaimsHeld, InboxSteps, EventSteps
<1>4. CASE ClaimOperation
  <2>1. PICK n \in 1..Len(ops) : handler'.step = FirstStep(ops[n])
    BY <1>4 DEF ClaimOperation, Idle
  <2>2. ops[n] \in Operation
    BY ElementOfSeq DEF CreationInv, TypeOK
  <2> QED BY <2>1, <2>2 DEF FirstStep, FirstStepOfAll, Operation
<1>5. CASE Within
  <2>1. CASE \/ EnqueueCreate \/ RelayReply \/ CreateIssue \/ createDiscordOriginLink \/ UpsertStarter
             \/ SetDestination \/ SetRenderHash \/ UpsertAttachment \/ EnqueueUpload \/ EnqueueSync
             \/ CompleteAttachment \/ EnqueueResync
    <3>1. handler'.step \in {"end", "connect", "starter", "place", "hash", "attach", "upload", "sync", "resync"}
      BY <2>1 DEF EnqueueCreate, RelayReply, CreateIssue, createDiscordOriginLink, UpsertStarter, SetDestination,
         SetRenderHash, UpsertAttachment, EnqueueUpload, EnqueueSync, CompleteAttachment, EnqueueResync, Goto,
         CreationInv, TypeOK, Handler
    <3> QED BY <3>1
  <2>2. CASE \/ SaveHash \/ EnsureLink \/ Hear \/ UpsertCopy \/ EnqueuePost
             \/ CreateThread \/ attachDiscordThread \/ CreateMessage \/ EditMessage \/ ReplaceSegments
             \/ DeleteMessage \/ MarkDeleted
    <3>1. handler'.step \in {"end", "echo", "copy", "post", "join", "segments", "mark"}
      BY <2>2 DEF SaveHash, EnsureLink, Hear, Heard, UpsertCopy, EnqueuePost, CreateThread, attachDiscordThread,
         CreateMessage, EditMessage, ReplaceSegments, DeleteMessage, MarkDeleted, Post, Goto, CreationInv,
         TypeOK, Handler
    <3> QED BY <3>1
  <2>3. CASE ReadBody
    BY <2>3 DEF ReadBody, Goto, CreationInv, TypeOK, Handler
  <2> QED BY <1>5, <2>1, <2>2, <2>3 DEF Within
<1> QED BY <1>1, <1>2, <1>3, <1>4, <1>5, WithinOrNot

LEMMA EraseStep ==
  ASSUME CreationInv, CopyInv, [Next]_vars, item.hash # NoBody, ~Lapsed', WillErase,
         Hear \/ EnqueuePost => handler.issue # item.issue \/ ops' = ops
  PROVE  WillErase'
<1>1. Ends("erase", "post", NoBody)'
  BY EndsStep DEF WillErase
<1> QED BY <1>1 DEF WillErase

LEMMA ShowStep ==
  ASSUME CreationInv, CopyInv, [Next]_vars, item.hash # NoBody, ~Lapsed', WillShow,
         issues'[item.issue] = issues[item.issue],
         UpsertCopy => handler.issue # item.issue,
         Hear \/ EnqueuePost => handler.issue # item.issue \/ ops' = ops
  PROVE  WillShow'
<1>1. PICK body : body = issues[item.issue]
  OBVIOUS
<1>2. PICK i \in Issue : i = item.issue /\ i = item'.issue
  BY ItemStays
<1>3. copies[i].body = body /\ Ends("post", "erase", body)
  BY <1>1, <1>2 DEF WillShow
<1>4. Ends("post", "erase", body)'
  BY <1>2, <1>3, EndsStep
<1>5. copies'[i].body = copies[i].body
  BY <1>2, CopyBodyStays
<1>6. Ends("post", "erase", issues[item.issue])'
  BY <1>1, <1>2, <1>4 DEF Ends
<1> QED BY <1>1, <1>2, <1>3, <1>5, <1>6 DEF WillShow

\* A conflict stays on record.
LEMMA ConflictStays ==
  ASSUME CreationInv, [Next]_vars, item.conflict
  PROVE  item'.conflict
<1>1. CASE \/ UpsertStarter \/ SetDestination \/ SetRenderHash \/ UpsertAttachment \/ CompleteAttachment
           \/ ReadBody \/ SaveHash
  BY <1>1 DEF UpsertStarter, SetDestination, SetRenderHash, UpsertAttachment, CompleteAttachment, ReadBody, SaveHash,
     OnlyItem, CreationInv, TypeOK, Item
<1>2. CASE \/ \E seen \in BOOLEAN : OpenThread(seen)
           \/ EditStarter \/ PostReply \/ TouchThread \/ UserEdits \/ UserReverts
           \/ ReadInventory \/ Interrupt \/ GiveUp \/ EnqueueSnapshot \/ ClaimInbox \/ ClaimEvent
           \/ ClaimOperation \/ Finish \/ Pend \/ Backoff \/ EnqueueCreate \/ RelayReply \/ UNCHANGED vars
  <2>1. item' = item
    BY <1>2 DEF OpenThread, EditStarter, PostReply, TouchThread, OutsideDiscord, UserEdits, UserReverts, UserWrites,
       ReadInventory, Interrupt, GiveUp, SettleRow, EnqueueSnapshot, ClaimInbox, ClaimEvent, ClaimOperation,
       ClaimOnly, Finish, Pend, Backoff, EnqueueCreate, Enqueue, RelayReply, record, vars
  <2> QED BY <2>1
<1>3. CASE \/ CreateIssue \/ createDiscordOriginLink \/ EnqueueUpload \/ EnqueueSync \/ EnqueueResync \/ WriteBody
           \/ EnsureLink \/ Hear \/ UpsertCopy \/ EnqueuePost \/ CreateThread \/ attachDiscordThread
           \/ CreateMessage \/ EditMessage \/ ReplaceSegments \/ DeleteMessage \/ MarkDeleted
  <2>1. item' = item
    BY <1>3 DEF CreateIssue, createDiscordOriginLink, EnqueueUpload, EnqueueSync, EnqueueResync, WriteBody,
       EnsureLink, Hear, UpsertCopy, EnqueuePost, CreateThread, attachDiscordThread, CreateMessage, EditMessage,
       ReplaceSegments, DeleteMessage, MarkDeleted, Post, Enqueue, OnlyCopy, WorkerOnly, record
  <2> QED BY <2>1
<1> QED BY <1>1, <1>2, <1>3 DEF Next, Work

\* What an account needs of a step that leaves the body as it is.
LEMMA AccountFrame ==
  ASSUME CreationInv, [Next]_vars, item.hash # NoBody,
         NEW c \in Nat, NEW by \in {"relay", "user"}, Account(c, by), Since(item.issue, c, by)',
         issues'[item.issue] = issues[item.issue], item'.hash = item.hash,
         Written => Written',
         handler'.step \in {"write", "save"} =>
           \/ UNCHANGED <<handler, heard>>
           \/ item.hash = issues[item.issue] /\ (handler'.step = "save" => handler'.body = item.hash),
         c <= heard'[item.issue] /\ item.hash = issues[item.issue] => WillErase',
         c <= heard'[item.issue] /\ item.hash # issues[item.issue] /\ by = "user" => WillShow' \/ Open(c)'
  PROVE  Account(c, by)'
<1>1. PICK i \in Issue : i = item.issue /\ i = item'.issue
  BY ItemStays
<1>2. Since(item.issue, c, by)'
  OBVIOUS
<1>3. by = "relay" =>
        issues'[i] # Users /\ Written' /\ (handler'.step = "save" => issues'[i] = handler'.body)
  BY <1>1 DEF Account
<1>4. handler'.step = "write" => issues'[i] \in {item'.hash, Users}
  BY <1>1 DEF Account
<1>5. handler'.step = "save" => handler'.body = item'.hash \/ c > heard'[i]
  BY <1>1 DEF Account
<1>6. c <= heard'[i] /\ item'.hash = issues'[i] => WillErase'
  BY <1>1
<1>7. c <= heard'[i] /\ item'.hash # issues'[i] /\ by = "user" => WillShow' \/ Open(c)'
  BY <1>1
<1> QED BY <1>1, <1>2, <1>3, <1>4, <1>5, <1>6, <1>7 DEF Account

\* The handler of the body is about the person's issue.
LEMMA BodyRow ==
  ASSUME CreationInv, handler.step \in {"read", "write", "save"}
  PROVE  /\ handler.job = "operation" /\ handler.row \in Rows("body") /\ handler.issue = item.issue
         /\ item.hash # NoBody /\ item.issue \in Issue
         /\ handler.body \in Body /\ handler.body.by = "relay" /\ handler.body # Users
<1>1. handler.job = "operation" /\ ops[handler.row].kind = "body"
  BY RowOfStep DEF StepsOf
<1>2. handler.row \in 1..Len(ops) /\ handler.issue = ops[handler.row].issue
  BY <1>1 DEF CreationInv, ClaimsHeld
<1>3. ops[handler.row].issue = item.issue /\ item.hash # NoBody
  BY <1>1, <1>2 DEF CreationInv, RowsFit
<1>4. handler.body \in Body /\ handler.body.by = "relay"
  BY DEF CreationInv, BodiesAreTheRelays
<1>5. item.issue \in Issue
  BY <1>3 DEF CreationInv, Creation, Made
<1> QED BY <1>1, <1>2, <1>3, <1>4, <1>5, BodyIsNotNoBody DEF Rows

\* The relay still has its body on record, or will find that another wrote it.
LEMMA WrittenStays ==
  ASSUME CreationInv, [Next]_vars, item.hash # NoBody, ~Lapsed', item'.hash = item.hash, ~SaveHash,
         issues'[item.issue] = issues[item.issue], Written
  PROVE  Written'
<1>1. PICK i \in Issue : i = item.issue /\ i = item'.issue
  BY ItemStays
<1>2. CASE item.hash = issues[item.issue]
  BY <1>1, <1>2 DEF Written
<1>3. CASE item.conflict
  BY <1>3, ConflictStays DEF Written
<1>4. CASE ~Done("body") /\ ~ReadBody
  BY <1>4, BodyRowStays DEF Written
<1>5. CASE ReadBody
  <2>1. handler.issue = i
    BY <1>1, <1>5, BodyRow DEF ReadBody
  <2>2. CASE item.hash = issues[i]
    BY <1>1, <2>2 DEF Written
  <2>3. CASE item.hash # issues[i]
    <3>1. OnlyItem([item EXCEPT !.conflict = TRUE])
      BY <1>5, <2>1, <2>3 DEF ReadBody
    <3>2. item'.conflict
      BY <3>1 DEF OnlyItem, CreationInv, TypeOK, Item
    <3> QED BY <3>2 DEF Written
  <2> QED BY <2>2, <2>3
<1> QED BY <1>2, <1>3, <1>4, <1>5 DEF Written

\* A handler that writes the body has read it.
LEMMA WritesRead ==
  ASSUME CreationInv, [Next]_vars, item.hash # NoBody, handler'.step \in {"write", "save"}, ~WriteBody
  PROVE  handler' = handler \/ (handler'.step = "write" /\ item.hash = issues[item.issue])
<1>1. CASE ReadBody /\ handler'.step = "write"
  <2>1. handler.issue = item.issue
    BY <1>1, BodyRow DEF ReadBody
  <2>2. Goto("end") => handler'.step = "end"
    BY DEF Goto, CreationInv, TypeOK, Handler
  <2> QED BY <1>1, <2>1, <2>2 DEF ReadBody
<1> QED BY <1>1, WritesFrom

\* What of an account a step keeps unless it is about an event of the issue.
LEMMA QuietAccount ==
  ASSUME CreationInv, StampInv, CopyInv, [Next]_vars, item.hash # NoBody, ~Lapsed',
         ~(UserEdits \/ UserReverts \/ CreateIssue \/ WriteBody \/ GiveUp \/ SetRenderHash \/ SaveHash),
         Hear => handler.issue # item.issue,
         NEW c \in Nat, NEW by \in {"relay", "user"}, Account(c, by),
         c <= heard[item.issue] /\ item.hash = issues[item.issue] /\ WillErase => WillErase',
         c <= heard[item.issue] /\ item.hash # issues[item.issue] /\ by = "user" /\ (WillShow \/ Open(c)) =>
           WillShow' \/ Open(c)'
  PROVE  Account(c, by)'
<1>1. PICK i \in Issue : i = item.issue /\ i = item'.issue
  BY ItemStays
<1>2. Unheard /\ UNCHANGED <<issues, stamp>>
  BY QuietEvents
<1>3. heard'[i] = heard[i] /\ (handler'.step \in {"write", "save"} => heard' = heard)
  <2>1. CASE ~Hear
    BY <2>1, HeardStays
  <2>2. CASE Hear
    <3>1. handler.event \in Event /\ handler.event.issue = handler.issue /\ handler.issue # i
      BY <1>1, <2>2, RowOfStep DEF Hear, Heard, EventSteps, CreationInv, ClaimsHeld, TypeOK, Handler
    <3>2. heard'[i] = heard[i]
      BY <2>2, <3>1 DEF Hear, Heard, CreationInv, TypeOK
    <3>3. handler'.step \in {"end", "copy"}
      BY <2>2 DEF Hear, Heard, Goto, CreationInv, TypeOK, Handler
    <3> QED BY <3>2, <3>3
  <2> QED BY <2>1, <2>2
<1>4. Since(i, c, by)
  BY <1>1 DEF Account
<1>5. Since(i, c, by)'
  BY <1>2, <1>3, <1>4, SinceKept
<1>6. Since(item.issue, c, by)'
  BY <1>1, <1>5
<1>7. item'.hash = item.hash
  BY HashStays
<1>8. Written => Written'
  BY <1>2, <1>7, WrittenStays
<1>9. handler'.step \in {"write", "save"} =>
        \/ UNCHANGED <<handler, heard>>
        \/ item.hash = issues[item.issue] /\ (handler'.step = "save" => handler'.body = item.hash)
  BY <1>3, WritesRead
<1>10. c <= heard'[item.issue] /\ item.hash = issues[item.issue] => WillErase'
  BY <1>1, <1>3 DEF Account
<1>11. c <= heard'[item.issue] /\ item.hash # issues[item.issue] /\ by = "user" => WillShow' \/ Open(c)'
  BY <1>1, <1>3 DEF Account
<1> QED BY <1>2, <1>6, <1>7, <1>8, <1>9, <1>10, <1>11, AccountFrame

\* A step that has nothing to do with an event of the issue.
LEMMA PlainAccount ==
  ASSUME CreationInv, StampInv, CopyInv, [Next]_vars, item.hash # NoBody, ~Lapsed',
         ~(UserEdits \/ UserReverts \/ CreateIssue \/ WriteBody \/ GiveUp \/ SetRenderHash \/ SaveHash),
         Hear \/ UpsertCopy \/ EnqueuePost => handler.issue # item.issue,
         NEW c \in Nat, NEW by \in {"relay", "user"}, Account(c, by)
  PROVE  Account(c, by)'
<1>1. issues' = issues
  BY QuietEvents
<1>2. WillErase => WillErase'
  BY EraseStep
<1>3. WillShow => WillShow'
  BY <1>1, ShowStep
<1>4. Open(c) => Open(c)'
  BY OpenStays
<1>5. c <= heard[item.issue] /\ item.hash # issues[item.issue] /\ by = "user" /\ (WillShow \/ Open(c)) =>
        WillShow' \/ Open(c)'
  BY <1>3, <1>4
<1> QED BY <1>2, <1>5, QuietAccount

\* The copy is about to be of the body: its post is still to be enqueued.
LEMMA UpsertAccount ==
  ASSUME CreationInv, StampInv, CopyInv, [Next]_vars, item.hash # NoBody, ~Lapsed', UpsertCopy,
         NEW c \in Nat, NEW by \in {"relay", "user"}, Account(c, by), handler.issue = item.issue
  PROVE  Account(c, by)'
<1>1. handler.step = "copy" /\ handler'.step = "post" /\ handler'.event = handler.event
      /\ handler'.job = handler.job
  BY DEF UpsertCopy, Goto, CreationInv, TypeOK, Handler
<1>2. handler.job = "event" /\ handler.event \in hooks /\ handler.event.issue = handler.issue
  BY <1>1, RowOfStep DEF EventSteps, CreationInv, ClaimsHeld
<1>3. "late" \notin past
  BY LapsedStays DEF Lapsed
<1>4. handler.event.stamp = heard[item.issue]
  BY <1>1, <1>2, <1>3 DEF StampInv, HeardInOrder
<1>5. hooks' = hooks /\ item' = item
  BY DEF UpsertCopy, OnlyCopy, github
<1>6. PICK event \in hooks : event = handler.event
  BY <1>2
<1>7. ~Closed(event)'
  BY <1>1 DEF Closed
<1>8. c <= heard[item.issue] => Open(c)'
  <2> SUFFICES ASSUME c <= heard[item.issue] PROVE Open(c)'
    OBVIOUS
  <2>1. event \in hooks' /\ event.issue = item'.issue /\ event.stamp >= c
    BY <1>2, <1>4, <1>5, <1>6
  <2> QED BY <1>7, <2>1 DEF Open
<1>9. WillErase => WillErase'
  BY <1>1, EraseStep DEF Hear, Heard, EnqueuePost
<1>10. ~(UserEdits \/ UserReverts \/ CreateIssue \/ WriteBody \/ GiveUp \/ SetRenderHash \/ SaveHash) /\ ~Hear
  <2>1. ~(UserEdits \/ UserReverts)
    <3> SUFFICES ASSUME UserEdits \/ UserReverts PROVE FALSE
      OBVIOUS
    <3>1. handler' = handler
      BY DEF UserEdits, UserReverts, UserWrites
    <3> QED BY <1>1, <3>1
  <2>2. ~GiveUp
    BY <1>1, IdleTypes DEF GiveUp, SettleRow
  <2> QED BY <1>1, <2>1, <2>2 DEF CreateIssue, WriteBody, SetRenderHash, SaveHash, Hear, Heard
<1> QED BY <1>8, <1>9, <1>10, QuietAccount

\* A row that is appended is the last of the copy, and still to be run.
LEMMA AppendedEnds ==
  ASSUME CreationInv, NEW kind \in {"post", "erase"}, NEW other \in {"post", "erase"}, kind # other, NEW body,
         NEW op \in Operation, op.kind = kind, op.issue = item.issue, ops' = Append(ops, op),
         item'.issue = item.issue, handler'.job # "operation"
  PROVE  Ends(kind, other, body)'
<1>1. Len(ops) \in Nat /\ Len(ops') = Len(ops) + 1 /\ ops'[Len(ops) + 1] = op
      /\ \A n \in 1..Len(ops) : ops'[n] = ops[n]
  BY AppendTypes DEF CreationInv, TypeOK
<1>2. PICK last \in 1..Len(ops') : last = Len(ops) + 1 /\ last = Len(ops')
  BY <1>1
<1>3. last \in Rows(kind)'
  BY <1>1, <1>2 DEF Rows
<1>4. \A n \in Rows(other)' : n < last
  <2> SUFFICES ASSUME NEW n \in 1..Len(ops'), ops'[n].kind = other PROVE n < last
    BY DEF Rows
  <2>1. n # last
    BY <1>1, <1>2
  <2> QED BY <1>1, <1>2, <2>1
<1>5. ~Done(kind)'
  BY <1>3 DEF Done, Spent
<1> QED BY <1>3, <1>4, <1>5 DEF Ends

\* There is nothing left to do on the copy.
LEMMA NothingEnds ==
  ASSUME NEW kind, NEW other, NEW body, Rows(other)' = {}, Showing(item.issue)' = body
  PROVE  Ends(kind, other, body)'
BY DEF Ends

LEMMA PendingRows ==
  ASSUME NEW kind, ~Pending(kind, item.issue)
  PROVE  Rows(kind) = {}
BY DEF Pending, Rows

\* The event a handler is at.
LEMMA AtEvent ==
  ASSUME CreationInv, handler.step \in {"link", "echo", "copy", "post"}
  PROVE  /\ handler.job = "event" /\ handler.event \in hooks /\ handler.event \in Event
         /\ handler.event.issue = handler.issue /\ handler.issue \in Issue
         /\ handler.event.stamp \in Nat
<1>1. handler.job = "event"
  BY RowOfStep DEF EventSteps
<1>2. handler.event \in hooks /\ handler.event.issue = handler.issue /\ handler.event \in Event
  BY <1>1 DEF CreationInv, ClaimsHeld, TypeOK
<1>3. handler.issue \in Issue
  BY <1>2 DEF CreationInv, RowsFit, Made
<1> QED BY <1>1, <1>2, <1>3 DEF Event

\* The sync of a body the relay does not have on record leaves the copy with it.
LEMMA PostShows ==
  ASSUME CreationInv, CopyInv, [Next]_vars, item.hash # NoBody, ~Lapsed', EnqueuePost,
         handler.issue = item.issue, handler.event.body = issues[item.issue]
  PROVE  WillShow'
<1>1. PICK i \in Issue : i = item.issue /\ i = item'.issue
  BY ItemStays
<1>2. PICK body : body = issues[i]
  OBVIOUS
<1>3. handler.step = "post" /\ handler.job = "event" /\ handler'.job = "event"
  BY AtEvent DEF EnqueuePost, Goto, CreationInv, TypeOK, Handler
<1>4. UNCHANGED <<issues, copies, messages>>
  BY DEF EnqueuePost, Enqueue, github, record, discord
<1>5. copies[i].body = body
  BY <1>1, <1>2, <1>3 DEF CopyInv, CopiesNamed
<1>6. (<<"post", i, body>> \in keys /\ ops' = ops) \/ ops' = Append(ops, Op("post", i, 0))
  BY <1>1, <1>2 DEF EnqueuePost, Enqueue
<1>7. ~Dropped(i, body)
  BY <1>1, <1>2 DEF EnqueuePost, Lapsed
<1>8. Ends("post", "erase", body)'
  <2>1. CASE ops' = Append(ops, Op("post", i, 0))
    <3>1. PICK op \in Operation : op = Op("post", i, 0) /\ op.kind = "post" /\ op.issue = i
      <4>1. Op("post", i, 0) \in Operation /\ Op("post", i, 0).kind = "post" /\ Op("post", i, 0).issue = i
        <5>1. i \in 0..MaxIssues /\ 0 \in 0..MaxText
          BY DEF Issue
        <5> QED BY <5>1, OpTypes
      <4> QED BY <4>1
    <3> QED BY <1>1, <1>3, <2>1, <3>1, AppendedEnds
  <2>2. CASE <<"post", i, body>> \in keys /\ ops' = ops
    <3>1. ~Pending("erase", i) /\ (Pending("post", i) \/ Showing(i) = body)
      BY <1>7, <2>2 DEF Dropped
    <3>2. Rows("erase")' = {} /\ Rows("post")' = Rows("post")
      BY <1>1, <2>2, <3>1 DEF Rows, Pending
    <3>3. CASE Pending("post", i)
      <4>1. PICK n : n \in Rows("post")
        BY <1>1, <3>3 DEF Rows, Pending
      <4>2. ~Done("post")'
        BY <1>3, <3>2, <4>1 DEF Done, Spent
      <4> QED BY <3>2, <4>2 DEF Ends
    <3>4. CASE Showing(i) = body
      <4>1. Showing(item.issue)' = body
        BY <1>1, <1>4, <3>4 DEF Showing
      <4> QED BY <3>2, <4>1, NothingEnds
    <3> QED BY <3>1, <3>3, <3>4
  <2> QED BY <1>6, <2>1, <2>2
<1>9. Ends("post", "erase", issues[item.issue])'
  BY <1>1, <1>2, <1>4, <1>8 DEF Ends
<1> QED BY <1>1, <1>2, <1>4, <1>5, <1>9 DEF WillShow

LEMMA PostAccount ==
  ASSUME CreationInv, StampInv, CopyInv, [Next]_vars, item.hash # NoBody, ~Lapsed', EnqueuePost,
         NEW c \in Nat, NEW by \in {"relay", "user"}, Account(c, by), handler.issue = item.issue
  PROVE  Account(c, by)'
<1>1. handler.step = "post"
  BY DEF EnqueuePost
<1>2. handler.job = "event" /\ handler.event \in hooks /\ handler.event.issue = item.issue
      /\ handler.event.stamp \in Nat
  BY <1>1, AtEvent
<1>3. "late" \notin past
  BY LapsedStays DEF Lapsed
<1>4. handler.event.stamp = heard[item.issue]
  BY <1>1, <1>2, <1>3 DEF StampInv, HeardInOrder
<1>5. item.hash # handler.event.body
  BY <1>1, <1>2 DEF StampInv, Suppress
<1>6. c <= heard[item.issue] => handler.event.body = issues[item.issue]
  BY <1>2, <1>4 DEF Account, Since
<1>7. c <= heard[item.issue] => WillShow' /\ item.hash # issues[item.issue]
  BY <1>5, <1>6, PostShows
<1>8. ~(UserEdits \/ UserReverts \/ CreateIssue \/ WriteBody \/ GiveUp \/ SetRenderHash \/ SaveHash) /\ ~Hear
  <2>1. handler'.step = "end" /\ handler' # handler
    BY <1>1 DEF EnqueuePost, Goto, CreationInv, TypeOK, Handler
  <2>2. ~(UserEdits \/ UserReverts)
    BY <2>1 DEF UserEdits, UserReverts, UserWrites
  <2>3. ~GiveUp
    BY <2>1, IdleTypes DEF GiveUp, SettleRow
  <2> QED BY <1>1, <2>2, <2>3 DEF CreateIssue, WriteBody, SetRenderHash, SaveHash, Hear, Heard
<1> QED BY <1>7, <1>8, QuietAccount

\* The body is the relay's: what the thread shows of an older one is going to be taken away.
LEMMA HearErases ==
  ASSUME CreationInv, StampInv, CopyInv, [Next]_vars, item.hash # NoBody, ~Lapsed', Hear,
         handler.issue = item.issue, Suppress(handler.event),
         <<"erase", handler.event>> \in keys => WillErase
  PROVE  WillErase'
<1>1. PICK i \in Issue : i = item.issue /\ i = item'.issue
  BY ItemStays
<1>2. handler.step = "echo"
  BY DEF Hear, Heard
<1>3. handler.job = "event" /\ handler'.job = "event" /\ handler.event.issue = i
  BY <1>1, <1>2, AtEvent DEF Hear, Heard, Goto, CreationInv, TypeOK, Handler
<1>4. UNCHANGED <<copies, messages>>
  BY DEF Hear, Enqueue, record, discord
<1>5. CASE copies[i].state = "ACTIVE" /\ <<"erase", handler.event>> \notin keys
  <2>1. ops' = Append(ops, Op("erase", i, 0))
    BY <1>1, <1>5 DEF Hear, Enqueue
  <2>2. PICK op \in Operation : op = Op("erase", i, 0) /\ op.kind = "erase" /\ op.issue = i
    <3>1. i \in 0..MaxIssues /\ 0 \in 0..MaxText
      BY DEF Issue
    <3>2. Op("erase", i, 0) \in Operation /\ Op("erase", i, 0).kind = "erase" /\ Op("erase", i, 0).issue = i
      BY <3>1, OpTypes
    <3> QED BY <3>2
  <2>3. Ends("erase", "post", NoBody)'
    BY <1>1, <1>3, <2>1, <2>2, AppendedEnds
  <2> QED BY <2>3 DEF WillErase
<1>6. CASE copies[i].state = "ACTIVE" /\ <<"erase", handler.event>> \in keys
  <2>1. ops' = ops
    BY <1>1, <1>6 DEF Hear, Enqueue
  <2> QED BY <1>6, <2>1, EraseStep
<1>7. CASE copies[i].state # "ACTIVE"
  <2>1. ops' = ops
    BY <1>1, <1>7 DEF Hear, outbox
  <2>2. ~Pending("post", i) /\ copies[i].message = NoMessage
    <3>1. CASE copies[i].state = "none"
      <4>1. copies[i].message = NoMessage
        BY <3>1 DEF CopyInv, CopiesNamed
      <4>2. ~Pending("post", i)
        BY <3>1 DEF CopyInv, CopiesNamed, Pending
      <4> QED BY <4>1, <4>2
    <3>2. CASE copies[i].state = "DELETED"
      <4>1. past' = past \cup Belated(handler.event)
        BY DEF Hear, Heard
      <4>2. Revived(i) => "overtaken" \in past'
        BY <1>3, <4>1 DEF Belated
      <4>3. ~Revived(i)
        BY <4>2 DEF Lapsed
      <4> QED BY <3>2, <4>3 DEF Revived
    <3>3. copies[i].state \in {"none", "ACTIVE", "DELETED"}
      BY DEF CreationInv, TypeOK, Copy
    <3> QED BY <1>7, <3>1, <3>2, <3>3
  <2>3. Rows("post")' = {}
    BY <1>1, <2>1, <2>2 DEF Rows, Pending
  <2>4. Showing(item.issue)' = NoBody
    BY <1>1, <1>4, <2>2 DEF Showing
  <2> QED BY <2>3, <2>4, NothingEnds DEF WillErase
<1> QED BY <1>5, <1>6, <1>7

\* An event of the person's issue is the newest, and says what the body is.
LEMMA HearAccount ==
  ASSUME CreationInv, StampInv, CopyInv, [Next]_vars, item.hash # NoBody, ~Lapsed', Hear,
         NEW c \in Nat, NEW by \in {"relay", "user"}, Account(c, by), handler.issue = item.issue
  PROVE  Account(c, by)'
<1>1. PICK i \in Issue : i = item.issue /\ i = item'.issue
  BY ItemStays
<1>2. PICK event \in hooks : event = handler.event /\ event.issue = i /\ event \in Event /\ event.stamp \in Nat
  BY <1>1, AtEvent DEF Hear, Heard
<1>3. handler.step = "echo" /\ handler'.step = IF Suppress(event) THEN "end" ELSE "copy"
  BY <1>2 DEF Hear, Heard, Goto, CreationInv, TypeOK, Handler
<1>4. UNCHANGED <<issues, hooks, plan, item>>
  BY DEF Hear, Enqueue, WorkerOnly, github, record
<1>5. ~(event.stamp < heard[i])
  <2>1. past' = past \cup Belated(event)
    BY <1>2 DEF Hear, Heard
  <2>2. event.stamp < heard[i] => "late" \in past'
    BY <1>2, <2>1 DEF Belated
  <2> QED BY <2>2 DEF Lapsed
<1>6. heard[i] \in Nat /\ heard'[i] = event.stamp /\ heard[i] <= event.stamp
  <2>1. heard \in [Issue -> Nat] /\ heard[i] \in Nat
    BY DEF CreationInv, TypeOK
  <2>2. heard' = [heard EXCEPT ![i] = IF event.stamp > @ THEN event.stamp ELSE @]
    BY <1>2 DEF Hear, Heard
  <2> QED BY <1>2, <1>5, <2>1, <2>2
<1>7. Since(i, c, by)
  BY <1>1 DEF Account
<1>8. Since(item.issue, c, by)'
  <2>1. \A e \in hooks \cup plan.events : e.issue = i /\ e.stamp >= c =>
          e.body = issues'[i] /\ (by = "relay" \/ Foreign(e))
    BY <1>4, <1>7 DEF Since
  <2>2. c > heard'[i] => \E e \in hooks : e.issue = i /\ e.stamp = c
    <3>1. c > heard'[i] => c > heard[i]
      BY <1>2, <1>6
    <3> QED BY <1>7, <3>1 DEF Since
  <2>3. \A e : Foreign(e)' <=> Foreign(e)
    BY DEF Foreign
  <2> QED BY <1>1, <1>4, <2>1, <2>2, <2>3 DEF Since
<1>9. c <= event.stamp => event.body = issues[i] /\ (by = "relay" \/ Foreign(event))
  BY <1>2, <1>7 DEF Since
<1>10. item.placed
  BY DEF StampInv
<1>11. c <= heard'[item.issue] /\ item.hash = issues[item.issue] => WillErase'
  <2> SUFFICES ASSUME c <= event.stamp, item.hash = issues[i] PROVE WillErase'
    BY <1>1, <1>6
  <2>1. Suppress(handler.event)
    BY <1>1, <1>2, <1>9, <1>10 DEF Suppress
  <2>2. <<"erase", handler.event>> \in keys => WillErase
    <3> SUFFICES ASSUME <<"erase", event>> \in keys PROVE WillErase
      BY <1>2
    <3>1. event.stamp <= heard[i]
      BY <1>2 DEF StampInv
    <3>2. c <= heard[i]
      BY <1>2, <1>6, <3>1
    <3> QED BY <1>1, <3>2 DEF Account
  <2> QED BY <2>1, <2>2, HearErases
<1>12. c <= heard'[item.issue] /\ item.hash # issues[item.issue] /\ by = "user" => WillShow' \/ Open(c)'
  <2> SUFFICES ASSUME c <= event.stamp, item.hash # issues[i], by = "user" PROVE Open(c)'
    BY <1>1, <1>6
  <2>1. ~Suppress(event)
    BY <1>9 DEF Suppress, Foreign
  <2>2. ~Closed(event)'
    BY <1>3, <2>1 DEF Closed
  <2>3. event \in hooks' /\ event.issue = item'.issue /\ event.stamp >= c
    BY <1>1, <1>2, <1>4
  <2> QED BY <2>2, <2>3 DEF Open
<1>13. Written => Written'
  BY <1>3, <1>4, WrittenStays DEF SaveHash
<1>14. handler'.step \notin {"write", "save"}
  BY <1>3
<1> QED BY <1>4, <1>8, <1>11, <1>12, <1>13, <1>14, AccountFrame

\* A user's change begins an account, or is of another issue.
LEMMA UserAccount ==
  ASSUME CreationInv, StampInv, CopyInv, [Next]_vars, item.hash # NoBody, ~Lapsed', UserEdits \/ UserReverts,
         NEW c \in 1..stamp, NEW by \in {"relay", "user"}, Account(c, by)
  PROVE  \E d \in 1..stamp', from \in {"relay", "user"} : Account(d, from)'
<1>1. PICK i \in Issue : i = item.issue /\ i = item'.issue
  BY ItemStays
<1>2. PICK j \in Issue, body \in Body :
        UserWrites(j, body) /\ (body = Users \/ (j = item.issue /\ body = item.hash))
  BY UsersWrite
<1>3. UNCHANGED <<item, handler, heard, plan, ops, copies, messages, past>>
  BY <1>2 DEF UserWrites, record, discord, outbox
<1>4. c \in Nat /\ stamp \in Nat
  BY DEF CreationInv, TypeOK
<1>5. CASE j = i
  <2>1. /\ stamp' \in 1..stamp' /\ stamp' > heard[i] /\ Since(i, stamp, "user")'
        /\ issues'[i] = body
    BY <1>2, <1>5, UserSince
  <2>2. heard'[i] = heard[i] /\ heard[i] \in Nat /\ stamp' \in Nat
    BY <1>3, <2>1 DEF CreationInv, TypeOK
  <2>3. ~(stamp' <= heard'[i])
    BY <2>1, <2>2
  <2>4. body \in {item'.hash, Users}
    BY <1>1, <1>2, <1>3, <1>5
  <2>5. Account(stamp, "user")'
    <3>1. Since(item.issue, stamp, "user")'
      BY <1>1, <2>1
    <3>2. handler'.step = "write" => issues'[i] \in {item'.hash, Users}
      BY <2>1, <2>4
    <3>3. stamp' > heard'[i]
      BY <2>1, <2>2
    <3> QED BY <1>1, <2>3, <3>1, <3>2, <3>3 DEF Account
  <2> QED BY <2>1, <2>5
<1>6. CASE j # i
  <2>1. Since(i, c, by)
    BY <1>1 DEF Account
  <2>2. Since(i, c, by)' /\ issues'[i] = issues[i]
    BY <1>2, <1>4, <1>6, <2>1, SinceElsewhere
  <2>3. Since(item.issue, c, by)'
    BY <1>1, <2>2
  <2>4. Written => Written'
    BY <1>1, <1>3, <2>2 DEF Written, Done, Rows, Spent
  <2>5. WillErase => WillErase'
    BY <1>3 DEF WillErase, Ends, Done, Rows, Spent, Showing
  <2>6. WillShow => WillShow'
    <3>1. ~UpsertCopy /\ ~Hear /\ ~EnqueuePost
      <4>1. heard' = heard /\ handler' = handler
        BY <1>3
      <4>2. UpsertCopy \/ Hear \/ EnqueuePost => handler'.step # handler.step
        BY DEF UpsertCopy, Hear, Heard, EnqueuePost, Goto, CreationInv, TypeOK, Handler
      <4> QED BY <4>1, <4>2
    <3> QED BY <1>1, <2>2, <3>1, ShowStep
  <2>7. Open(c) => Open(c)'
    <3>1. hooks \subseteq hooks'
      BY <1>2 DEF UserWrites, Announce
    <3>2. \A e : Closed(e)' <=> Closed(e)
      BY <1>3 DEF Closed
    <3> QED BY <1>3, <3>1, <3>2 DEF Open
  <2>8. c <= heard'[item.issue] /\ item.hash = issues[item.issue] => WillErase'
    BY <1>3, <2>5 DEF Account
  <2>9. c <= heard'[item.issue] /\ item.hash # issues[item.issue] /\ by = "user" => WillShow' \/ Open(c)'
    BY <1>3, <2>6, <2>7 DEF Account
  <2>10. Account(c, by)'
    BY <1>1, <1>3, <1>4, <2>2, <2>3, <2>4, <2>8, <2>9, AccountFrame
  <2>11. c \in 1..stamp'
    <3>1. stamp' = stamp + 1
      BY <1>2, UserStamps, Zenon
    <3> QED BY <1>4, <3>1
  <2> QED BY <2>10, <2>11
<1> QED BY <1>5, <1>6

\* The relay writes the body: if it is another one, an account begins.
LEMMA WriteAccount ==
  ASSUME CreationInv, StampInv, CopyInv, [Next]_vars, item.hash # NoBody, ~Lapsed', WriteBody,
         NEW c \in 1..stamp, NEW by \in {"relay", "user"}, Account(c, by)
  PROVE  \E d \in 1..stamp', from \in {"relay", "user"} : Account(d, from)'
<1>1. PICK i \in Issue : i = item.issue /\ i = item'.issue
  BY ItemStays
<1>2. handler.step = "write" /\ handler'.step = "save" /\ handler'.body = handler.body
      /\ UNCHANGED <<handler.job, handler.row>>
  BY DEF WriteBody, Goto, CreationInv, TypeOK, Handler
<1>3. /\ handler.job = "operation" /\ handler.row \in Rows("body") /\ handler.issue = i
      /\ handler.body \in Body /\ handler.body.by = "relay" /\ handler.body # Users
  BY <1>1, <1>2, BodyRow
<1>4. UNCHANGED <<item, heard, plan, ops, copies, messages, past>>
  BY DEF WriteBody, WorkerOnly, record, discord, outbox, history
<1>5. c \in Nat /\ stamp \in Nat /\ heard[i] \in Nat
  BY DEF CreationInv, TypeOK
<1>6. CASE handler.body # issues[i]
  <2>1. Announce(i, "edited", handler.body, TRUE)
    BY <1>3, <1>6 DEF WriteBody
  <2>2. /\ stamp' \in 1..stamp' /\ stamp' > heard[i] /\ Since(i, stamp, "relay")'
        /\ issues'[i] = handler.body
    BY <1>3, <1>4, <2>1, AnnounceSince
  <2>3. stamp' > heard'[i] /\ ~(stamp' <= heard'[i])
    BY <1>4, <1>5, <2>2
  <2>4. ~Done("body")'
    <3>1. handler.row \in Rows("body")'
      BY <1>3, <1>4 DEF Rows
    <3> QED BY <1>2, <3>1 DEF Done, Spent
  <2>5. Account(stamp, "relay")'
    <3>1. Since(item.issue, stamp, "relay")'
      BY <1>1, <2>2
    <3>2. issues'[i] # Users /\ Written' /\ issues'[i] = handler'.body
      BY <1>2, <1>3, <2>2, <2>4 DEF Written
    <3> QED BY <1>1, <1>2, <2>3, <3>1, <3>2 DEF Account
  <2> QED BY <2>2, <2>5
<1>7. CASE handler.body = issues[i]
  <2>1. UNCHANGED <<issues, stamp, hooks>>
    BY <1>3, <1>7 DEF WriteBody, github
  <2>2. handler.body = item.hash
    BY <1>1, <1>2, <1>3, <1>7 DEF Account
  <2>3. Since(item.issue, c, by)'
    <3>1. Since(i, c, by)
      BY <1>1 DEF Account
    <3>2. \A e : Foreign(e)' <=> Foreign(e)
      BY DEF Foreign
    <3> QED BY <1>1, <1>4, <2>1, <3>1, <3>2 DEF Since
  <2>4. Written'
    BY <1>1, <1>4, <1>7, <2>1, <2>2 DEF Written
  <2>5. WillErase => WillErase'
    BY <1>2, EraseStep DEF Hear, Heard, EnqueuePost
  <2>6. c <= heard'[item.issue] /\ item.hash = issues[item.issue] => WillErase'
    BY <1>4, <2>5 DEF Account
  <2>7. item.hash = issues[item.issue]
    BY <1>1, <1>7, <2>2
  <2>8. Account(c, by)'
    BY <1>2, <1>4, <1>5, <2>1, <2>2, <2>3, <2>4, <2>6, <2>7, AccountFrame
  <2> QED BY <2>1, <2>8
<1> QED BY <1>6, <1>7

\* The hash on record becomes what the handler has written.
LEMMA SaveAccount ==
  ASSUME CreationInv, StampInv, CopyInv, [Next]_vars, item.hash # NoBody, ~Lapsed', SaveHash,
         NEW c \in 1..stamp, NEW by \in {"relay", "user"}, Account(c, by)
  PROVE  Account(c, by)' /\ stamp' = stamp
<1>1. PICK i \in Issue : i = item.issue /\ i = item'.issue
  BY ItemStays
<1>2. handler.step = "save" /\ handler'.step = "end" /\ item'.hash = handler.body
  BY DEF SaveHash, OnlyItem, Goto, CreationInv, TypeOK, Handler, Item
<1>3. UNCHANGED <<issues, stamp, hooks, plan, heard, ops, copies, messages, past>>
  BY DEF SaveHash, OnlyItem, WorkerOnly, github, discord, outbox, history
<1>4. Since(item.issue, c, by)'
  <2>1. Since(i, c, by)
    BY <1>1 DEF Account
  <2>2. \A e : Foreign(e)' <=> Foreign(e)
    BY DEF Foreign
  <2> QED BY <1>1, <1>3, <2>1, <2>2 DEF Since
<1>5. by = "relay" => issues[i] # Users /\ issues[i] = handler.body
  BY <1>1, <1>2 DEF Account
<1>6. by = "relay" => Written'
  BY <1>1, <1>2, <1>3, <1>5 DEF Written
<1>7. c <= heard[i] => handler.body = item.hash
  <2>1. c \in Nat /\ heard[i] \in Nat
    BY DEF CreationInv, TypeOK
  <2>2. handler.body = item.hash \/ c > heard[i]
    BY <1>1, <1>2 DEF Account
  <2> QED BY <2>1, <2>2
<1>8. ~Hear /\ ~EnqueuePost /\ ~UpsertCopy
  BY <1>2 DEF Hear, Heard, EnqueuePost, UpsertCopy
<1>9. WillErase => WillErase'
  BY <1>8, EraseStep
<1>10. WillShow => WillShow'
  BY <1>3, <1>8, ShowStep
<1>11. Open(c) => Open(c)'
  BY <1>8, OpenStays
<1>12. c <= heard'[i] /\ item'.hash = issues'[i] => WillErase'
  BY <1>1, <1>2, <1>3, <1>7, <1>9 DEF Account
<1>13. c <= heard'[i] /\ item'.hash # issues'[i] /\ by = "user" => WillShow' \/ Open(c)'
  BY <1>1, <1>2, <1>3, <1>7, <1>10, <1>11 DEF Account
<1>14. Account(c, by)'
  BY <1>1, <1>2, <1>3, <1>4, <1>5, <1>6, <1>12, <1>13 DEF Account
<1> QED BY <1>3, <1>14

\* The first account is that of the creation.
LEMMA StartAccount ==
  ASSUME CreationInv, StartInv, SetRenderHash
  PROVE  \E c \in 1..stamp', by \in {"relay", "user"} : Account(c, by)'
<1>1. handler.step = "hash" /\ handler'.step = "attach" /\ item'.hash = handler.body
      /\ item'.issue = item.issue
  BY DEF SetRenderHash, OnlyItem, Goto, CreationInv, TypeOK, Handler, Item
<1>2. PICK i \in Issue : i = item.issue /\ i = handler.issue
  BY <1>1 DEF CreationInv, Creation, CreateSteps, Made
<1>3. UNCHANGED <<issues, stamp, hooks, plan, heard, past>>
  BY DEF SetRenderHash, OnlyItem, WorkerOnly, github, history
<1>4. PICK c \in 1..stamp, by \in {"relay", "user"} :
        Since(i, c, by) /\ c > heard[i] /\ (by = "relay" => issues[i] = handler.body)
  BY <1>1, <1>2 DEF StartInv
<1>5. c \in Nat /\ heard[i] \in Nat /\ ~(c <= heard[i])
  BY <1>4 DEF CreationInv, TypeOK
<1>6. handler.body # Users
  BY <1>1, BodyIsNotNoBody DEF CreationInv, BodiesAreTheRelays
<1>7. Since(item.issue, c, by)'
  <2>1. \A e : Foreign(e)' <=> Foreign(e)
    BY DEF Foreign
  <2> QED BY <1>1, <1>2, <1>3, <1>4, <2>1 DEF Since
<1>8. by = "relay" => issues'[i] # Users /\ Written'
  BY <1>1, <1>2, <1>3, <1>4, <1>6 DEF Written
<1>9. Account(c, by)'
  BY <1>1, <1>2, <1>3, <1>5, <1>7, <1>8 DEF Account
<1> QED BY <1>3, <1>9

LEMMA AccountStep ==
  CreationInv /\ StampInv /\ CopyInv /\ StartInv /\ AccountInv /\ [Next]_vars => AccountInv'
<1> SUFFICES ASSUME CreationInv, StampInv, CopyInv, StartInv, AccountInv, [Next]_vars,
                    item'.hash # NoBody, ~Lapsed'
             PROVE  \E c \in 1..stamp', by \in {"relay", "user"} : Account(c, by)'
  BY DEF AccountInv
<1>1. CASE SetRenderHash
  BY <1>1, StartAccount
<1>2. CASE ~SetRenderHash
  <2>1. item.hash # NoBody
    BY <1>2, HashStays, BodyRow DEF SaveHash
  <2>2. PICK c \in 1..stamp, by \in {"relay", "user"} : Account(c, by)
    BY <2>1, LapsedStays DEF AccountInv
  <2>3. c \in Nat
    BY DEF CreationInv, TypeOK
  <2>4. ~CreateIssue /\ ~GiveUp
    <3>1. ~CreateIssue
      BY <2>1, ItemStays DEF CreateIssue, CreationInv, Creation, Linked
    <3>2. ~GiveUp
      BY DEF GiveUp, Lapsed
    <3> QED BY <3>1, <3>2
  <2>5. CASE SaveHash
    BY <2>1, <2>2, <2>5, SaveAccount
  <2>6. CASE UserEdits \/ UserReverts
    BY <2>1, <2>2, <2>6, UserAccount
  <2>7. CASE WriteBody
    BY <2>1, <2>2, <2>7, WriteAccount
  <2>8. CASE ~(SaveHash \/ UserEdits \/ UserReverts \/ WriteBody)
    <3>1. stamp' = stamp
      BY <2>4, <2>8, QuietEvents
    <3>2. Account(c, by)'
      <4>1. CASE Hear /\ handler.issue = item.issue
        BY <2>1, <2>2, <2>3, <4>1, HearAccount
      <4>2. CASE UpsertCopy /\ handler.issue = item.issue
        BY <2>1, <2>2, <2>3, <4>2, UpsertAccount
      <4>3. CASE EnqueuePost /\ handler.issue = item.issue
        BY <2>1, <2>2, <2>3, <4>3, PostAccount
      <4>4. CASE Hear \/ UpsertCopy \/ EnqueuePost => handler.issue # item.issue
        BY <1>2, <2>1, <2>2, <2>3, <2>4, <2>8, <4>4, PlainAccount
      <4> QED BY <4>1, <4>2, <4>3, <4>4
    <3> QED BY <3>1, <3>2
  <2> QED BY <2>5, <2>6, <2>7, <2>8
<1> QED BY <1>1, <1>2

\* Once everything has settled every account is closed.
LEMMA AccountSettles ==
  ASSUME CreationInv, AccountInv
  PROVE  CopyMatchesBody
<1> SUFFICES ASSUME Settled, past \cap {"dead", "late", "overtaken", "returned"} = {}, item.hash # NoBody
             PROVE  IF issues[item.issue] = Users THEN Showing(item.issue) = Users
                    ELSE item.conflict \/ Showing(item.issue) =
                      IF issues[item.issue] = item.hash THEN NoBody ELSE issues[item.issue]
  BY DEF CopyMatchesBody
<1>1. PICK c \in 1..stamp, by \in {"relay", "user"} : Account(c, by)
  BY DEF AccountInv, Lapsed
<1>2. PICK i \in Issue : i = item.issue
  BY DEF CreationInv, Creation, Made
<1>3. hooks = {} /\ ops = <<>>
  BY DEF Settled
<1>4. \A kind : Rows(kind) = {}
  BY <1>3 DEF Rows
<1>5. \A kind : Done(kind)
  BY <1>4 DEF Done
<1>6. c <= heard[i]
  <2>1. ~(c > heard[i])
    BY <1>1, <1>2, <1>3 DEF Account, Since
  <2>2. c \in Nat /\ heard[i] \in Nat
    BY DEF CreationInv, TypeOK
  <2> QED BY <2>1, <2>2
<1>7. item.hash # Users
  BY BodyIsNotNoBody DEF CreationInv, BodiesAreTheRelays, Users
<1>8. item.hash = issues[i] => Showing(i) = NoBody
  BY <1>1, <1>2, <1>5, <1>6 DEF Account, WillErase, Ends
<1>9. item.hash # issues[i] /\ by = "user" => Showing(i) = issues[i]
  BY <1>1, <1>2, <1>3, <1>5, <1>6 DEF Account, WillShow, Ends, Open
<1>10. by = "relay" => issues[i] # Users /\ (item.hash = issues[i] \/ item.conflict)
  BY <1>1, <1>2, <1>5 DEF Account, Written
<1> QED BY <1>2, <1>7, <1>8, <1>9, <1>10

\* CopyMatchesBody: what a user has made of the body is what the thread shows of it, and
\* nothing is shown of the relay's own, once the webhooks are heard and the outbox is empty:
\* whatever is edited, interrupted and read again in between (#syncGitHubItem,
\* #deleteEchoedIssueBody, shouldSuppressGitHubBodyEcho).
THEOREM CopiesFollowBodies == Spec => []CopyMatchesBody
<1>1. Init => CreationInv /\ StampInv /\ CopyInv /\ StartInv /\ AccountInv
  BY InitCreation, InitStamp, InitCopy, InitAccount
<1>2. CreationInv /\ StampInv /\ CopyInv /\ StartInv /\ AccountInv /\ [Next]_vars =>
        (CreationInv /\ StampInv /\ CopyInv /\ StartInv /\ AccountInv)'
  BY CreationStep, StampStep, CopiesFit, StartStep, AccountStep
<1>3. CreationInv /\ AccountInv => CopyMatchesBody
  BY AccountSettles
<1> QED BY <1>1, <1>2, <1>3, PTL DEF Spec
=============================================================================
