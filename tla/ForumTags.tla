----------------------------- MODULE ForumTags -----------------------------
(***************************************************************************)
(* The labels of a repository and the tags of the forum it is mapped to.   *)
(* A synchronization reads the labels, writes a table with a row for each  *)
(* (label_bindings, in the order of the names), then reads the forum and   *)
(* the table, gives every row a tag and the forum the tags it lacks, and   *)
(* writes the tags into the table by the position of their rows.           *)
(*                                                                         *)
(* The worker synchronizes for every webhook about labels.  Beside it an   *)
(* operator does: the start of the process, which comes before the worker  *)
(* runs, and `bootstrap start`; from a Discord source they first make a    *)
(* label of every tag whose name no label has.  Users change the labels    *)
(* and moderators the tags at any time.                                    *)
(*                                                                         *)
(* A name stands for all the names that differ only in their case.         *)
(***************************************************************************)
EXTENDS Naturals, Sequences, FiniteSets, FiniteSetsExt

CONSTANTS
  Label,         \* the ids of the labels, in the order they are made
  MaxWord,       \* bound: words a user may name a label or a tag by
  LongWord,      \* the words of more than 20 characters
  MaxTags,       \* the tags of a forum (20)
  MaxActs,       \* bound: what users do to the labels
  MaxModerators, \* bound: what moderators do to the tags
  MaxStarts,     \* bound: synchronizations by an operator
  MaxFaults,     \* bound: calls that fail, crashes
  MaxInAll       \* bound: users, moderators, faults and overlaps together

ASSUME LabelAssumption == Label \subseteq Nat \ {0} /\ Label # {} /\ IsFiniteSet(Label)
ASSUME WordAssumption  == MaxWord \in Nat /\ LongWord \subseteq 1..MaxWord
ASSUME BoundAssumption ==
  /\ MaxTags \in Nat \ {0} /\ MaxActs \in Nat /\ MaxModerators \in Nat
  /\ MaxStarts \in Nat /\ MaxFaults \in Nat /\ MaxInAll \in Nat

VARIABLES
  labels,   \* the name of each label on GitHub
  tags,     \* the tags of the forum, in their order
  lastTag,  \* the last id Discord has given to a tag
  rows,     \* label_bindings
  webhooks, \* webhooks about labels that are not yet handled
  sync,     \* the synchronizations under way
  acts, moderators, starts, faults,
  fresh,    \* no moderator has acted since a synchronization read the forum
  clash,    \* a table was refused for two rows with one tag
  lost,     \* a synchronization was given up or interrupted for good
  mixed     \* "yes": two synchronizations have run at the same time; "mending": and one now
            \* runs alone, or was to; "no": the table is that of one that ran alone

vars == <<labels, tags, lastTag, rows, webhooks, sync, acts, moderators, starts, faults,
          fresh, clash, lost, mixed>>

\* A word, or the short name of the label i that is named by the long word w.
Plain(w) == <<w, 0>>
NoName   == <<0, 0>>
Name     == {Plain(w) : w \in 1..MaxWord} \cup (LongWord \X Label)

discordTagName(label, name) == IF name[2] = 0 /\ name[1] \in LongWord THEN <<name[1], label>> ELSE name

\* compareLabels: `~` comes before the letters of the rest of a long name.
Before(a, b) == \/ a[1] < b[1]
                \/ a[1] = b[1] /\ a[2] # 0 /\ (b[2] = 0 \/ a[2] < b[2])

TagId == Nat
NoTag == 0
Tag   == [id : TagId, name : Name]
Ids(list) == {list[i].id : i \in DOMAIN list}

\* The tags of a list whose ids are not among these.
Without(list, ids) ==
  LET kept[n \in 0..Len(list)] ==
        IF n = 0 THEN <<>>
        ELSE IF list[n].id \in ids THEN kept[n - 1]
        ELSE Append(kept[n - 1], list[n])
  IN kept[Len(list)]

Row == [position : Nat, label : Label, name : Name, want : Name, tag : TagId, stale : BOOLEAN]

Process == {"worker", "operator"}
Step    == {"none", "names", "labels", "seed", "stored", "replace", "forum", "bindings", "edit", "bind"}
Sync    == [step : Step, seeding : BOOLEAN, seeds : SUBSET Name, labels : [Label -> Name \cup {NoName}],
            rows : SUBSET Row, tags : Seq(Tag), found : SUBSET [position : Nat, tag : TagId]]
Idle    == [step |-> "none", seeding |-> FALSE, seeds |-> {}, labels |-> [l \in Label |-> NoName],
            rows |-> {}, tags |-> <<>>, found |-> {}]

Live(list) == {l \in Label : list[l] # NoName}

TypeOK ==
  /\ labels \in [Label -> Name \cup {NoName}]
  /\ tags \in Seq(Tag) /\ Len(tags) <= MaxTags /\ lastTag \in TagId
  /\ rows \in SUBSET Row /\ webhooks \in Nat
  /\ sync \in [Process -> Sync]
  /\ acts \in 0..MaxActs /\ moderators \in 0..MaxModerators
  /\ starts \in 0..MaxStarts /\ faults \in 0..MaxFaults
  /\ fresh \in BOOLEAN /\ clash \in BOOLEAN /\ lost \in BOOLEAN
  /\ mixed \in {"no", "mending", "yes"}

\* A repository with at most one label, a forum with at most one tag, no bindings yet.
Init ==
  /\ \E first \in {NoName} \cup {Plain(w) : w \in 1..MaxWord} :
       labels = [l \in Label |-> IF \A k \in Label : l <= k THEN first ELSE NoName]
  /\ tags \in {<<>>} \cup {<<[id |-> 1, name |-> Plain(w)]>> : w \in (1..MaxWord) \ LongWord}
  /\ lastTag = 1 /\ rows = {} /\ webhooks = 0
  /\ sync = [p \in Process |-> Idle]
  /\ acts = 0 /\ moderators = 0 /\ starts = 0 /\ faults = 0
  /\ fresh = TRUE /\ clash = FALSE /\ lost = FALSE /\ mixed = "no"

\* An overlap counts until the table has been replaced by a synchronization that ran alone.
Spare == acts + moderators + faults + (IF mixed = "no" THEN 0 ELSE 1) < MaxInAll

relay   == <<rows, sync, starts, faults, clash, lost, mixed>>
history == <<clash, lost, mixed>>

----------------------------------------------------------------------------
\* Users and moderators.

\* An id is never used twice, and no two labels share a name.
Unused(l) == labels[l] = NoName /\ \A k \in Live(labels) : k < l

UserActs(l, name) ==
  /\ acts < MaxActs /\ Spare /\ acts' = acts + 1
  /\ name \notin {labels[k] : k \in Label}
  /\ labels' = [labels EXCEPT ![l] = name]
  /\ webhooks' = webhooks + 1
  /\ UNCHANGED <<tags, lastTag, relay, moderators, fresh>>

CreateLabel == \E l \in Label, w \in 1..MaxWord : Unused(l) /\ UserActs(l, Plain(w))
RenameLabel == \E l \in Live(labels), w \in 1..MaxWord : UserActs(l, Plain(w))

\* The newest label is not deleted, or its id would be used again by this model.
DeleteLabel ==
  /\ acts < MaxActs /\ Spare /\ acts' = acts + 1
  /\ \E l \in Live(labels) :
       /\ \E k \in Live(labels) : l < k
       /\ labels' = [labels EXCEPT ![l] = NoName]
  /\ webhooks' = webhooks + 1
  /\ UNCHANGED <<tags, lastTag, relay, moderators, fresh>>

ModeratorActs ==
  /\ moderators < MaxModerators /\ Spare /\ moderators' = moderators + 1
  /\ fresh' = FALSE
  /\ UNCHANGED <<labels, webhooks, acts, relay>>

CreateTag ==
  /\ ModeratorActs
  /\ Len(tags) < MaxTags
  /\ lastTag' = lastTag + 1
  /\ \E w \in (1..MaxWord) \ LongWord :
       tags' = Append(tags, [id |-> lastTag', name |-> Plain(w)])

RenameTag ==
  /\ ModeratorActs
  /\ \E i \in DOMAIN tags, w \in (1..MaxWord) \ LongWord :
       tags[i].name # Plain(w) /\ tags' = [tags EXCEPT ![i].name = Plain(w)]
  /\ UNCHANGED lastTag

DeleteTag ==
  /\ ModeratorActs
  /\ \E i \in DOMAIN tags : tags' = Without(tags, {tags[i].id})
  /\ UNCHANGED lastTag

----------------------------------------------------------------------------
\* The start of a synchronization, and its ends.

Outside == UNCHANGED <<acts, moderators>>
At(p, step) == sync[p].step = step
Goto(p, step) == sync' = [sync EXCEPT ![p].step = step]

Alone == \A p \in Process : sync[p] = Idle

Begin(p, seeding) ==
  /\ sync[p] = Idle /\ (Alone \/ Spare)
  /\ mixed' = IF ~Alone THEN "yes" ELSE IF mixed = "no" THEN "no" ELSE "mending"
  /\ sync' = [sync EXCEPT ![p] = [Idle EXCEPT !.step = IF seeding THEN "names" ELSE "labels",
                                             !.seeding = seeding]]
  /\ UNCHANGED <<labels, tags, lastTag, rows, webhooks, faults, fresh, clash, lost>> /\ Outside

StartOperator ==
  /\ starts < MaxStarts /\ starts' = starts + 1
  /\ \E seeding \in BOOLEAN : Begin("operator", seeding)

\* The worker runs once the process has started, beside a `bootstrap start` too.
StartWorker ==
  /\ webhooks > 0 /\ starts > 0
  /\ sync["operator"] = Idle \/ (starts > 1 /\ sync["operator"].seeding)
  /\ Begin("worker", FALSE) /\ UNCHANGED starts

\* The handler of a webhook is done with it.
End(p) ==
  /\ sync' = [sync EXCEPT ![p] = Idle]
  /\ webhooks' = IF p = "worker" THEN webhooks - 1 ELSE webhooks

\* A call fails or the process ends: the worker tries again, an operator does not.
Interrupt(p) ==
  /\ sync[p] # Idle /\ faults < MaxFaults /\ Spare /\ faults' = faults + 1
  /\ sync' = [sync EXCEPT ![p] = Idle]
  /\ lost' = (lost \/ p = "operator")
  /\ UNCHANGED <<labels, tags, lastTag, rows, webhooks, starts, fresh, clash, mixed>> /\ Outside

\* The last attempt of the worker.
GiveUp ==
  /\ sync["worker"] # Idle /\ faults < MaxFaults /\ Spare /\ faults' = faults + 1
  /\ End("worker") /\ lost' = TRUE
  /\ UNCHANGED <<labels, tags, lastTag, rows, starts, fresh, clash, mixed>> /\ Outside

----------------------------------------------------------------------------
\* GitHub's half (syncLabels).

ReadNames(p) ==
  /\ At(p, "names")
  /\ sync' = [sync EXCEPT ![p].step = "labels", ![p].seeds = {tags[i].name : i \in DOMAIN tags}]
  /\ UNCHANGED <<labels, tags, lastTag, rows, webhooks, starts, faults, fresh, history>> /\ Outside

ReadLabels(p) ==
  /\ At(p, "labels")
  /\ LET missing == sync[p].seeds \ {labels[l] : l \in Live(labels)}
     IN sync' = [sync EXCEPT ![p].labels = labels, ![p].seeds = missing,
                             ![p].step = IF missing = {} THEN "stored" ELSE "seed"]
  /\ UNCHANGED <<labels, tags, lastTag, rows, webhooks, starts, faults, fresh, history>> /\ Outside

\* The seeds in their order; GitHub refuses a name that a label has got meanwhile.
SeedLabel(p) ==
  /\ At(p, "seed")
  /\ \E name \in sync[p].seeds :
       /\ \A other \in sync[p].seeds : ~Before(other, name)
       /\ IF \E k \in Label : labels[k] = name
          THEN End(p) /\ lost' = TRUE /\ UNCHANGED labels
          ELSE /\ \E l \in Label :
                    /\ Unused(l) /\ \A k \in Label : Unused(k) => l <= k
                    /\ labels' = [labels EXCEPT ![l] = name]
                    /\ sync' = [sync EXCEPT ![p].labels[l] = name, ![p].seeds = @ \ {name},
                                  ![p].step = IF sync[p].seeds = {name} THEN "stored" ELSE "seed"]
               /\ webhooks' = webhooks + 1 /\ UNCHANGED lost
  /\ UNCHANGED <<tags, lastTag, rows, starts, faults, fresh, clash, mixed>> /\ Outside

ReadStored(p) ==
  /\ At(p, "stored")
  /\ sync' = [sync EXCEPT ![p].rows = rows, ![p].step = "replace"]
  /\ UNCHANGED <<labels, tags, lastTag, rows, webhooks, starts, faults, fresh, history>> /\ Outside

\* Mutant: the row of a label is found by its name.
planByName(list, stored) ==
  {[position |-> Cardinality({k \in Live(list) : Before(list[k], list[l])}),
    label |-> l, name |-> list[l], want |-> discordTagName(l, list[l]),
    tag |-> IF \E r \in stored : r.name = list[l]
            THEN (CHOOSE r \in stored : r.name = list[l]).tag ELSE NoTag,
    stale |-> FALSE] : l \in Live(list)}

\* planLabelBindings: a row for each label, with the tag the label has; then the rows of
\* labels that are gone.
planLabelBindings(list, stored) ==
  LET live == Live(list)
      gone == {r \in stored : r.label \notin live}
      TagOf(l) == IF \E r \in stored : r.label = l
                  THEN (CHOOSE r \in stored : r.label = l).tag ELSE NoTag
  IN {[position |-> Cardinality({k \in live : Before(list[k], list[l])}),
       label |-> l, name |-> list[l], want |-> discordTagName(l, list[l]),
       tag |-> TagOf(l), stale |-> FALSE] : l \in live}
     \cup
     {[r EXCEPT !.stale = TRUE,
                !.position = Cardinality(live) + Cardinality({s \in gone : s.position < r.position})] :
       r \in gone}

\* DELETE and INSERT in one batch: what another synchronization has written since is gone.
ReplaceRows(p) ==
  /\ At(p, "replace")
  /\ rows' = planLabelBindings(sync[p].labels, sync[p].rows)
  /\ sync' = [sync EXCEPT ![p] = [Idle EXCEPT !.step = "forum", !.seeding = sync[p].seeding]]
  /\ mixed' = IF mixed = "mending" THEN "no" ELSE mixed
  /\ UNCHANGED <<labels, tags, lastTag, webhooks, starts, faults, fresh, clash, lost>> /\ Outside

----------------------------------------------------------------------------
\* Discord's half (syncForumTags).

ReadForum(p) ==
  /\ At(p, "forum")
  /\ sync' = [sync EXCEPT ![p].tags = tags, ![p].step = "bindings"]
  /\ fresh' = TRUE
  /\ UNCHANGED <<labels, tags, lastTag, rows, webhooks, starts, faults, history>> /\ Outside

ReadBindings(p) ==
  /\ At(p, "bindings")
  /\ sync' = [sync EXCEPT ![p].rows = rows, ![p].step = "edit"]
  /\ UNCHANGED <<labels, tags, lastTag, rows, webhooks, starts, faults, fresh, history>> /\ Outside

Active(table) == {r \in table : ~r.stale}

\* Mutant: a tag is removed whatever the state of its row.
TagsOf(table) == {r.tag : r \in table}

StaleTags(table) == {r.tag : r \in {s \in table : s.stale}}

\* A plan: the tags, of which those without an id are to be made, and where the tag of
\* each row is among them.
Unclaimed(plan) == DOMAIN plan.tags \ {f.index : f \in plan.found}
Named(plan, row) == {i \in Unclaimed(plan) : plan.tags[i].name = row.want}

\* The tag the row has, else those of its name.
Candidates(plan, row) ==
  LET mine == {i \in Unclaimed(plan) : row.tag # NoTag /\ plan.tags[i].id = row.tag}
  IN IF mine # {} THEN mine ELSE Named(plan, row)

\* Mutant: one tag too many.
FullLate(plan) == Len(plan.tags) > MaxTags

Full(plan) == Len(plan.tags) >= MaxTags

Take(plan, row, i) == [plan EXCEPT !.found = @ \cup {[position |-> row.position, index |-> i]}]

\* The row takes a tag, or has one made unless the forum is full.
Claim(plan, row) ==
  LET candidates == Candidates(plan, row)
  IN IF candidates # {} THEN Take(plan, row, Min(candidates))
     ELSE IF Full(plan) THEN plan
     ELSE Take([plan EXCEPT !.tags = Append(@, [id |-> NoTag, name |-> row.want])],
               row, Len(plan.tags) + 1)

ClaimAt(plan, bindings, position) ==
  IF \E row \in bindings : row.position = position
  THEN Claim(plan, CHOOSE row \in bindings : row.position = position)
  ELSE plan

\* planDiscordForumTags: the loop over the bindings, which stand at the first positions; plan[n]
\* is the plan once those before the position n have been through it.
planDiscordForumTags(current, bindings, staleIds) ==
  LET plan[n \in 0..Cardinality(Label)] ==
        IF n = 0 THEN [tags |-> Without(current, staleIds), found |-> {}]
        ELSE ClaimAt(plan[n - 1], bindings, n - 1)
  IN plan[Cardinality(Label)]

\* Discord gives the new tags their ids, and refuses a tag that has been deleted since.
EditForum(p) ==
  /\ At(p, "edit")
  /\ LET plan    == planDiscordForumTags(sync[p].tags, Active(sync[p].rows), StaleTags(sync[p].rows))
         made    == {i \in DOMAIN plan.tags : plan.tags[i].id = NoTag}
         current == [i \in DOMAIN plan.tags |->
                       IF i \in made
                       THEN [plan.tags[i] EXCEPT !.id = lastTag + Cardinality({j \in made : j <= i})]
                       ELSE plan.tags[i]]
     IN IF current # sync[p].tags /\ ~(Ids(plan.tags) \subseteq Ids(tags) \cup {NoTag})
        THEN End(p) /\ lost' = TRUE /\ UNCHANGED <<tags, lastTag>>
        ELSE /\ tags' = IF current = sync[p].tags THEN tags ELSE current
             /\ lastTag' = lastTag + Cardinality(made)
             /\ sync' = [sync EXCEPT ![p].step = "bind", ![p].tags = <<>>,
                           ![p].found = {[position |-> f.position, tag |-> current[f.index].id] :
                                         f \in plan.found}]
             /\ UNCHANGED <<webhooks, lost>>
  /\ UNCHANGED <<labels, rows, starts, faults, fresh, clash, mixed>> /\ Outside

\* The tag found for the row at a position.
TagAt(found, position) ==
  IF \E f \in found : f.position = position
  THEN (CHOOSE f \in found : f.position = position).tag ELSE NoTag

\* The rows at the positions of the bindings before n have been updated.
Updated(table, bindings, found, n) ==
  {IF r.position < n /\ \E row \in bindings : row.position = r.position
   THEN [r EXCEPT !.tag = TagAt(found, r.position)] ELSE r : r \in table}

\* label_bindings_discord_id_unique
Unique(table) == \A r, s \in table : r.tag = s.tag /\ r.tag # NoTag => r = s

\* Mutant: the rows of labels that are gone stay.
BindAndKeep(p) ==
  /\ At(p, "bind")
  /\ LET bindings == Active(sync[p].rows)
         Table(n) == Updated(rows, bindings, sync[p].found, n)
     IN IF \A n \in 0..Cardinality(Label) : Unique(Table(n))
        THEN rows' = Table(Cardinality(Label)) /\ UNCHANGED clash
        ELSE clash' = TRUE /\ UNCHANGED rows
  /\ End(p)
  /\ UNCHANGED <<labels, tags, lastTag, starts, faults, fresh, lost, mixed>> /\ Outside

\* UPDATE by position, one row after the other, and DELETE of the stale rows, in one batch.
BindTags(p) ==
  /\ At(p, "bind")
  /\ LET bindings == Active(sync[p].rows)
         Table(n) == Updated(rows, bindings, sync[p].found, n)
     IN IF \A n \in 0..Cardinality(Label) : Unique(Table(n))
        THEN rows' = {r \in Table(Cardinality(Label)) : ~r.stale} /\ UNCHANGED clash
        ELSE clash' = TRUE /\ UNCHANGED rows
  /\ End(p)
  /\ UNCHANGED <<labels, tags, lastTag, starts, faults, fresh, lost, mixed>> /\ Outside

----------------------------------------------------------------------------
Next ==
  \/ CreateLabel \/ RenameLabel \/ DeleteLabel
  \/ CreateTag \/ RenameTag \/ DeleteTag
  \/ StartOperator \/ StartWorker \/ GiveUp
  \/ \E p \in Process :
       \/ Interrupt(p)
       \/ ReadNames(p) \/ ReadLabels(p) \/ SeedLabel(p) \/ ReadStored(p) \/ ReplaceRows(p)
       \/ ReadForum(p) \/ ReadBindings(p) \/ EditForum(p) \/ BindTags(p)

Spec == Init /\ [][Next]_vars

----------------------------------------------------------------------------
\* Properties

\* Each claims nothing from the moment two synchronizations have run at the same time until
\* one runs alone again, TagsSettle until that one has replaced the table: of two at a time one
\* may remove the tag the other has made, and be the first to write the table.

\* While its label and the tag itself are there, a label keeps its tag, through renames on
\* both sides, new labels before it, and failures.
TagsStay ==
  [][mixed # "yes" =>
       \A r \in rows : r.tag \in Ids(tags) \cap Ids(tags') /\ labels[r.label] # NoName =>
         \E s \in rows' : s.label = r.label /\ s.tag = r.tag]_vars

\* Of the tags it has read, a synchronization removes only those of labels that are gone.
\* It does remove every tag made since it read the forum, a moderator's too, in spite of
\* docs/SPECIFICATION.md:225.
ReadTagsStay ==
  [][mixed # "yes" =>
       \A p \in Process : At(p, "edit") /\ sync'[p].step = "bind" =>
         \A id \in (Ids(tags) \cap Ids(sync[p].tags)) \ Ids(tags') :
           \E r \in rows : r.tag = id /\ labels[r.label] = NoName]_vars

Settled == starts > 0 /\ webhooks = 0 /\ Alone

\* Once everything has settled there is a row for every label and no other, by the name the
\* label has; and its tag is there, unless the forum is full.
Matched ==
  /\ {r.label : r \in rows} = Live(labels)
  /\ \A r \in rows : r.name = labels[r.label] /\ ~r.stale
  /\ fresh => \A r \in rows : r.tag \in Ids(tags) \/ (r.tag = NoTag /\ Len(tags) = MaxTags)

TagsSettle == Settled /\ mixed = "no" /\ ~lost /\ ~clash => Matched
=============================================================================
