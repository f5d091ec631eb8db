--------------------------- MODULE ForumTagsProofs ---------------------------
(***************************************************************************)
(* The proofs for ForumTags: the plan of a forum's tags, which is a loop,  *)
(* by induction over the positions of the rows; the types; what holds of   *)
(* the table and of what a synchronization has read, whatever runs beside  *)
(* it; and, of the synchronizations that run alone and of those after      *)
(* them, that labels and tags stay together and that the table is right    *)
(* once everything has settled.                                            *)
(***************************************************************************)
EXTENDS ForumTags, FiniteSetTheorems, SequenceTheorems, TLAPS

Places == Cardinality(Label)

----------------------------------------------------------------------------
\* The inductive invariant.

Names  == [Label -> Name \cup {NoName}]
Syncs  == [Process -> Sync]
Tagged == [position : Nat, tag : TagId]

\* The types, and that what is counted is finite.
DataFits ==
  /\ labels \in Names /\ tags \in Seq(Tag) /\ Len(tags) <= MaxTags /\ lastTag \in TagId
  /\ rows \in SUBSET Row /\ IsFiniteSet(rows)
WorkFits == webhooks \in Nat /\ (sync["worker"] # Idle => webhooks > 0)
CountsFit ==
  /\ acts \in 0..MaxActs /\ moderators \in 0..MaxModerators
  /\ starts \in 0..MaxStarts /\ faults \in 0..MaxFaults
  /\ fresh \in BOOLEAN /\ clash \in BOOLEAN /\ lost \in BOOLEAN
SyncsFit ==
  /\ sync \in Syncs
  /\ \A p \in Process : /\ IsFiniteSet(sync[p].rows) /\ Len(sync[p].tags) <= MaxTags
                        /\ sync[p].step = "none" => sync[p] = Idle

TypeInv == DataFits /\ WorkFits /\ CountsFit /\ SyncsFit

\* No two labels share a name, nor two rows a label or a tag.
Distinct(list) == \A k, l \in Live(list) : list[k] = list[l] => k = l
OneRow(table)  == \A r, s \in table : r.label = s.label => r = s

\* No row stands where a row that is not stale stands.
Placed(table) ==
  \A r \in Active(table) : r.position < Places /\ \A s \in table : r.position = s.position => r = s

\* A label is not newer than the newest there is.
Known(l) == \E k \in Live(labels) : l <= k

\* What the rows of a table are about has been made before.
Past(table) == \A r \in table : Known(r.label) /\ r.tag <= lastTag

\* Whatever runs at the same time: the table, and what a synchronization holds of what it read.
TableInv ==
  /\ Distinct(labels)
  /\ OneRow(rows) /\ Unique(rows) /\ Placed(rows) /\ Past(rows)
  /\ \A i \in DOMAIN tags : tags[i].id \in 1..lastTag

HeldInv(p) ==
  /\ sync[p].step \in {"seed", "stored", "replace"} =>
       /\ Distinct(sync[p].labels)
       /\ \A l \in Live(sync[p].labels) : Known(l) /\ sync[p].labels[l] \notin sync[p].seeds
  /\ sync[p].step = "replace" =>
       OneRow(sync[p].rows) /\ Unique(sync[p].rows) /\ Past(sync[p].rows)
  /\ sync[p].step \in {"bindings", "edit"} =>
       \A i \in DOMAIN sync[p].tags : sync[p].tags[i].id \in 1..lastTag
  /\ sync[p].step = "bind" => \A f \in sync[p].found : f.tag <= lastTag

Always == TableInv /\ \A p \in Process : HeldInv(p)

OneRuns == \A p, q \in Process : sync[p] # Idle /\ sync[q] # Idle => p = q

\* A webhook that is handled after this synchronization.
Later(p) == webhooks > IF p = "worker" THEN 1 ELSE 0

\* The labels the synchronization has read are those of GitHub, or a webhook tells it.
ReadInv(p) ==
  /\ \A r \in rows : labels[r.label] # NoName => sync[p].labels[r.label] # NoName
  /\ lost \/ sync[p].labels = labels \/ Later(p)

\* The active rows are those of the labels.
Current ==
  /\ \A l \in Live(labels) : \E r \in Active(rows) : r.label = l
  /\ \A r \in Active(rows) : r.name = labels[r.label] /\ r.label \in Live(labels)

\* The forum as it was read has the tags of the rows that are still there.
ForumInv(p) ==
  /\ \A r \in rows : r.tag \in Ids(tags) => r.tag \in Ids(sync[p].tags)
  /\ fresh => tags = sync[p].tags

\* What the plan has found: the tag of a row, if it is still there, for that row or for one
\* before it; and, unless a moderator has acted, for every row a tag of the forum if it is not full.
FoundInv(p) ==
  /\ \A f, g \in sync[p].found : f.position = g.position => f = g
  /\ \A r \in Active(rows) : r.tag \in Ids(tags) =>
       \E f \in sync[p].found : f.tag = r.tag /\ f.position <= r.position
                                /\ \E s \in Active(rows) : s.position = f.position
  /\ fresh => /\ \A f \in sync[p].found : f.tag \in Ids(tags)
              /\ \A r \in Active(rows) : \/ \E f \in sync[p].found : f.position = r.position
                                         \/ Len(tags) = MaxTags

SyncInv(p) ==
  /\ sync[p].step \in {"seed", "stored", "replace"} => ReadInv(p)
  /\ sync[p].step \in {"replace", "edit", "bind"} => sync[p].rows = rows
  /\ sync[p].step \in {"forum", "bindings", "edit", "bind"} => lost \/ Current \/ Later(p)
  /\ sync[p].step \in {"bindings", "edit"} => ForumInv(p)
  /\ sync[p].step = "bind" => FoundInv(p)

\* What holds besides of a synchronization that has run alone from its start.
Safe == OneRuns /\ (\A p \in Process : SyncInv(p)) /\ TagsSettle

\* Stale rows are of labels that are gone, once the table has been replaced by one that ran alone.
Early == {"none", "names", "labels", "seed", "stored", "replace"}
MixedInv ==
  /\ mixed \in {"no", "mending", "yes"}
  /\ mixed = "no" => \A r \in rows : r.stale => labels[r.label] = NoName
  /\ mixed = "mending" => \A p \in Process : sync[p].step \in Early

IInv == TypeInv /\ Always /\ (mixed # "yes" => Safe) /\ MixedInv

----------------------------------------------------------------------------
\* Induction over the natural numbers, for a set of them.

LEMMA LeastNatural ==
  ASSUME NEW T, T \subseteq Nat, T # {}
  PROVE  \E x \in T : \A y \in T : x <= y
PROOF
  <1> DEFINE R == OpToRel(<, Nat)
  <1>1. IsWellFoundedOn(R, Nat)  BY NatLessThanWellFounded
  <1>2. \A x, y \in Nat : x < y => <<x, y>> \in R  BY DEF OpToRel
  <1> HIDE DEF R
  <1>3. PICK x \in T : \A y \in T : ~(<<y, x>> \in R)  BY <1>1, WFMin
  <1>4. ASSUME NEW y \in T PROVE x <= y
    <2>1. x \in Nat /\ y \in Nat  OBVIOUS
    <2>2. ~(y < x)  BY <1>2, <1>3, <2>1
    <2> QED  BY <2>1, <2>2
  <1> QED  BY <1>4

LEMMA Induction ==
  ASSUME NEW S, 0 \in S, \A n \in Nat : n \in S => n + 1 \in S
  PROVE  Nat \subseteq S
PROOF
  <1> SUFFICES ASSUME Nat \ S # {} PROVE FALSE  OBVIOUS
  <1>1. PICK m \in Nat \ S : \A y \in Nat \ S : m <= y  BY LeastNatural
  <1>2. m - 1 \in Nat /\ m - 1 \notin Nat \ S  BY <1>1
  <1> QED  BY <1>1, <1>2

LEMMA MinIsIn ==
  ASSUME NEW S, S \subseteq Nat, S # {}
  PROVE  Min(S) \in S /\ \A x \in S : Min(S) <= x
PROOF
  <1>1. \E x \in S : \A y \in S : x <= y  BY LeastNatural
  <1> QED  BY <1>1 DEF Min

----------------------------------------------------------------------------
\* A list without some tags.

Keep(before, list, ids, k) ==
  IF list[k].id \in ids THEN before ELSE Append(before, list[k])
IsKept(kept, list, ids, n) ==
  kept = [k \in 0..n |-> IF k = 0 THEN <<>> ELSE Keep(kept[k - 1], list, ids, k)]

LEMMA KeptExists ==
  ASSUME NEW list, NEW ids, NEW N \in Nat
  PROVE  \E kept : IsKept(kept, list, ids, N)
PROOF
  <1> DEFINE S == {n \in Nat : \E f : IsKept(f, list, ids, n)}
  <1>1. 0 \in S
    <2>1. IsKept([n \in 0..0 |-> <<>>], list, ids, 0)  BY DEF IsKept
    <2> QED  BY <2>1
  <1>2. ASSUME NEW n \in Nat, n \in S PROVE n + 1 \in S
    <2>1. PICK f : IsKept(f, list, ids, n)  BY <1>2
    <2> DEFINE g == [k \in 0..(n + 1) |-> IF k = n + 1 THEN Keep(f[n], list, ids, n + 1) ELSE f[k]]
    <2>2. ASSUME NEW k \in 0..(n + 1)
          PROVE  g[k] = IF k = 0 THEN <<>> ELSE Keep(g[k - 1], list, ids, k)
      <3>1. CASE k = n + 1  BY <3>1, <2>1 DEF IsKept
      <3>2. CASE k # n + 1  BY <3>2, <2>1 DEF IsKept
      <3> QED  BY <3>1, <3>2
    <2>3. IsKept(g, list, ids, n + 1)  BY <2>2 DEF IsKept
    <2> QED  BY <2>3
  <1>3. Nat \subseteq S  BY <1>1, <1>2, Induction
  <1> QED  BY <1>3

LEMMA WithoutIsKept ==
  ASSUME NEW list, NEW ids, Len(list) \in Nat
  PROVE  \E kept : IsKept(kept, list, ids, Len(list)) /\ Without(list, ids) = kept[Len(list)]
PROOF
  <1>1. \E kept : IsKept(kept, list, ids, Len(list))  BY KeptExists
  <1> DEFINE kept == CHOOSE f : IsKept(f, list, ids, Len(list))
  <1>2. IsKept(kept, list, ids, Len(list))  BY <1>1
  <1>3. Without(list, ids) = kept[Len(list)]  BY DEF Without, IsKept, Keep
  <1> QED  BY <1>2, <1>3

\* What is left are the tags with the other ids.
LEMMA WithoutIds ==
  ASSUME NEW list \in Seq(Tag), NEW ids
  PROVE  /\ Without(list, ids) \in Seq(Tag) /\ Len(Without(list, ids)) <= Len(list)
         /\ Ids(Without(list, ids)) = Ids(list) \ ids
PROOF
  <1>1. Len(list) \in Nat  OBVIOUS
  <1>2. PICK kept : IsKept(kept, list, ids, Len(list)) /\ Without(list, ids) = kept[Len(list)]
    BY <1>1, WithoutIsKept
  <1> DEFINE First(n) == {list[i].id : i \in 1..n}
             Good(n) == /\ kept[n] \in Seq(Tag) /\ Len(kept[n]) <= n
                        /\ Ids(kept[n]) = First(n) \ ids
             S == {n \in Nat : n <= Len(list) => Good(n)}
  <1>3. 0 \in S
    <2>1. kept[0] = <<>>  BY <1>1, <1>2 DEF IsKept
    <2>2. Ids(kept[0]) = {}  BY <2>1 DEF Ids
    <2>3. First(0) = {}  OBVIOUS
    <2>4. kept[0] \in Seq(Tag) /\ Len(kept[0]) = 0  BY <2>1
    <2> HIDE DEF First
    <2>5. Good(0)  BY <2>2, <2>3, <2>4
    <2> HIDE DEF Good
    <2> QED  BY <2>5
  <1>4. ASSUME NEW n \in Nat, n \in S PROVE n + 1 \in S
    <2> SUFFICES ASSUME n + 1 <= Len(list) PROVE Good(n + 1)  OBVIOUS
    <2>1. Good(n)  BY <1>1, <1>4
    <2> DEFINE old == kept[n]
               tag == list[n + 1]
    <2>2. tag \in Tag  BY ElementOfSeq
    <2>3. kept[n + 1] = IF tag.id \in ids THEN old ELSE Append(old, tag)
      <3>1. kept[n + 1] = Keep(kept[n], list, ids, n + 1)  BY <1>1, <1>2 DEF IsKept
      <3> QED  BY <3>1 DEF Keep
    <2>4. First(n + 1) = First(n) \cup {tag.id}
      <3>1. 1..(n + 1) = (1..n) \cup {n + 1}  OBVIOUS
      <3> QED  BY <3>1
    <2> HIDE DEF First
    <2>5. CASE tag.id \in ids  BY <2>1, <2>3, <2>4, <2>5
    <2>6. CASE tag.id \notin ids
      <3>1. kept[n + 1] = Append(old, tag)  BY <2>3, <2>6
      <3>2. Append(old, tag) \in Seq(Tag) /\ Len(Append(old, tag)) = Len(old) + 1  BY <2>1, <2>2
      <3>3. Ids(Append(old, tag)) = Ids(old) \cup {tag.id}
        <4>1. DOMAIN Append(old, tag) = 1..(Len(old) + 1) /\ DOMAIN old = 1..Len(old)
              /\ Len(old) \in Nat
          BY <2>1, <3>2
        <4>2. \A i \in 1..Len(old) : Append(old, tag)[i] = old[i]  BY <2>1, <2>2
        <4>3. Append(old, tag)[Len(old) + 1] = tag  BY <2>1, <2>2
        <4> HIDE DEF old, tag
        <4> QED  BY <4>1, <4>2, <4>3 DEF Ids
      <3> QED  BY <2>1, <2>4, <2>6, <3>1, <3>2, <3>3
    <2> QED  BY <2>5, <2>6
  <1>5. Len(list) \in S
    <2> HIDE DEF S
    <2> QED  BY <1>1, <1>3, <1>4, Induction
  <1>6. First(Len(list)) = Ids(list)  BY <1>1 DEF Ids
  <1> QED  BY <1>1, <1>2, <1>5, <1>6

----------------------------------------------------------------------------
\* The plan of a forum's tags.

Found == [position : Nat, index : Nat]
Plan  == [tags : Seq(Tag), found : SUBSET Found]

Start(current, staleIds) == [tags |-> Without(current, staleIds), found |-> {}]

IsPlan(plan, start, bindings, n) ==
  plan = [k \in 0..n |-> IF k = 0 THEN start ELSE ClaimAt(plan[k - 1], bindings, k - 1)]

LEMMA PlanExists ==
  ASSUME NEW start, NEW bindings, NEW N \in Nat
  PROVE  \E plan : IsPlan(plan, start, bindings, N)
PROOF
  <1> DEFINE S == {n \in Nat : \E f : IsPlan(f, start, bindings, n)}
  <1>1. 0 \in S
    <2>1. IsPlan([n \in 0..0 |-> start], start, bindings, 0)  BY DEF IsPlan
    <2> QED  BY <2>1
  <1>2. ASSUME NEW n \in Nat, n \in S PROVE n + 1 \in S
    <2>1. PICK f : IsPlan(f, start, bindings, n)  BY <1>2
    <2> DEFINE g == [k \in 0..(n + 1) |-> IF k = n + 1 THEN ClaimAt(f[n], bindings, n) ELSE f[k]]
    <2>2. ASSUME NEW k \in 0..(n + 1)
          PROVE  g[k] = IF k = 0 THEN start ELSE ClaimAt(g[k - 1], bindings, k - 1)
      <3>1. CASE k = n + 1  BY <3>1, <2>1 DEF IsPlan
      <3>2. CASE k # n + 1  BY <3>2, <2>1 DEF IsPlan
      <3> QED  BY <3>1, <3>2
    <2>3. IsPlan(g, start, bindings, n + 1)  BY <2>2 DEF IsPlan
    <2> QED  BY <2>3
  <1>3. Nat \subseteq S  BY <1>1, <1>2, Induction
  <1> QED  BY <1>3

LEMMA PlacesAreFinite == Places \in Nat
PROOF  BY LabelAssumption, FS_CardinalityType DEF Places

LEMMA PlanIsPlan ==
  ASSUME NEW current, NEW bindings, NEW staleIds
  PROVE  \E plan : /\ IsPlan(plan, Start(current, staleIds), bindings, Places)
                   /\ planDiscordForumTags(current, bindings, staleIds) = plan[Places]
PROOF
  <1> DEFINE start == Start(current, staleIds)
             plan  == CHOOSE f : IsPlan(f, start, bindings, Places)
  <1>1. IsPlan(plan, start, bindings, Places)  BY PlanExists, PlacesAreFinite
  <1>2. planDiscordForumTags(current, bindings, staleIds) = plan[Places]
    BY DEF planDiscordForumTags, IsPlan, Places, Start
  <1> QED  BY <1>1, <1>2

\* The plan p after the rows before position n, from the tags `first`: the tags that were there
\* keep their places, those added are to be made, and every row before n has found a tag or
\* the forum is full.
PlanInv(p, first, bindings, n) ==
  /\ p \in Plan /\ Len(first) <= Len(p.tags) /\ Len(p.tags) <= MaxTags
  /\ \A i \in 1..Len(first) : p.tags[i] = first[i]
  /\ \A i \in (Len(first) + 1)..Len(p.tags) : p.tags[i].id = NoTag
  /\ \A f \in p.found : /\ f.index \in 1..Len(p.tags) /\ f.position < n
                        /\ \E row \in bindings : row.position = f.position
  /\ \A f, g \in p.found : f.position = g.position => f = g
  /\ \A row \in bindings : row.position < n =>
       (\E f \in p.found : f.position = row.position) \/ Len(p.tags) = MaxTags

LEMMA TakeFields ==
  ASSUME NEW t, NEW found, NEW row, NEW i
  PROVE  Take([tags |-> t, found |-> found], row, i)
           = [tags |-> t, found |-> found \cup {[position |-> row.position, index |-> i]}]
PROOF  BY DEF Take

\* A row takes a tag that no other has claimed, its own if that one is among them; else it has one
\* made, unless the forum is full.
LEMMA ClaimFacts ==
  ASSUME NEW p \in Plan, NEW row \in Row
  PROVE  /\ Claim(p, row) \in Plan
         /\ \/ \E i \in Unclaimed(p) :
                 /\ Claim(p, row).tags = p.tags
                 /\ Claim(p, row).found = p.found \cup {[position |-> row.position, index |-> i]}
                 /\ \A j \in Unclaimed(p) :
                      row.tag # NoTag /\ p.tags[j].id = row.tag => p.tags[i].id = row.tag
            \/ /\ \A j \in Unclaimed(p) : row.tag = NoTag \/ p.tags[j].id # row.tag
               /\ \/ Claim(p, row) = p /\ Full(p)
                  \/ /\ ~Full(p)
                     /\ Claim(p, row).tags = Append(p.tags, [id |-> NoTag, name |-> row.want])
                     /\ Claim(p, row).found =
                          p.found \cup {[position |-> row.position, index |-> Len(p.tags) + 1]}
PROOF
  <1> DEFINE mine == {i \in Unclaimed(p) : row.tag # NoTag /\ p.tags[i].id = row.tag}
             cands == Candidates(p, row)
  <1>1. /\ p = [tags |-> p.tags, found |-> p.found] /\ p.tags \in Seq(Tag)
        /\ p.found \in SUBSET Found
    BY DEF Plan
  <1>2. Unclaimed(p) \subseteq 1..Len(p.tags) /\ Len(p.tags) \in Nat  BY <1>1 DEF Unclaimed
  <1>3. cands = IF mine # {} THEN mine ELSE Named(p, row)  BY DEF Candidates
  <1>4. row.position \in Nat /\ row.want \in Name  BY DEF Row
  <1>5. ASSUME NEW t \in Seq(Tag), NEW i \in Nat
        PROVE  /\ Take([tags |-> t, found |-> p.found], row, i) \in Plan
               /\ Take([tags |-> t, found |-> p.found], row, i).tags = t
               /\ Take([tags |-> t, found |-> p.found], row, i).found
                    = p.found \cup {[position |-> row.position, index |-> i]}
    <2>1. Take([tags |-> t, found |-> p.found], row, i)
            = [tags |-> t, found |-> p.found \cup {[position |-> row.position, index |-> i]}]
      BY TakeFields
    <2>2. [position |-> row.position, index |-> i] \in Found  BY <1>4 DEF Found
    <2> QED  BY <1>1, <2>1, <2>2 DEF Plan
  <1>6. CASE cands # {}
    <2> DEFINE i == Min(cands)
    <2>1. cands \subseteq Unclaimed(p)  BY <1>3 DEF Named
    <2>2. i \in cands
      <3>1. cands \subseteq Nat  BY <1>2, <2>1
      <3> HIDE DEF cands
      <3> QED  BY <1>6, <3>1, MinIsIn
    <2>3. Claim(p, row) = Take(p, row, i)  BY <1>6 DEF Claim
    <2>4. \A j \in Unclaimed(p) : row.tag # NoTag /\ p.tags[j].id = row.tag => p.tags[i].id = row.tag
      <3> SUFFICES ASSUME NEW j \in Unclaimed(p), row.tag # NoTag, p.tags[j].id = row.tag
                   PROVE  p.tags[i].id = row.tag
        OBVIOUS
      <3>1. mine # {}  OBVIOUS
      <3>2. i \in mine  BY <1>3, <2>2, <3>1
      <3> HIDE DEF i
      <3> QED  BY <3>2
    <2>5. i \in Unclaimed(p) /\ i \in Nat  BY <1>2, <2>1, <2>2
    <2> HIDE DEF i, cands, mine
    <2>6. /\ Claim(p, row) \in Plan /\ Claim(p, row).tags = p.tags
          /\ Claim(p, row).found = p.found \cup {[position |-> row.position, index |-> i]}
      BY <1>1, <1>5, <2>3, <2>5
    <2> QED  BY <2>4, <2>5, <2>6
  <1>7. CASE cands = {}
    <2>1. mine = {}  BY <1>3, <1>7
    <2>2. \A j \in Unclaimed(p) : row.tag = NoTag \/ p.tags[j].id # row.tag  BY <2>1
    <2>3. CASE Full(p)
      <3>1. Claim(p, row) = p  BY <1>7, <2>3 DEF Claim
      <3> QED  BY <2>2, <2>3, <3>1
    <2>4. CASE ~Full(p)
      <3> DEFINE tag == [id |-> NoTag, name |-> row.want]
                 more == Append(p.tags, tag)
                 k == Len(p.tags) + 1
      <3>1. tag \in Tag  BY <1>4 DEF Tag, TagId, NoTag
      <3>2. more \in Seq(Tag)  BY <1>1, <3>1
      <3>3. k \in Nat  BY <1>2
      <3>4. Claim(p, row) = Take([p EXCEPT !.tags = Append(@, tag)], row, k)
        BY <1>7, <2>4 DEF Claim
      <3>5. [p EXCEPT !.tags = Append(@, tag)] = [tags |-> more, found |-> p.found]  BY <1>1
      <3> HIDE DEF tag, more, k
      <3>6. Claim(p, row) = Take([tags |-> more, found |-> p.found], row, k)  BY <3>4, <3>5
      <3>7. /\ Claim(p, row) \in Plan /\ Claim(p, row).tags = more
            /\ Claim(p, row).found = p.found \cup {[position |-> row.position, index |-> k]}
        BY <1>5, <3>2, <3>3, <3>6
      <3> QED  BY <2>2, <2>4, <3>7 DEF more, tag, k
    <2> QED  BY <2>3, <2>4
  <1> QED  BY <1>6, <1>7

LEMMA ClaimKeepsPlan ==
  ASSUME NEW first \in Seq(Tag), NEW bindings \in SUBSET Row, NEW n \in Nat, NEW p,
         PlanInv(p, first, bindings, n), NEW row \in bindings, row.position = n
  PROVE  PlanInv(Claim(p, row), first, bindings, n + 1)
PROOF
  <1> DEFINE q == Claim(p, row)
             I(i) == [position |-> row.position, index |-> i]
  <1> SUFFICES PlanInv(q, first, bindings, n + 1)  OBVIOUS
  <1>1. p \in Plan /\ row \in Row  BY DEF PlanInv
  <1>2. q \in Plan  BY <1>1, ClaimFacts
  <1>3. /\ p.tags \in Seq(Tag) /\ Len(p.tags) \in Nat /\ Len(first) \in Nat /\ MaxTags \in Nat
        /\ \A f \in p.found : f.position \in Nat /\ f.index \in Nat
        /\ \A r \in bindings : r.position \in Nat
    BY <1>1, BoundAssumption DEF Plan, Found, Row
  <1>4. \/ \E i \in Unclaimed(p) : q.tags = p.tags /\ q.found = p.found \cup {I(i)}
        \/ q = p /\ Full(p)
        \/ /\ ~Full(p) /\ q.tags = Append(p.tags, [id |-> NoTag, name |-> row.want])
           /\ q.found = p.found \cup {I(Len(p.tags) + 1)}
    BY <1>1, ClaimFacts
  <1>5. Unclaimed(p) \subseteq 1..Len(p.tags)  BY <1>3 DEF Unclaimed
  <1>6. /\ Len(first) <= Len(p.tags) /\ Len(p.tags) <= MaxTags
        /\ \A i \in 1..Len(first) : p.tags[i] = first[i]
        /\ \A i \in (Len(first) + 1)..Len(p.tags) : p.tags[i].id = NoTag
        /\ \A f \in p.found : /\ f.index \in 1..Len(p.tags) /\ f.position < n
                              /\ \E r \in bindings : r.position = f.position
        /\ \A f, g \in p.found : f.position = g.position => f = g
        /\ \A r \in bindings : r.position < n =>
             (\E f \in p.found : f.position = r.position) \/ Len(p.tags) = MaxTags
    BY DEF PlanInv
  <1>7. ASSUME NEW i \in Nat, q.found = p.found \cup {I(i)}, i \in 1..Len(q.tags),
               Len(p.tags) <= Len(q.tags), Len(q.tags) <= MaxTags, Len(q.tags) \in Nat
        PROVE  /\ \A f \in q.found : /\ f.index \in 1..Len(q.tags) /\ f.position < n + 1
                                     /\ \E r \in bindings : r.position = f.position
               /\ \A f, g \in q.found : f.position = g.position => f = g
               /\ \A r \in bindings : r.position < n + 1 =>
                    (\E f \in q.found : f.position = r.position) \/ Len(q.tags) = MaxTags
    <2>1. I(i).index = i /\ I(i).position = n  OBVIOUS
    <2> HIDE DEF I, q
    <2>2. \A f \in q.found : f \in p.found \/ f = I(i)  BY <1>7
    <2>3. \A f \in q.found : /\ f.index \in 1..Len(q.tags) /\ f.position < n + 1
                             /\ \E r \in bindings : r.position = f.position
      BY <1>3, <1>6, <1>7, <2>1, <2>2
    <2>4. \A f, g \in q.found : f.position = g.position => f = g
      BY <1>3, <1>6, <2>1, <2>2
    <2>5. ASSUME NEW r \in bindings, r.position < n + 1
          PROVE  (\E f \in q.found : f.position = r.position) \/ Len(q.tags) = MaxTags
      <3>1. r.position = n \/ r.position < n  BY <1>3, <2>5
      <3>2. CASE r.position = n  BY <1>7, <2>1, <3>2
      <3>3. CASE r.position < n
        <4>1. (\E f \in p.found : f.position = r.position) \/ Len(p.tags) = MaxTags
          BY <1>6, <3>3
        <4>2. Len(p.tags) = MaxTags => Len(q.tags) = MaxTags  BY <1>3, <1>7
        <4> QED  BY <1>7, <4>1, <4>2
      <3> QED  BY <3>1, <3>2, <3>3
    <2> QED  BY <2>3, <2>4, <2>5
  <1>8. CASE \E i \in Unclaimed(p) : q.tags = p.tags /\ q.found = p.found \cup {I(i)}
    <2>1. PICK i \in Unclaimed(p) : q.tags = p.tags /\ q.found = p.found \cup {I(i)}  BY <1>8
    <2>2. i \in 1..Len(p.tags) /\ i \in Nat  BY <1>3, <1>5
    <2> HIDE DEF q, I
    <2> QED  BY <1>2, <1>3, <1>6, <1>7, <2>1, <2>2 DEF PlanInv
  <1>9. CASE q = p /\ Full(p)
    <2>1. Len(p.tags) = MaxTags  BY <1>3, <1>6, <1>9 DEF Full
    <2>2. \A f \in p.found : f.position < n + 1  BY <1>3, <1>6
    <2> HIDE DEF q, I
    <2> QED  BY <1>2, <1>6, <1>9, <2>1, <2>2 DEF PlanInv
  <1>10. CASE /\ ~Full(p) /\ q.tags = Append(p.tags, [id |-> NoTag, name |-> row.want])
              /\ q.found = p.found \cup {I(Len(p.tags) + 1)}
    <2> DEFINE tag == [id |-> NoTag, name |-> row.want]
               k == Len(p.tags) + 1
    <2>1. tag \in Tag /\ tag.id = NoTag  BY <1>1 DEF Tag, TagId, NoTag, Row
    <2>2. q.tags = Append(p.tags, tag)  BY <1>10
    <2>3. q.found = p.found \cup {I(k)}  BY <1>10
    <2> HIDE DEF tag, q, I
    <2>4. Len(q.tags) = k /\ k <= MaxTags /\ k \in Nat  BY <1>3, <1>10, <2>1, <2>2 DEF Full
    <2>5. /\ \A i \in 1..Len(p.tags) : q.tags[i] = p.tags[i]
          /\ q.tags[k] = tag
      BY <1>3, <2>1, <2>2
    <2>6. \A i \in 1..Len(first) : q.tags[i] = first[i]
      BY <1>3, <1>6, <2>5
    <2>7. \A i \in (Len(first) + 1)..Len(q.tags) : q.tags[i].id = NoTag
      <3> SUFFICES ASSUME NEW i \in (Len(first) + 1)..Len(q.tags) PROVE q.tags[i].id = NoTag
        OBVIOUS
      <3>1. i = k \/ i \in (Len(first) + 1)..Len(p.tags)  BY <1>3, <2>4
      <3>2. CASE i = k  BY <2>1, <2>5, <3>2
      <3>3. CASE i \in (Len(first) + 1)..Len(p.tags)
        <4>1. q.tags[i] = p.tags[i]  BY <1>3, <2>5, <3>3
        <4> QED  BY <1>6, <3>3, <4>1
      <3> QED  BY <3>1, <3>2, <3>3
    <2>8. Len(first) <= Len(q.tags) /\ Len(q.tags) <= MaxTags  BY <1>3, <1>6, <2>4
    <2>9. k \in 1..Len(q.tags) /\ Len(p.tags) <= Len(q.tags)  BY <1>3, <2>4
    <2> HIDE DEF k
    <2> QED  BY <1>2, <1>7, <2>3, <2>4, <2>6, <2>7, <2>8, <2>9 DEF PlanInv
  <1> QED  BY <1>4, <1>8, <1>9, <1>10

\* A row before n whose tag is in the forum has found it, or a row before it has.
Held(p, first, bindings, n) ==
  \A row \in bindings : row.position < n /\ row.tag # NoTag /\ row.tag \in Ids(first) =>
    \E f \in p.found : f.position <= row.position /\ p.tags[f.index].id = row.tag

LEMMA ClaimKeepsHeld ==
  ASSUME NEW first \in Seq(Tag), NEW bindings \in SUBSET Row, NEW n \in Nat, NEW p,
         PlanInv(p, first, bindings, n), Held(p, first, bindings, n),
         NEW row \in bindings, row.position = n,
         \A r \in bindings : r.position = n => r = row
  PROVE  Held(Claim(p, row), first, bindings, n + 1)
PROOF
  <1> DEFINE q == Claim(p, row)
             I(i) == [position |-> row.position, index |-> i]
  <1>1. p \in Plan /\ row \in Row  BY DEF PlanInv
  <1>2. /\ p.tags \in Seq(Tag) /\ Len(p.tags) \in Nat /\ Len(first) \in Nat
        /\ DOMAIN p.tags = 1..Len(p.tags) /\ DOMAIN first = 1..Len(first)
        /\ \A f \in p.found : f.position \in Nat /\ f.index \in 1..Len(p.tags) /\ f.position < n
        /\ \A r \in bindings : r.position \in Nat
        /\ Len(first) <= Len(p.tags) /\ \A i \in 1..Len(first) : p.tags[i] = first[i]
    BY <1>1 DEF PlanInv, Plan, Found, Row
  <1>3. /\ \/ \E i \in Unclaimed(p) :
                /\ q.tags = p.tags /\ q.found = p.found \cup {I(i)}
                /\ \A j \in Unclaimed(p) :
                     row.tag # NoTag /\ p.tags[j].id = row.tag => p.tags[i].id = row.tag
           \/ /\ \A j \in Unclaimed(p) : row.tag = NoTag \/ p.tags[j].id # row.tag
              /\ \/ q = p
                 \/ /\ q.tags = Append(p.tags, [id |-> NoTag, name |-> row.want])
                    /\ q.found = p.found \cup {I(Len(p.tags) + 1)}
    BY <1>1, ClaimFacts
  <1>4. p.found \subseteq q.found  BY <1>3
  <1>5. \A i \in 1..Len(p.tags) : q.tags[i] = p.tags[i]
    <2> DEFINE tag == [id |-> NoTag, name |-> row.want]
    <2>1. tag \in Tag  BY <1>1 DEF Tag, TagId, NoTag, Row
    <2>2. q.tags = p.tags \/ q.tags = Append(p.tags, tag)  BY <1>3
    <2> HIDE DEF tag, q
    <2> QED  BY <1>2, <2>1, <2>2
  <1>6. ASSUME NEW r \in bindings, r.position < n + 1, r.tag # NoTag, r.tag \in Ids(first)
        PROVE  \E f \in q.found : f.position <= r.position /\ q.tags[f.index].id = r.tag
    <2>1. CASE r.position < n
      <3>1. PICK f \in p.found : f.position <= r.position /\ p.tags[f.index].id = r.tag
        BY <1>6, <2>1 DEF Held
      <3>2. q.tags[f.index] = p.tags[f.index]  BY <1>2, <1>5
      <3> QED  BY <1>4, <3>1, <3>2
    <2>2. CASE ~(r.position < n)
      <3>1. r.position = n  BY <1>2, <1>6, <2>2
      <3>2. r = row  BY <3>1
      <3>3. PICK i \in 1..Len(first) : first[i].id = row.tag  BY <1>2, <1>6, <3>2 DEF Ids
      <3>4. i \in 1..Len(p.tags) /\ p.tags[i].id = row.tag  BY <1>2, <3>3
      <3>5. CASE i \in Unclaimed(p)
        <4>1. PICK j \in Unclaimed(p) :
                /\ q.found = p.found \cup {I(j)}
                /\ row.tag # NoTag /\ p.tags[i].id = row.tag => p.tags[j].id = row.tag
          BY <1>3, <1>6, <3>2, <3>4, <3>5
        <4>2. I(j) \in q.found /\ I(j).position = n /\ I(j).index = j  BY <4>1
        <4>3. j \in 1..Len(p.tags)  BY <1>2 DEF Unclaimed
        <4>4. q.tags[j].id = row.tag  BY <1>5, <1>6, <3>2, <3>4, <4>1, <4>3
        <4> HIDE DEF q, I
        <4> QED  BY <3>1, <3>2, <4>2, <4>4
      <3>6. CASE i \notin Unclaimed(p)
        <4>1. PICK f \in p.found : f.index = i  BY <1>2, <3>4, <3>6 DEF Unclaimed
        <4>2. f.position <= n  BY <1>2
        <4>3. q.tags[f.index].id = row.tag  BY <1>5, <3>4, <4>1
        <4> HIDE DEF q
        <4> QED  BY <1>4, <3>1, <3>2, <4>2, <4>3
      <3> QED  BY <3>5, <3>6
    <2> QED  BY <2>1, <2>2
  <1> HIDE DEF q
  <1>7. Held(q, first, bindings, n + 1)  BY <1>6 DEF Held
  <1> QED  BY <1>7 DEF q

\* The plan once every row has been through it, by induction over the positions.
LEMMA PlanHolds ==
  ASSUME NEW current \in Seq(Tag), Len(current) <= MaxTags, NEW bindings \in SUBSET Row,
         NEW staleIds
  PROVE  /\ PlanInv(planDiscordForumTags(current, bindings, staleIds),
                    Without(current, staleIds), bindings, Places)
         /\ (\A r, s \in bindings : r.position = s.position => r = s) =>
              Held(planDiscordForumTags(current, bindings, staleIds),
                   Without(current, staleIds), bindings, Places)
PROOF
  <1> DEFINE first == Without(current, staleIds)
             start == Start(current, staleIds)
             Apart == \A r, s \in bindings : r.position = s.position => r = s
  <1>1. PICK plan : /\ IsPlan(plan, start, bindings, Places)
                    /\ planDiscordForumTags(current, bindings, staleIds) = plan[Places]
    BY PlanIsPlan
  <1>2. first \in Seq(Tag) /\ Len(first) <= Len(current)  BY WithoutIds
  <1>3. Places \in Nat  BY PlacesAreFinite
  <1> DEFINE Good(n) == /\ PlanInv(plan[n], first, bindings, n)
                        /\ Apart => Held(plan[n], first, bindings, n)
             S == {n \in Nat : n <= Places => Good(n)}
  <1>4. \A r \in bindings : r.position \in Nat  BY DEF Row
  <1>5. 0 \in S
    <2>1. plan[0] = start  BY <1>1, <1>3 DEF IsPlan
    <2>2. start.tags = first /\ start.found = {} /\ start \in Plan  BY <1>2 DEF Start, Plan
    <2>3. Len(first) \in Nat /\ Len(current) \in Nat /\ MaxTags \in Nat  BY <1>2, BoundAssumption
    <2> HIDE DEF start, first
    <2>4. PlanInv(start, first, bindings, 0)  BY <1>2, <1>4, <2>2, <2>3 DEF PlanInv
    <2>5. Held(start, first, bindings, 0)  BY <1>4 DEF Held
    <2>6. Good(0)  BY <2>1, <2>4, <2>5
    <2> HIDE DEF Good
    <2> QED  BY <2>6
  <1>6. ASSUME NEW n \in Nat, n \in S PROVE n + 1 \in S
    <2> SUFFICES ASSUME n + 1 <= Places PROVE Good(n + 1)  OBVIOUS
    <2>1. Good(n)  BY <1>3, <1>6
    <2>2. plan[n + 1] = ClaimAt(plan[n], bindings, n)  BY <1>1, <1>3 DEF IsPlan
    <2> DEFINE p == plan[n]
    <2>3. CASE \E row \in bindings : row.position = n
      <3> DEFINE row == CHOOSE r \in bindings : r.position = n
      <3>1. row \in bindings /\ row.position = n  BY <2>3
      <3>2. plan[n + 1] = Claim(p, row)  BY <2>2, <2>3 DEF ClaimAt
      <3> HIDE DEF row, first
      <3>3. PlanInv(Claim(p, row), first, bindings, n + 1)  BY <1>2, <2>1, <3>1, ClaimKeepsPlan
      <3>4. ASSUME Apart PROVE Held(Claim(p, row), first, bindings, n + 1)
        <4>1. \A r \in bindings : r.position = n => r = row  BY <3>1, <3>4
        <4>2. Held(p, first, bindings, n) /\ PlanInv(p, first, bindings, n)  BY <2>1, <3>4
        <4> HIDE DEF Apart, p
        <4> QED  BY <1>2, <3>1, <4>1, <4>2, ClaimKeepsHeld
      <3> QED  BY <3>2, <3>3, <3>4
    <2>4. CASE ~\E row \in bindings : row.position = n
      <3>1. plan[n + 1] = p  BY <2>2, <2>4 DEF ClaimAt
      <3>2. \A r \in bindings : r.position < n + 1 => r.position < n  BY <1>4, <2>4
      <3>3. p \in Plan  BY <2>1 DEF PlanInv
      <3>4. \A f \in p.found : f.position \in Nat /\ (f.position < n => f.position < n + 1)
        BY <3>3 DEF Plan, Found
      <3> HIDE DEF p, first
      <3>5. PlanInv(p, first, bindings, n + 1)
        <4>1. PlanInv(p, first, bindings, n)  BY <2>1 DEF p
        <4> QED  BY <3>2, <3>4, <4>1 DEF PlanInv
      <3>6. Apart => Held(p, first, bindings, n + 1)
        <4>1. Apart => Held(p, first, bindings, n)  BY <2>1 DEF p
        <4> QED  BY <3>2, <4>1 DEF Held
      <3> QED  BY <3>1, <3>5, <3>6
    <2> QED  BY <2>3, <2>4
  <1>7. Good(Places)
    <2> HIDE DEF Good
    <2>1. Nat \subseteq S  BY <1>5, <1>6, Induction
    <2> QED  BY <1>3, <2>1
  <1> QED  BY <1>1, <1>7

----------------------------------------------------------------------------
\* The order of the names, and the places it gives to labels.

LEMMA NameFacts ==
  ASSUME NEW a \in Name
  PROVE  /\ a = <<a[1], a[2]>> /\ a[1] \in Nat /\ a[2] \in Nat /\ a # NoName
         /\ a[2] = 0 \/ (a[1] \in LongWord /\ a[2] \in Label)
PROOF
  <1>1. CASE a \in {Plain(w) : w \in 1..MaxWord}
    <2>1. PICK w \in 1..MaxWord : a = <<w, 0>>  BY <1>1 DEF Plain
    <2> QED  BY <2>1, WordAssumption DEF NoName
  <1>2. CASE a \in LongWord \X Label
    <2>1. PICK w \in LongWord, l \in Label : a = <<w, l>>  BY <1>2
    <2>2. w \in 1..MaxWord /\ l \in Nat \ {0}  BY WordAssumption, LabelAssumption
    <2> QED  BY <2>1, <2>2, WordAssumption DEF NoName
  <1> QED  BY <1>1, <1>2 DEF Name

LEMMA BeforeIsOrder ==
  ASSUME NEW a \in Name, NEW b \in Name, NEW c \in Name
  PROVE  /\ ~Before(a, a)
         /\ Before(a, b) /\ Before(b, c) => Before(a, c)
         /\ a = b \/ Before(a, b) \/ Before(b, a)
PROOF  BY NameFacts DEF Before

LEMMA LabelNames ==
  ASSUME NEW list \in Names, NEW l \in Live(list)
  PROVE  list[l] \in Name /\ discordTagName(l, list[l]) \in Name
PROOF
  <1>1. list[l] \in Name /\ l \in Label  BY DEF Live, Names
  <1>2. CASE list[l][2] = 0 /\ list[l][1] \in LongWord
    <2>1. <<list[l][1], l>> \in LongWord \X Label  BY <1>1, <1>2
    <2> QED  BY <1>1, <1>2, <2>1 DEF discordTagName, Name
  <1>3. CASE ~(list[l][2] = 0 /\ list[l][1] \in LongWord)  BY <1>1, <1>3 DEF discordTagName
  <1> QED  BY <1>2, <1>3

Earlier(list, l) == {k \in Live(list) : Before(list[k], list[l])}

LEMMA LiveIsFinite ==
  ASSUME NEW list
  PROVE  /\ IsFiniteSet(Live(list)) /\ Cardinality(Live(list)) \in Nat
         /\ Cardinality(Live(list)) <= Places
PROOF
  <1>1. Live(list) \in SUBSET Label  BY DEF Live
  <1> QED  BY <1>1, LabelAssumption, FS_Subset, FS_CardinalityType DEF Places

\* The place of a label is before the number of labels.
LEMMA PlaceFacts ==
  ASSUME NEW list \in Names, NEW l \in Live(list)
  PROVE  /\ IsFiniteSet(Earlier(list, l)) /\ Cardinality(Earlier(list, l)) \in Nat
         /\ Cardinality(Earlier(list, l)) < Cardinality(Live(list))
PROOF
  <1>1. IsFiniteSet(Live(list)) /\ Cardinality(Live(list)) \in Nat  BY LiveIsFinite
  <1>2. l \notin Earlier(list, l)  BY LabelNames, BeforeIsOrder DEF Earlier
  <1>3. Earlier(list, l) \in SUBSET (Live(list) \ {l})  BY <1>2 DEF Earlier
  <1>4. /\ IsFiniteSet(Live(list) \ {l})
        /\ Cardinality(Live(list) \ {l}) = Cardinality(Live(list)) - 1
    BY <1>1, FS_RemoveElement
  <1>5. /\ IsFiniteSet(Earlier(list, l))
        /\ Cardinality(Earlier(list, l)) <= Cardinality(Live(list) \ {l})
    BY <1>3, <1>4, FS_Subset
  <1>6. Cardinality(Earlier(list, l)) \in Nat  BY <1>5, FS_CardinalityType
  <1> QED  BY <1>1, <1>4, <1>5, <1>6

\* A name before another has fewer names before it.
LEMMA PlaceOrder ==
  ASSUME NEW list \in Names, NEW k \in Live(list), NEW l \in Live(list), Before(list[k], list[l])
  PROVE  Cardinality(Earlier(list, k)) < Cardinality(Earlier(list, l))
PROOF
  <1>1. k \in Earlier(list, l)  BY DEF Earlier
  <1>2. k \notin Earlier(list, k)  BY LabelNames, BeforeIsOrder DEF Earlier
  <1>3. Earlier(list, k) \subseteq Earlier(list, l)
    <2> SUFFICES ASSUME NEW j \in Live(list), Before(list[j], list[k])
                 PROVE  Before(list[j], list[l])
      BY DEF Earlier
    <2>1. list[j] \in Name /\ list[k] \in Name /\ list[l] \in Name  BY LabelNames
    <2> QED  BY <2>1, BeforeIsOrder
  <1>4. Earlier(list, k) \in SUBSET (Earlier(list, l) \ {k})  BY <1>2, <1>3
  <1>5. /\ IsFiniteSet(Earlier(list, l)) /\ Cardinality(Earlier(list, l)) \in Nat
        /\ Cardinality(Earlier(list, k)) \in Nat
    BY PlaceFacts
  <1>6. /\ IsFiniteSet(Earlier(list, l) \ {k})
        /\ Cardinality(Earlier(list, l) \ {k}) = Cardinality(Earlier(list, l)) - 1
    BY <1>1, <1>5, FS_RemoveElement
  <1>7. Cardinality(Earlier(list, k)) <= Cardinality(Earlier(list, l) \ {k})
    BY <1>4, <1>6, FS_Subset
  <1> QED  BY <1>5, <1>6, <1>7

LEMMA PlacesDiffer ==
  ASSUME NEW list \in Names, Distinct(list), NEW k \in Live(list), NEW l \in Live(list),
         Cardinality(Earlier(list, k)) = Cardinality(Earlier(list, l))
  PROVE  k = l
PROOF
  <1>1. /\ Cardinality(Earlier(list, k)) \in Nat /\ Cardinality(Earlier(list, l)) \in Nat
    BY PlaceFacts
  <1>2. ~Before(list[k], list[l]) /\ ~Before(list[l], list[k])  BY <1>1, PlaceOrder
  <1>3. list[k] \in Name /\ list[l] \in Name  BY LabelNames
  <1>4. list[k] = list[l]  BY <1>2, <1>3, BeforeIsOrder
  <1> QED  BY <1>4 DEF Distinct

----------------------------------------------------------------------------
\* The rows of labels and the rows of labels that are gone.

Gone(list, stored) == {r \in stored : r.label \notin Live(list)}
TagOf(stored, l) ==
  IF \E r \in stored : r.label = l THEN (CHOOSE r \in stored : r.label = l).tag ELSE NoTag
LiveRow(list, stored, l) ==
  [position |-> Cardinality(Earlier(list, l)), label |-> l, name |-> list[l],
   want |-> discordTagName(l, list[l]), tag |-> TagOf(stored, l), stale |-> FALSE]
GonePlace(list, stored, r) ==
  Cardinality(Live(list)) + Cardinality({s \in Gone(list, stored) : s.position < r.position})
GoneRow(list, stored, r) ==
  [position |-> GonePlace(list, stored, r), label |-> r.label, name |-> r.name,
   want |-> r.want, tag |-> r.tag, stale |-> TRUE]

LEMMA StaleRow ==
  ASSUME NEW q, NEW l, NEW n, NEW w, NEW t, NEW s, NEW place, NEW r,
         r = [position |-> q, label |-> l, name |-> n, want |-> w, tag |-> t, stale |-> s],
         NEW new, new = [r EXCEPT !.stale = TRUE, !.position = place]
  PROVE  new =
           [position |-> place, label |-> l, name |-> n, want |-> w, tag |-> t, stale |-> TRUE]
PROOF  OBVIOUS

LEMMA BindingsAre ==
  ASSUME NEW list, NEW stored \in SUBSET Row
  PROVE  planLabelBindings(list, stored) =
           {LiveRow(list, stored, l) : l \in Live(list)}
           \cup {GoneRow(list, stored, r) : r \in Gone(list, stored)}
PROOF
  <1> DEFINE New(r) == [r EXCEPT !.stale = TRUE, !.position = GonePlace(list, stored, r)]
  <1>1. planLabelBindings(list, stored) =
          {LiveRow(list, stored, l) : l \in Live(list)} \cup {New(r) : r \in Gone(list, stored)}
    BY DEF planLabelBindings, LiveRow, Gone, TagOf, Earlier, GonePlace
  <1>2. ASSUME NEW r \in Gone(list, stored) PROVE New(r) = GoneRow(list, stored, r)
    <2>1. r \in Row  BY DEF Gone
    <2> DEFINE place == GonePlace(list, stored, r)
    <2>2. GoneRow(list, stored, r) =
            [position |-> place, label |-> r.label, name |-> r.name,
             want |-> r.want, tag |-> r.tag, stale |-> TRUE]
      BY DEF GoneRow
    <2> HIDE DEF place
    <2>3. [r EXCEPT !.stale = TRUE, !.position = place] =
            [position |-> place, label |-> r.label, name |-> r.name,
             want |-> r.want, tag |-> r.tag, stale |-> TRUE]
      <3>1. r = [position |-> r.position, label |-> r.label, name |-> r.name,
                 want |-> r.want, tag |-> r.tag, stale |-> r.stale]
        BY <2>1 DEF Row
      <3> DEFINE new == [r EXCEPT !.stale = TRUE, !.position = place]
      <3>2. new = [r EXCEPT !.stale = TRUE, !.position = place]  OBVIOUS
      <3> HIDE DEF new
      <3>3. new = [position |-> place, label |-> r.label, name |-> r.name,
                   want |-> r.want, tag |-> r.tag, stale |-> TRUE]
        BY <3>1, <3>2, StaleRow
      <3> QED  BY <3>2, <3>3
    <2> QED  BY <2>2, <2>3 DEF place
  <1> QED  BY <1>1, <1>2

LEMMA RowTypes ==
  ASSUME NEW list \in Names, NEW stored \in SUBSET Row, IsFiniteSet(stored)
  PROVE  /\ \A l \in Live(list) : LiveRow(list, stored, l) \in Row
         /\ \A r \in Gone(list, stored) :
              /\ GoneRow(list, stored, r) \in Row
              /\ GoneRow(list, stored, r).position >= Cardinality(Live(list))
PROOF
  <1>1. ASSUME NEW l \in Live(list) PROVE LiveRow(list, stored, l) \in Row
    <2>1. l \in Label  BY DEF Live
    <2>2. TagOf(stored, l) \in TagId
      <3>1. CASE \E r \in stored : r.label = l
        <4>1. (CHOOSE r \in stored : r.label = l) \in Row  BY <3>1
        <4> QED  BY <3>1, <4>1 DEF TagOf, Row
      <3>2. CASE ~\E r \in stored : r.label = l  BY <3>2 DEF TagOf, TagId, NoTag
      <3> QED  BY <3>1, <3>2
    <2> QED  BY <2>1, <2>2, LabelNames, PlaceFacts DEF LiveRow, Row
  <1>2. ASSUME NEW r \in Gone(list, stored)
        PROVE  /\ GoneRow(list, stored, r) \in Row
               /\ GoneRow(list, stored, r).position >= Cardinality(Live(list))
    <2> DEFINE before == {s \in Gone(list, stored) : s.position < r.position}
    <2>1. r \in Row  BY DEF Gone
    <2>2. before \in SUBSET stored  BY DEF Gone
    <2>3. Cardinality(before) \in Nat  BY <2>2, FS_Subset, FS_CardinalityType
    <2>4. Cardinality(Live(list)) \in Nat  BY LiveIsFinite
    <2>5. GonePlace(list, stored, r) = Cardinality(Live(list)) + Cardinality(before)
      BY DEF GonePlace
    <2> HIDE DEF before
    <2>6. /\ GonePlace(list, stored, r) \in Nat
          /\ GonePlace(list, stored, r) >= Cardinality(Live(list))
      BY <2>3, <2>4, <2>5
    <2> QED  BY <2>1, <2>6 DEF GoneRow, Row
  <1> QED  BY <1>1, <1>2

LEMMA TwoSetsFinite ==
  ASSUME NEW A, NEW B, IsFiniteSet(A), IsFiniteSet(B), NEW f, NEW g,
         f = [a \in A |-> f[a]], g = [b \in B |-> g[b]]
  PROVE  IsFiniteSet({f[a] : a \in A} \cup {g[b] : b \in B})
PROOF
  <1> DEFINE S == {f[a] : a \in A}
             T == {g[b] : b \in B}
  <1>1. f \in Surjection(A, S)  BY DEF Surjection
  <1>2. g \in Surjection(B, T)  BY DEF Surjection
  <1> HIDE DEF S, T
  <1>3. IsFiniteSet(S)  BY <1>1, FS_Surjection
  <1>4. IsFiniteSet(T)  BY <1>2, FS_Surjection
  <1>5. IsFiniteSet(S \cup T)  BY <1>3, <1>4, FS_Union
  <1> QED  BY <1>5 DEF S, T

LEMMA BindingsTyped ==
  ASSUME NEW list \in Names, NEW stored \in SUBSET Row, IsFiniteSet(stored)
  PROVE  /\ planLabelBindings(list, stored) \in SUBSET Row
         /\ IsFiniteSet(planLabelBindings(list, stored))
PROOF
  <1> DEFINE f == [l \in Live(list) |-> LiveRow(list, stored, l)]
             g == [r \in Gone(list, stored) |-> GoneRow(list, stored, r)]
             A == {LiveRow(list, stored, l) : l \in Live(list)}
             B == {GoneRow(list, stored, r) : r \in Gone(list, stored)}
  <1>1. planLabelBindings(list, stored) = A \cup B  BY BindingsAre
  <1>2. A = {f[l] : l \in Live(list)} /\ f = [l \in Live(list) |-> f[l]]  OBVIOUS
  <1>3. B = {g[r] : r \in Gone(list, stored)} /\ g = [r \in Gone(list, stored) |-> g[r]]  OBVIOUS
  <1>4. IsFiniteSet(Live(list))  BY LiveIsFinite
  <1>5. IsFiniteSet(Gone(list, stored))
    <2>1. Gone(list, stored) \in SUBSET stored  BY DEF Gone
    <2> QED  BY <2>1, FS_Subset
  <1> HIDE DEF f, g
  <1>6. IsFiniteSet(A \cup B)  BY <1>2, <1>3, <1>4, <1>5, TwoSetsFinite
  <1>7. A \cup B \subseteq Row  BY RowTypes
  <1> QED  BY <1>1, <1>6, <1>7

\* What the table is after the labels have been read: a row for each label and a stale row for
\* each label that is gone, each with the tag the label had, each at a place of its own.
LEMMA BindingsFacts ==
  ASSUME NEW list \in Names, NEW stored \in SUBSET Row, IsFiniteSet(stored),
         OneRow(stored), Unique(stored), NEW table, table = planLabelBindings(list, stored)
  PROVE  /\ OneRow(table) /\ Unique(table) /\ (Distinct(list) => Placed(table))
         /\ \A r \in table : \/ \E s \in stored : s.label = r.label /\ s.tag = r.tag
                             \/ r.tag = NoTag /\ r.label \in Live(list)
         /\ \A r \in table : IF r.stale THEN r.label \notin Live(list) ELSE r.label \in Live(list)
         /\ \A r \in Active(table) : r.name = list[r.label] /\ r.label \in Live(list)
         /\ \A l \in Live(list) : \E r \in Active(table) : r.label = l
         /\ \A s \in stored : \E r \in table : r.label = s.label /\ r.tag = s.tag
PROOF
  <1> DEFINE L(l) == LiveRow(list, stored, l)
             G(s) == GoneRow(list, stored, s)
  <1>1. \A r \in table : \/ \E l \in Live(list) : r = L(l)
                         \/ \E s \in Gone(list, stored) : r = G(s)
    BY BindingsAre
  <1>2. /\ \A l \in Live(list) : L(l) \in table
        /\ \A s \in Gone(list, stored) : G(s) \in table
    BY BindingsAre
  <1>3. \A l \in Live(list) :
          /\ L(l).label = l /\ L(l).stale = FALSE /\ L(l).name = list[l]
          /\ L(l).tag = TagOf(stored, l) /\ L(l).position = Cardinality(Earlier(list, l))
    BY DEF LiveRow
  <1>4. \A s \in Gone(list, stored) :
          /\ G(s).label = s.label /\ G(s).stale = TRUE /\ G(s).tag = s.tag
          /\ s \in stored /\ s.label \notin Live(list)
    BY DEF GoneRow, Gone
  <1>5. \A s \in stored : TagOf(stored, s.label) = s.tag
    <2> SUFFICES ASSUME NEW s \in stored PROVE TagOf(stored, s.label) = s.tag  OBVIOUS
    <2>1. \E r \in stored : r.label = s.label  OBVIOUS
    <2> DEFINE r == CHOOSE r \in stored : r.label = s.label
    <2>2. r \in stored /\ r.label = s.label  BY <2>1
    <2>3. r = s  BY <2>2 DEF OneRow
    <2>4. TagOf(stored, s.label) = r.tag  BY <2>1 DEF TagOf
    <2> QED  BY <2>3, <2>4
  <1>6. \A l : (\A s \in stored : s.label # l) => TagOf(stored, l) = NoTag  BY DEF TagOf
  <1> HIDE DEF L, G
  <1>7. \A r \in table : \/ \E s \in stored : s.label = r.label /\ s.tag = r.tag
                         \/ r.tag = NoTag /\ r.label \in Live(list)
    <2> SUFFICES ASSUME NEW r \in table
                 PROVE  \/ \E s \in stored : s.label = r.label /\ s.tag = r.tag
                        \/ r.tag = NoTag /\ r.label \in Live(list)
      OBVIOUS
    <2>1. CASE \E l \in Live(list) : r = L(l)
      <3>1. PICK l \in Live(list) : r = L(l)  BY <2>1
      <3>2. CASE \E s \in stored : s.label = l  BY <1>3, <1>5, <3>1, <3>2
      <3>3. CASE \A s \in stored : s.label # l  BY <1>3, <1>6, <3>1, <3>3
      <3> QED  BY <3>2, <3>3
    <2>2. CASE \E s \in Gone(list, stored) : r = G(s)  BY <1>4, <2>2
    <2> QED  BY <1>1, <2>1, <2>2
  <1>8. \A r \in table : IF r.stale THEN r.label \notin Live(list) ELSE r.label \in Live(list)  BY <1>1, <1>3, <1>4
  <1>9. \A r \in Active(table) : r.name = list[r.label] /\ r.label \in Live(list)
    <2> SUFFICES ASSUME NEW r \in Active(table)
                 PROVE  r.name = list[r.label] /\ r.label \in Live(list)
      OBVIOUS
    <2>1. r \in table /\ ~r.stale  BY DEF Active
    <2>2. \E l \in Live(list) : r = L(l)  BY <1>1, <1>4, <2>1
    <2> QED  BY <1>3, <2>2
  <1>10. \A l \in Live(list) : \E r \in Active(table) : r.label = l  BY <1>2, <1>3 DEF Active
  <1>11. \A s \in stored : \E r \in table : r.label = s.label /\ r.tag = s.tag
    <2> SUFFICES ASSUME NEW s \in stored PROVE \E r \in table : r.label = s.label /\ r.tag = s.tag
      OBVIOUS
    <2>1. CASE s.label \in Live(list)  BY <1>2, <1>3, <1>5, <2>1
    <2>2. CASE s.label \notin Live(list)
      <3>1. s \in Gone(list, stored)  BY <2>2 DEF Gone
      <3> QED  BY <1>2, <1>4, <3>1
    <2> QED  BY <2>1, <2>2
  <1>12. OneRow(table)
    <2> SUFFICES ASSUME NEW r \in table, NEW s \in table, r.label = s.label PROVE r = s
      BY DEF OneRow
    <2>1. CASE \E l \in Live(list) : r = L(l)
      <3>1. PICK l \in Live(list) : r = L(l)  BY <2>1
      <3>2. PICK k \in Live(list) : s = L(k)  BY <1>1, <1>3, <1>4, <3>1
      <3> QED  BY <1>3, <3>1, <3>2
    <2>2. CASE \E a \in Gone(list, stored) : r = G(a)
      <3>1. PICK a \in Gone(list, stored) : r = G(a)  BY <2>2
      <3>2. PICK b \in Gone(list, stored) : s = G(b)  BY <1>1, <1>3, <1>4, <3>1
      <3>3. a = b  BY <1>4, <3>1, <3>2 DEF OneRow
      <3> QED  BY <3>1, <3>2, <3>3
    <2> QED  BY <1>1, <2>1, <2>2
  <1>13. Unique(table)
    <2> SUFFICES ASSUME NEW r \in table, NEW s \in table, r.tag = s.tag, r.tag # NoTag
                 PROVE  r = s
      BY DEF Unique
    <2>1. PICK a \in stored : a.label = r.label /\ a.tag = r.tag  BY <1>7
    <2>2. PICK b \in stored : b.label = s.label /\ b.tag = s.tag  BY <1>7
    <2>3. a = b  BY <2>1, <2>2 DEF Unique
    <2> QED  BY <1>12, <2>1, <2>2, <2>3 DEF OneRow
  <1>14. ASSUME Distinct(list) PROVE Placed(table)
    <2> SUFFICES ASSUME NEW r \in Active(table)
                 PROVE  /\ r.position < Places
                        /\ \A s \in table : r.position = s.position => r = s
      BY DEF Placed
    <2>1. r \in table /\ ~r.stale  BY DEF Active
    <2>2. PICK l \in Live(list) : r = L(l)  BY <1>1, <1>4, <2>1
    <2>3. /\ r.position = Cardinality(Earlier(list, l))
          /\ r.position \in Nat /\ r.position < Cardinality(Live(list))
      BY <1>3, <2>2, PlaceFacts
    <2>4. Cardinality(Live(list)) \in Nat /\ Cardinality(Live(list)) <= Places /\ Places \in Nat
      BY LiveIsFinite, PlacesAreFinite
    <2>5. ASSUME NEW s \in table, r.position = s.position PROVE r = s
      <3>1. CASE \E k \in Live(list) : s = L(k)
        <4>1. PICK k \in Live(list) : s = L(k)  BY <3>1
        <4>2. Cardinality(Earlier(list, l)) = Cardinality(Earlier(list, k))
          BY <1>3, <2>3, <2>5, <4>1
        <4>3. k = l  BY <1>14, <4>2, PlacesDiffer
        <4> QED  BY <2>2, <4>1, <4>3
      <3>2. CASE \E a \in Gone(list, stored) : s = G(a)
        <4>1. s \in Row /\ s.position >= Cardinality(Live(list))  BY <3>2, RowTypes DEF G
        <4> QED  BY <2>3, <2>4, <2>5, <4>1 DEF Row
      <3> QED  BY <1>1, <3>1, <3>2
    <2> QED  BY <2>3, <2>4, <2>5
  <1> QED  BY <1>7, <1>8, <1>9, <1>10, <1>11, <1>12, <1>13, <1>14

----------------------------------------------------------------------------
\* The tags written into the table.

UpdatedRow(r, bindings, found, n) ==
  IF r.position < n /\ \E row \in bindings : row.position = r.position
  THEN [r EXCEPT !.tag = TagAt(found, r.position)] ELSE r

LEMMA UpdatedIs ==
  ASSUME NEW table, NEW bindings, NEW found, NEW n
  PROVE  Updated(table, bindings, found, n) = {UpdatedRow(r, bindings, found, n) : r \in table}
PROOF  BY DEF Updated, UpdatedRow

LEMMA TagAtIs ==
  ASSUME NEW found, NEW q
  PROVE  /\ TagAt(found, q) = NoTag \/ \E f \in found : f.position = q /\ TagAt(found, q) = f.tag
         /\ (\E f \in found : f.position = q) =>
              \E f \in found : f.position = q /\ TagAt(found, q) = f.tag
PROOF
  <1>1. CASE \E f \in found : f.position = q
    <2> DEFINE f == CHOOSE f \in found : f.position = q
    <2>1. f \in found /\ f.position = q  BY <1>1
    <2>2. TagAt(found, q) = f.tag  BY <1>1 DEF TagAt
    <2> QED  BY <2>1, <2>2
  <1>2. CASE ~\E f \in found : f.position = q  BY <1>2 DEF TagAt
  <1> QED  BY <1>1, <1>2

\* Nothing but the tag of a row changes, and only at a position of the bindings.
LEMMA UpdatedRowFacts ==
  ASSUME NEW r \in Row, NEW bindings, NEW found \in SUBSET Tagged, NEW n, NEW s,
         s = UpdatedRow(r, bindings, found, n)
  PROVE  /\ s \in Row /\ s.label = r.label /\ s.name = r.name /\ s.stale = r.stale
         /\ s.position = r.position
         /\ r.position < n /\ (\E row \in bindings : row.position = r.position)
              => s.tag = TagAt(found, r.position)
         /\ ~(r.position < n /\ \E row \in bindings : row.position = r.position) => s = r
PROOF
  <1>1. TagAt(found, r.position) \in TagId
    <2>1. \A f \in found : f.tag \in TagId  BY DEF Tagged
    <2>2. NoTag \in TagId  BY DEF NoTag, TagId
    <2> QED  BY <2>1, <2>2, TagAtIs
  <1>2. CASE r.position < n /\ \E row \in bindings : row.position = r.position
    <2>1. s = [r EXCEPT !.tag = TagAt(found, r.position)]  BY <1>2 DEF UpdatedRow
    <2> QED  BY <1>1, <1>2, <2>1 DEF Row
  <1>3. CASE ~(r.position < n /\ \E row \in bindings : row.position = r.position)
    BY <1>3 DEF UpdatedRow
  <1> QED  BY <1>2, <1>3

LEMMA UpdatedTyped ==
  ASSUME NEW table \in SUBSET Row, NEW bindings, NEW found \in SUBSET Tagged, NEW n,
         IsFiniteSet(table)
  PROVE  /\ Updated(table, bindings, found, n) \in SUBSET Row
         /\ IsFiniteSet(Updated(table, bindings, found, n))
PROOF
  <1> DEFINE f == [r \in table |-> UpdatedRow(r, bindings, found, n)]
             S == {UpdatedRow(r, bindings, found, n) : r \in table}
  <1>1. Updated(table, bindings, found, n) = S  BY UpdatedIs
  <1>2. f \in Surjection(table, S)  BY DEF Surjection
  <1>3. S \subseteq Row  BY UpdatedRowFacts
  <1> HIDE DEF f, S
  <1>4. IsFiniteSet(S)  BY <1>2, FS_Surjection
  <1> QED  BY <1>1, <1>3, <1>4

----------------------------------------------------------------------------
\* What a step does to the synchronizations.

\* The synchronization of p has moved to these values, no other has.
Becomes(p, step, seeds, list, table, forum, found) ==
  /\ sync' = [sync EXCEPT ![p] = sync'[p]]
  /\ sync'[p].seeding \in BOOLEAN
  /\ sync'[p] = [step |-> step, seeding |-> sync'[p].seeding, seeds |-> seeds, labels |-> list,
                 rows |-> table, tags |-> forum, found |-> found]

LEMMA BecomesTyped ==
  ASSUME sync \in Syncs, NEW p \in Process, NEW step, NEW seeds, NEW list, NEW table, NEW forum,
         NEW found, Becomes(p, step, seeds, list, table, forum, found)
  PROVE  /\ \A q \in Process : q # p => sync'[q] = sync[q]
         /\ /\ sync'[p].step = step /\ sync'[p].seeds = seeds /\ sync'[p].labels = list
            /\ sync'[p].rows = table /\ sync'[p].tags = forum /\ sync'[p].found = found
         /\ /\ step \in Step /\ seeds \in SUBSET Name /\ list \in Names /\ table \in SUBSET Row
            /\ forum \in Seq(Tag) /\ found \in SUBSET Tagged
            => sync' \in Syncs
PROOF
  <1>1. \A q \in Process : q # p => sync'[q] = sync[q]  BY DEF Becomes, Syncs
  <1>2. /\ sync'[p].step = step /\ sync'[p].seeds = seeds /\ sync'[p].labels = list
        /\ sync'[p].rows = table /\ sync'[p].tags = forum /\ sync'[p].found = found
    BY DEF Becomes
  <1>3. ASSUME step \in Step, seeds \in SUBSET Name, list \in Names, table \in SUBSET Row,
               forum \in Seq(Tag), found \in SUBSET Tagged
        PROVE  sync' \in Syncs
    <2>1. sync'[p] \in Sync  BY <1>3 DEF Becomes, Sync, Names, Tagged
    <2>2. sync' = [sync EXCEPT ![p] = sync'[p]]  BY DEF Becomes
    <2> QED  BY <2>1, <2>2 DEF Syncs
  <1> QED  BY <1>1, <1>2, <1>3

NoNames == [l \in Label |-> NoName]

\* p becomes idle.
Rests(p) == Becomes(p, "none", {}, NoNames, {}, <<>>, {}) /\ sync'[p] = Idle

LEMMA IdleMoves ==
  ASSUME sync \in Syncs, NEW p \in Process, sync' = [sync EXCEPT ![p] = Idle]
  PROVE  Rests(p)
PROOF  BY DEF Rests, Becomes, Syncs, Idle, NoNames

LEMMA BeginMoves ==
  ASSUME sync \in Syncs, NEW p \in Process, NEW seeding \in BOOLEAN, Begin(p, seeding)
  PROVE  Becomes(p, IF seeding THEN "names" ELSE "labels", {}, NoNames, {}, <<>>, {})
PROOF
  <1> DEFINE step == IF seeding THEN "names" ELSE "labels"
  <1>1. sync' = [sync EXCEPT ![p] = [Idle EXCEPT !.step = step, !.seeding = seeding]]  BY DEF Begin
  <1> HIDE DEF step
  <1>2. sync'[p] = [Idle EXCEPT !.step = step, !.seeding = seeding]  BY <1>1 DEF Syncs
  <1>3. sync'[p] = [step |-> step, seeding |-> seeding, seeds |-> {}, labels |-> NoNames,
                    rows |-> {}, tags |-> <<>>, found |-> {}]
    BY <1>2 DEF Idle, NoNames
  <1>4. Becomes(p, step, {}, NoNames, {}, <<>>, {})
    <2>1. sync' = [sync EXCEPT ![p] = sync'[p]]  BY <1>1, <1>2
    <2>2. sync'[p].seeding = seeding  BY <1>3
    <2> QED  BY <1>3, <2>1, <2>2 DEF Becomes
  <1> QED  BY <1>4 DEF step

LEMMA ReadNamesMoves ==
  ASSUME sync \in Syncs, NEW p \in Process, ReadNames(p)
  PROVE  Becomes(p, "labels", {tags[i].name : i \in DOMAIN tags}, sync[p].labels, sync[p].rows,
                 sync[p].tags, sync[p].found)
PROOF
  <1> DEFINE seeds == {tags[i].name : i \in DOMAIN tags}
  <1>1. sync' = [sync EXCEPT ![p].step = "labels", ![p].seeds = seeds]  BY DEF ReadNames
  <1> HIDE DEF seeds
  <1>2. Becomes(p, "labels", seeds, sync[p].labels, sync[p].rows, sync[p].tags, sync[p].found)
    BY <1>1 DEF Becomes, Syncs, Sync
  <1> QED  BY <1>2 DEF seeds

\* The seeds that no label is named by.
Missing(p) == sync[p].seeds \ {labels[l] : l \in Live(labels)}

LEMMA ReadLabelsMoves ==
  ASSUME sync \in Syncs, NEW p \in Process, ReadLabels(p)
  PROVE  Becomes(p, IF Missing(p) = {} THEN "stored" ELSE "seed", Missing(p), labels,
                 sync[p].rows, sync[p].tags, sync[p].found)
PROOF
  <1> DEFINE missing == Missing(p)
             step == IF missing = {} THEN "stored" ELSE "seed"
  <1>1. sync' = [sync EXCEPT ![p].labels = labels, ![p].seeds = missing, ![p].step = step]
    BY DEF ReadLabels, Missing
  <1> HIDE DEF missing, step
  <1>2. Becomes(p, step, missing, labels, sync[p].rows, sync[p].tags, sync[p].found)
    BY <1>1 DEF Becomes, Syncs, Sync
  <1> QED  BY <1>2 DEF missing, step

LEMMA ReadStoredMoves ==
  ASSUME sync \in Syncs, NEW p \in Process, ReadStored(p)
  PROVE  Becomes(p, "replace", sync[p].seeds, sync[p].labels, rows, sync[p].tags, sync[p].found)
PROOF
  <1>1. sync' = [sync EXCEPT ![p].rows = rows, ![p].step = "replace"]  BY DEF ReadStored
  <1> QED  BY <1>1 DEF Becomes, Syncs, Sync

LEMMA ReplaceRowsMoves ==
  ASSUME sync \in Syncs, NEW p \in Process, ReplaceRows(p)
  PROVE  Becomes(p, "forum", {}, NoNames, {}, <<>>, {})
PROOF
  <1>1. PICK seeding \in BOOLEAN : seeding = sync[p].seeding  BY DEF Syncs, Sync
  <1>2. sync' = [sync EXCEPT ![p] = [Idle EXCEPT !.step = "forum", !.seeding = seeding]]
    BY <1>1 DEF ReplaceRows
  <1> QED  BY <1>2 DEF Becomes, Syncs, Idle, NoNames

LEMMA ReadForumMoves ==
  ASSUME sync \in Syncs, NEW p \in Process, ReadForum(p)
  PROVE  Becomes(p, "bindings", sync[p].seeds, sync[p].labels, sync[p].rows, tags, sync[p].found)
PROOF
  <1>1. sync' = [sync EXCEPT ![p].tags = tags, ![p].step = "bindings"]  BY DEF ReadForum
  <1> QED  BY <1>1 DEF Becomes, Syncs, Sync

LEMMA ReadBindingsMoves ==
  ASSUME sync \in Syncs, NEW p \in Process, ReadBindings(p)
  PROVE  Becomes(p, "edit", sync[p].seeds, sync[p].labels, rows, sync[p].tags, sync[p].found)
PROOF
  <1>1. sync' = [sync EXCEPT ![p].rows = rows, ![p].step = "edit"]  BY DEF ReadBindings
  <1> QED  BY <1>1 DEF Becomes, Syncs, Sync

LEMMA SeedLabelMoves ==
  ASSUME sync \in Syncs, NEW p \in Process, SeedLabel(p)
  PROVE  \E name \in sync[p].seeds :
           \/ /\ Rests(p) /\ lost' /\ labels' = labels
              /\ webhooks' = IF p = "worker" THEN webhooks - 1 ELSE webhooks
           \/ /\ \A k \in Label : labels[k] # name
              /\ \E l \in Label :
                   /\ Unused(l) /\ labels' = [labels EXCEPT ![l] = name]
                   /\ Becomes(p, IF sync[p].seeds = {name} THEN "stored" ELSE "seed",
                              sync[p].seeds \ {name}, [sync[p].labels EXCEPT ![l] = name],
                              sync[p].rows, sync[p].tags, sync[p].found)
              /\ webhooks' = webhooks + 1 /\ lost' = lost
PROOF
  <1>1. PICK name \in sync[p].seeds :
          IF \E k \in Label : labels[k] = name
          THEN End(p) /\ lost' = TRUE /\ UNCHANGED labels
          ELSE /\ \E l \in Label :
                    /\ Unused(l) /\ \A k \in Label : Unused(k) => l <= k
                    /\ labels' = [labels EXCEPT ![l] = name]
                    /\ sync' = [sync EXCEPT ![p].labels[l] = name, ![p].seeds = @ \ {name},
                                  ![p].step = IF sync[p].seeds = {name} THEN "stored" ELSE "seed"]
               /\ webhooks' = webhooks + 1 /\ UNCHANGED lost
    BY DEF SeedLabel
  <1>2. CASE \E k \in Label : labels[k] = name
    <2>1. End(p) /\ lost' = TRUE /\ labels' = labels  BY <1>1, <1>2
    <2>2. Rests(p)  BY <2>1, IdleMoves DEF End
    <2> QED  BY <2>1, <2>2 DEF End
  <1>3. CASE ~\E k \in Label : labels[k] = name
    <2>1. PICK l \in Label :
            /\ Unused(l) /\ labels' = [labels EXCEPT ![l] = name]
            /\ sync' = [sync EXCEPT ![p].labels[l] = name, ![p].seeds = @ \ {name},
                          ![p].step = IF sync[p].seeds = {name} THEN "stored" ELSE "seed"]
      BY <1>1, <1>3
    <2> DEFINE step == IF sync[p].seeds = {name} THEN "stored" ELSE "seed"
               list == [sync[p].labels EXCEPT ![l] = name]
               seeds == sync[p].seeds \ {name}
    <2>2. sync' = [sync EXCEPT ![p].labels = list, ![p].seeds = seeds, ![p].step = step]
      BY <2>1 DEF Syncs, Sync
    <2> HIDE DEF step, list, seeds
    <2>3. Becomes(p, step, seeds, list, sync[p].rows, sync[p].tags, sync[p].found)
      BY <2>2 DEF Becomes, Syncs, Sync
    <2> QED  BY <1>1, <1>3, <2>1, <2>3 DEF step, list, seeds
  <1> QED  BY <1>2, <1>3

\* The plan of p, the tags it asks for, and those it gets.
Planned(p) == planDiscordForumTags(sync[p].tags, Active(sync[p].rows), StaleTags(sync[p].rows))
MadeBy(plan) == {i \in DOMAIN plan.tags : plan.tags[i].id = NoTag}
Given(plan) ==
  [i \in DOMAIN plan.tags |->
     IF i \in MadeBy(plan)
     THEN [plan.tags[i] EXCEPT !.id = lastTag + Cardinality({j \in MadeBy(plan) : j <= i})]
     ELSE plan.tags[i]]
FoundOf(plan) == {[position |-> f.position, tag |-> Given(plan)[f.index].id] : f \in plan.found}

LEMMA EditForumMoves ==
  ASSUME sync \in Syncs, NEW p \in Process, EditForum(p), NEW plan, plan = Planned(p)
  PROVE  \/ /\ Rests(p) /\ lost' /\ tags' = tags /\ lastTag' = lastTag
            /\ webhooks' = IF p = "worker" THEN webhooks - 1 ELSE webhooks
         \/ /\ tags' = IF Given(plan) = sync[p].tags THEN tags ELSE Given(plan)
            /\ lastTag' = lastTag + Cardinality(MadeBy(plan))
            /\ Becomes(p, "bind", sync[p].seeds, sync[p].labels, sync[p].rows, <<>>, FoundOf(plan))
            /\ webhooks' = webhooks /\ lost' = lost
PROOF
  <1>0. IF Given(Planned(p)) # sync[p].tags /\ ~(Ids(Planned(p).tags) \subseteq Ids(tags) \cup {NoTag})
        THEN End(p) /\ lost' = TRUE /\ UNCHANGED <<tags, lastTag>>
        ELSE /\ tags' = IF Given(Planned(p)) = sync[p].tags THEN tags ELSE Given(Planned(p))
             /\ lastTag' = lastTag + Cardinality(MadeBy(Planned(p)))
             /\ sync' = [sync EXCEPT ![p].step = "bind", ![p].tags = <<>>,
                                     ![p].found = FoundOf(Planned(p))]
             /\ UNCHANGED <<webhooks, lost>>
    BY DEF EditForum, Planned, MadeBy, Given, FoundOf
  <1>1. IF Given(plan) # sync[p].tags /\ ~(Ids(plan.tags) \subseteq Ids(tags) \cup {NoTag})
        THEN End(p) /\ lost' = TRUE /\ UNCHANGED <<tags, lastTag>>
        ELSE /\ tags' = IF Given(plan) = sync[p].tags THEN tags ELSE Given(plan)
             /\ lastTag' = lastTag + Cardinality(MadeBy(plan))
             /\ sync' = [sync EXCEPT ![p].step = "bind", ![p].tags = <<>>,
                                     ![p].found = FoundOf(plan)]
             /\ UNCHANGED <<webhooks, lost>>
    BY <1>0
  <1> DEFINE refused == Given(plan) # sync[p].tags
                        /\ ~(Ids(plan.tags) \subseteq Ids(tags) \cup {NoTag})
  <1>2. CASE refused
    <2>1. End(p) /\ lost' = TRUE /\ tags' = tags /\ lastTag' = lastTag  BY <1>1, <1>2
    <2>2. Rests(p)  BY <2>1, IdleMoves DEF End
    <2> QED  BY <2>1, <2>2 DEF End
  <1>3. CASE ~refused
    <2>1. /\ tags' = IF Given(plan) = sync[p].tags THEN tags ELSE Given(plan)
          /\ lastTag' = lastTag + Cardinality(MadeBy(plan))
          /\ sync' = [sync EXCEPT ![p].step = "bind", ![p].tags = <<>>,
                                  ![p].found = FoundOf(plan)]
          /\ webhooks' = webhooks /\ lost' = lost
      BY <1>1, <1>3
    <2>2. Becomes(p, "bind", sync[p].seeds, sync[p].labels, sync[p].rows, <<>>, FoundOf(plan))
      <3> DEFINE found == FoundOf(plan)
      <3>1. sync' = [sync EXCEPT ![p].step = "bind", ![p].tags = <<>>, ![p].found = found]  BY <2>1
      <3> HIDE DEF found
      <3>2. Becomes(p, "bind", sync[p].seeds, sync[p].labels, sync[p].rows, <<>>, found)
        BY <3>1 DEF Becomes, Syncs, Sync
      <3> QED  BY <3>2 DEF found
    <2> QED  BY <2>1, <2>2
  <1> QED  BY <1>2, <1>3

LEMMA BindTagsMoves ==
  ASSUME sync \in Syncs, NEW p \in Process, BindTags(p),
         NEW bindings, bindings = Active(sync[p].rows), NEW found, found = sync[p].found
  PROVE  /\ Rests(p)
         /\ webhooks' = IF p = "worker" THEN webhooks - 1 ELSE webhooks
         /\ \/ /\ \A n \in 0..Places : Unique(Updated(rows, bindings, found, n))
               /\ rows' = {r \in Updated(rows, bindings, found, Places) : ~r.stale}
               /\ clash' = clash
            \/ clash' /\ rows' = rows
PROOF
  <1>1. End(p)  BY DEF BindTags
  <1>2. Rests(p)  BY <1>1, IdleMoves DEF End
  <1>3. IF \A n \in 0..Places : Unique(Updated(rows, bindings, found, n))
        THEN rows' = {r \in Updated(rows, bindings, found, Places) : ~r.stale} /\ UNCHANGED clash
        ELSE clash' = TRUE /\ UNCHANGED rows
    BY DEF BindTags, Places
  <1>4. \/ /\ \A n \in 0..Places : Unique(Updated(rows, bindings, found, n))
           /\ rows' = {r \in Updated(rows, bindings, found, Places) : ~r.stale}
           /\ clash' = clash
        \/ clash' /\ rows' = rows
    <2>1. CASE \A n \in 0..Places : Unique(Updated(rows, bindings, found, n))  BY <1>3, <2>1
    <2>2. CASE ~\A n \in 0..Places : Unique(Updated(rows, bindings, found, n))  BY <1>3, <2>2
    <2> QED  BY <2>1, <2>2
  <1> QED  BY <1>1, <1>2, <1>4 DEF End

----------------------------------------------------------------------------
\* The types.

LEMMA TypeInvFits == TypeInv => SyncsFit
PROOF  BY DEF TypeInv

LEMMA MoveFits ==
  ASSUME SyncsFit, NEW p \in Process, NEW step \in Step, NEW seeds \in SUBSET Name,
         NEW list \in Names, NEW table \in SUBSET Row, NEW forum \in Seq(Tag),
         NEW found \in SUBSET Tagged, Becomes(p, step, seeds, list, table, forum, found),
         IsFiniteSet(table), Len(forum) <= MaxTags, step # "none" \/ sync'[p] = Idle
  PROVE  SyncsFit' /\ \A q \in Process : q # p => sync'[q] = sync[q]
PROOF
  <1>1. /\ sync' \in Syncs /\ \A q \in Process : q # p => sync'[q] = sync[q]
        /\ sync'[p].rows = table /\ sync'[p].tags = forum /\ sync'[p].step = step
    BY BecomesTyped DEF SyncsFit
  <1>2. ASSUME NEW q \in Process
        PROVE  /\ IsFiniteSet(sync'[q].rows) /\ Len(sync'[q].tags) <= MaxTags
               /\ sync'[q].step = "none" => sync'[q] = Idle
    <2>1. CASE q = p  BY <1>1, <2>1
    <2>2. CASE q # p
      <3>1. sync'[q] = sync[q]  BY <1>1, <2>2
      <3> QED  BY <3>1 DEF SyncsFit
    <2> QED  BY <2>1, <2>2
  <1> QED  BY <1>1, <1>2 DEF SyncsFit

LEMMA RestFits ==
  ASSUME SyncsFit, NEW p \in Process, Rests(p)
  PROVE  SyncsFit' /\ sync'[p] = Idle /\ \A q \in Process : q # p => sync'[q] = sync[q]
PROOF
  <1>1. /\ "none" \in Step /\ {} \in SUBSET Name /\ NoNames \in Names /\ {} \in SUBSET Row
        /\ <<>> \in Seq(Tag) /\ {} \in SUBSET Tagged
    BY DEF Step, NoNames, Names
  <1>2. IsFiniteSet({}) /\ Len(<<>>) <= MaxTags  BY FS_EmptySet, BoundAssumption
  <1>3. Becomes(p, "none", {}, NoNames, {}, <<>>, {}) /\ sync'[p] = Idle  BY DEF Rests
  <1> QED  BY <1>1, <1>2, <1>3, MoveFits

\* What p has is typed.
LEMMA SyncTyped ==
  ASSUME SyncsFit, NEW p \in Process
  PROVE  /\ sync[p].step \in Step /\ sync[p].seeds \in SUBSET Name /\ sync[p].labels \in Names
         /\ sync[p].rows \in SUBSET Row /\ IsFiniteSet(sync[p].rows)
         /\ sync[p].tags \in Seq(Tag) /\ Len(sync[p].tags) <= MaxTags
         /\ sync[p].found \in SUBSET Tagged
PROOF  BY DEF SyncsFit, Syncs, Sync, Names, Tagged

LEMMA MadeIsFinite ==
  ASSUME NEW plan, plan.tags \in Seq(Tag)
  PROVE  /\ Cardinality(MadeBy(plan)) \in Nat
         /\ \A i \in MadeBy(plan) :
              /\ Cardinality({j \in MadeBy(plan) : j <= i}) \in Nat
              /\ Cardinality({j \in MadeBy(plan) : j <= i}) >= 1
              /\ Cardinality({j \in MadeBy(plan) : j <= i}) <= Cardinality(MadeBy(plan))
PROOF
  <1>1. DOMAIN plan.tags = 1..Len(plan.tags) /\ Len(plan.tags) \in Nat  OBVIOUS
  <1>2. MadeBy(plan) \in SUBSET (1..Len(plan.tags))  BY <1>1 DEF MadeBy
  <1>3. IsFiniteSet(1..Len(plan.tags))  BY <1>1, FS_Interval
  <1>4. IsFiniteSet(MadeBy(plan))  BY <1>2, <1>3, FS_Subset
  <1>5. Cardinality(MadeBy(plan)) \in Nat  BY <1>4, FS_CardinalityType
  <1>6. ASSUME NEW i \in MadeBy(plan)
        PROVE  /\ Cardinality({j \in MadeBy(plan) : j <= i}) \in Nat
               /\ Cardinality({j \in MadeBy(plan) : j <= i}) >= 1
               /\ Cardinality({j \in MadeBy(plan) : j <= i}) <= Cardinality(MadeBy(plan))
    <2> DEFINE S == {j \in MadeBy(plan) : j <= i}
    <2>1. S \in SUBSET MadeBy(plan)  OBVIOUS
    <2>2. i \in S  BY <1>2
    <2> HIDE DEF S
    <2>3. IsFiniteSet(S) /\ Cardinality(S) <= Cardinality(MadeBy(plan))  BY <1>4, <2>1, FS_Subset
    <2>4. Cardinality(S) \in Nat  BY <2>3, FS_CardinalityType
    <2>5. Cardinality(S) # 0  BY <2>2, <2>3, FS_EmptySet
    <2>6. Cardinality(S) >= 1  BY <2>4, <2>5
    <2> QED  BY <2>3, <2>4, <2>6 DEF S
  <1> QED  BY <1>5, <1>6

\* The tags p gets: those that were there, and new ones with ids that were never given before.
LEMMA GivenFacts ==
  ASSUME SyncsFit, lastTag \in TagId, NEW p \in Process, NEW plan, plan = Planned(p)
  PROVE  /\ PlanInv(plan, Without(sync[p].tags, StaleTags(sync[p].rows)), Active(sync[p].rows), Places)
         /\ Given(plan) \in Seq(Tag) /\ Len(Given(plan)) = Len(plan.tags)
         /\ Len(Given(plan)) <= MaxTags /\ Cardinality(MadeBy(plan)) \in Nat
         /\ \A i \in 1..Len(plan.tags) :
              \/ i \notin MadeBy(plan) /\ Given(plan)[i] = plan.tags[i]
              \/ /\ i \in MadeBy(plan) /\ Given(plan)[i].id > lastTag
                 /\ Given(plan)[i].id <= lastTag + Cardinality(MadeBy(plan))
         /\ FoundOf(plan) \in SUBSET Tagged
PROOF
  <1>1. /\ sync[p].tags \in Seq(Tag) /\ Len(sync[p].tags) <= MaxTags
        /\ Active(sync[p].rows) \in SUBSET Row
    BY SyncTyped DEF Active
  <1>2. PlanInv(plan, Without(sync[p].tags, StaleTags(sync[p].rows)), Active(sync[p].rows), Places)
    BY <1>1, PlanHolds DEF Planned
  <1>3. /\ plan.tags \in Seq(Tag) /\ Len(plan.tags) <= MaxTags
        /\ \A f \in plan.found : f.position \in Nat /\ f.index \in 1..Len(plan.tags)
    BY <1>2 DEF PlanInv, Plan, Found
  <1>4. DOMAIN plan.tags = 1..Len(plan.tags) /\ Len(plan.tags) \in Nat  BY <1>3
  <1>5. lastTag \in Nat  BY DEF TagId
  <1> DEFINE count(i) == Cardinality({j \in MadeBy(plan) : j <= i})
  <1>6. /\ Cardinality(MadeBy(plan)) \in Nat
        /\ \A i \in MadeBy(plan) : /\ count(i) \in Nat /\ count(i) >= 1
                                   /\ count(i) <= Cardinality(MadeBy(plan))
    BY <1>3, MadeIsFinite
  <1>7. Given(plan) = [i \in 1..Len(plan.tags) |->
                         IF i \in MadeBy(plan) THEN [plan.tags[i] EXCEPT !.id = lastTag + count(i)]
                         ELSE plan.tags[i]]
    BY <1>4 DEF Given
  <1> HIDE DEF count
  <1>8. \A i \in 1..Len(plan.tags) : plan.tags[i] \in Tag  BY <1>3
  <1>9. ASSUME NEW i \in 1..Len(plan.tags)
        PROVE  /\ Given(plan)[i] \in Tag
               /\ \/ i \notin MadeBy(plan) /\ Given(plan)[i] = plan.tags[i]
                  \/ /\ i \in MadeBy(plan) /\ Given(plan)[i].id > lastTag
                     /\ Given(plan)[i].id <= lastTag + Cardinality(MadeBy(plan))
    <2>1. CASE i \notin MadeBy(plan)  BY <1>7, <1>8, <2>1
    <2>2. CASE i \in MadeBy(plan)
      <3>1. Given(plan)[i] = [plan.tags[i] EXCEPT !.id = lastTag + count(i)]  BY <1>7, <2>2
      <3>2. lastTag + count(i) \in TagId  BY <1>5, <1>6, <2>2 DEF TagId
      <3>3. Given(plan)[i] \in Tag /\ Given(plan)[i].id = lastTag + count(i)
        BY <1>8, <3>1, <3>2 DEF Tag
      <3> QED  BY <1>5, <1>6, <2>2, <3>3
    <2> QED  BY <2>1, <2>2
  <1>10. Given(plan) \in Seq(Tag) /\ Len(Given(plan)) = Len(plan.tags)
    <2>1. Given(plan) \in [1..Len(plan.tags) -> Tag]  BY <1>7, <1>9
    <2> QED  BY <1>4, <2>1
  <1>11. FoundOf(plan) \in SUBSET Tagged
    <2>1. \A f \in plan.found : Given(plan)[f.index].id \in TagId  BY <1>3, <1>9 DEF Tag
    <2> QED  BY <1>3, <2>1 DEF FoundOf, Tagged
  <1> QED  BY <1>2, <1>3, <1>6, <1>9, <1>10, <1>11

LEMMA TypeInvIs == TypeInv <=> DataFits /\ WorkFits /\ CountsFit /\ SyncsFit
PROOF  BY DEF TypeInv

LEMMA TypeInvNext == TypeInv' <=> (DataFits /\ WorkFits /\ CountsFit /\ SyncsFit)'
PROOF  BY DEF TypeInv

LEMMA InitTypeInv == Init => TypeInv
PROOF
  <1> SUFFICES ASSUME Init PROVE TypeInv  OBVIOUS
  <1>1. PICK first \in {NoName} \cup {Plain(w) : w \in 1..MaxWord} :
          labels = [l \in Label |-> IF \A k \in Label : l <= k THEN first ELSE NoName]
    BY DEF Init
  <1>2. labels \in Names  BY <1>1 DEF Names, Name
  <1>3. tags \in Seq(Tag) /\ Len(tags) <= MaxTags
    <2>1. CASE tags = <<>>  BY <2>1, BoundAssumption
    <2>2. CASE \E w \in (1..MaxWord) \ LongWord : tags = <<[id |-> 1, name |-> Plain(w)]>>
      <3>1. PICK w \in (1..MaxWord) \ LongWord : tags = <<[id |-> 1, name |-> Plain(w)]>>  BY <2>2
      <3>2. [id |-> 1, name |-> Plain(w)] \in Tag  BY DEF Tag, TagId, Name
      <3> DEFINE tag == [id |-> 1, name |-> Plain(w)]
      <3> HIDE DEF tag
      <3>3. tags = <<tag>> /\ tag \in Tag  BY <3>1, <3>2 DEF tag
      <3> QED  BY <3>3, BoundAssumption
    <2> QED  BY <2>1, <2>2 DEF Init
  <1>4. DataFits  BY <1>2, <1>3, FS_EmptySet DEF Init, DataFits, TagId
  <1>5. sync = [p \in Process |-> Idle]  BY DEF Init
  <1>6. WorkFits  BY <1>5 DEF Init, WorkFits, Process
  <1>7. CountsFit
    <2>1. acts = 0 /\ moderators = 0 /\ starts = 0 /\ faults = 0  BY DEF Init
    <2>2. fresh \in BOOLEAN /\ clash \in BOOLEAN /\ lost \in BOOLEAN  BY DEF Init
    <2> QED  BY <2>1, <2>2, BoundAssumption DEF CountsFit
  <1>8. SyncsFit
    <2>1. Idle \in Sync  BY DEF Idle, Sync, Step
    <2>2. IsFiniteSet(Idle.rows) /\ Len(Idle.tags) <= MaxTags
      BY FS_EmptySet, BoundAssumption DEF Idle
    <2> QED  BY <1>5, <2>1, <2>2 DEF SyncsFit, Syncs
  <1> QED  BY <1>4, <1>6, <1>7, <1>8, TypeInvIs

LEMMA UserTyped ==
  ASSUME TypeInv, NEW l \in Label, NEW name \in Name, UserActs(l, name)
  PROVE  TypeInv'
PROOF
  <1>1. labels' \in Names
    <2>1. labels' = [labels EXCEPT ![l] = name]  BY DEF UserActs
    <2> QED  BY <2>1, TypeInvIs DEF DataFits, Names
  <1>2. DataFits'  BY <1>1, TypeInvIs DEF UserActs, relay, DataFits
  <1>3. WorkFits'  BY TypeInvIs DEF UserActs, relay, WorkFits
  <1>4. CountsFit'  BY TypeInvIs, BoundAssumption DEF UserActs, relay, CountsFit
  <1>5. SyncsFit'
    <2>1. sync' = sync  BY DEF UserActs, relay
    <2> QED  BY <2>1, TypeInvIs DEF SyncsFit
  <1> QED  BY <1>2, <1>3, <1>4, <1>5, TypeInvNext

LEMMA DeleteLabelTyped ==
  ASSUME TypeInv, DeleteLabel
  PROVE  TypeInv'
PROOF
  <1>1. labels' \in Names
    <2>1. PICK l \in Label : labels' = [labels EXCEPT ![l] = NoName]  BY DEF DeleteLabel, Live
    <2> QED  BY <2>1, TypeInvIs DEF DataFits, Names
  <1>2. DataFits'  BY <1>1, TypeInvIs DEF DeleteLabel, relay, DataFits
  <1>3. WorkFits'  BY TypeInvIs DEF DeleteLabel, relay, WorkFits
  <1>4. CountsFit'  BY TypeInvIs, BoundAssumption DEF DeleteLabel, relay, CountsFit
  <1>5. SyncsFit'
    <2>1. sync' = sync  BY DEF DeleteLabel, relay
    <2> QED  BY <2>1, TypeInvIs DEF SyncsFit
  <1> QED  BY <1>2, <1>3, <1>4, <1>5, TypeInvNext

LEMMA ModeratorTyped ==
  ASSUME TypeInv, CreateTag \/ RenameTag \/ DeleteTag
  PROVE  TypeInv'
PROOF
  <1>1. ModeratorActs  BY DEF CreateTag, RenameTag, DeleteTag
  <1>2. tags \in Seq(Tag) /\ Len(tags) <= MaxTags /\ lastTag \in Nat /\ MaxTags \in Nat
    BY TypeInvIs, BoundAssumption DEF DataFits, TagId
  <1>3. tags' \in Seq(Tag) /\ Len(tags') <= MaxTags /\ lastTag' \in Nat
    <2>1. CASE CreateTag
      <3>1. PICK w \in 1..MaxWord : tags' = Append(tags, [id |-> lastTag', name |-> Plain(w)])
        BY <2>1 DEF CreateTag
      <3>2. lastTag' \in Nat /\ Len(tags) < MaxTags  BY <1>2, <2>1 DEF CreateTag
      <3> DEFINE tag == [id |-> lastTag', name |-> Plain(w)]
      <3>3. tag \in Tag  BY <3>2 DEF Tag, TagId, Name
      <3>4. tags' = Append(tags, tag)  BY <3>1
      <3> HIDE DEF tag
      <3> QED  BY <1>2, <3>2, <3>3, <3>4
    <2>2. CASE RenameTag
      <3>1. PICK i \in DOMAIN tags, w \in 1..MaxWord : tags' = [tags EXCEPT ![i].name = Plain(w)]
        BY <2>2 DEF RenameTag
      <3>2. tags' = [tags EXCEPT ![i] = [tags[i] EXCEPT !.name = Plain(w)]]  BY <3>1
      <3> DEFINE tag == [tags[i] EXCEPT !.name = Plain(w)]
      <3>3. tags[i] \in Tag /\ Plain(w) \in Name  BY <1>2 DEF Name
      <3>4. tag \in Tag  BY <3>3 DEF Tag
      <3>5. tags' = [tags EXCEPT ![i] = tag]  BY <3>2
      <3>6. lastTag' = lastTag  BY <2>2 DEF RenameTag
      <3> HIDE DEF tag
      <3> QED  BY <1>2, <3>4, <3>5, <3>6
    <2>3. CASE DeleteTag
      <3>1. PICK i \in DOMAIN tags : tags' = Without(tags, {tags[i].id})  BY <2>3 DEF DeleteTag
      <3>2. tags' \in Seq(Tag) /\ Len(tags') <= Len(tags)  BY <1>2, <3>1, WithoutIds
      <3>3. lastTag' = lastTag /\ Len(tags') \in Nat /\ Len(tags) \in Nat
        BY <1>2, <2>3, <3>2 DEF DeleteTag
      <3> QED  BY <1>2, <3>2, <3>3
    <2> QED  BY <2>1, <2>2, <2>3
  <1>4. DataFits'  BY <1>1, <1>3, TypeInvIs DEF ModeratorActs, relay, DataFits, TagId
  <1>5. WorkFits'  BY <1>1, TypeInvIs DEF ModeratorActs, relay, WorkFits
  <1>6. CountsFit'
    <2>1. moderators < MaxModerators /\ moderators' = moderators + 1  BY <1>1 DEF ModeratorActs
    <2>2. moderators' \in 0..MaxModerators  BY <2>1, TypeInvIs, BoundAssumption DEF CountsFit
    <2>3. acts' = acts /\ starts' = starts /\ faults' = faults /\ clash' = clash /\ lost' = lost
      BY <1>1 DEF ModeratorActs, relay
    <2>4. fresh' \in BOOLEAN  BY <1>1 DEF ModeratorActs
    <2> QED  BY <2>2, <2>3, <2>4, TypeInvIs DEF CountsFit
  <1>7. SyncsFit'
    <2>1. sync' = sync  BY <1>1 DEF ModeratorActs, relay
    <2> QED  BY <2>1, TypeInvIs DEF SyncsFit
  <1> QED  BY <1>4, <1>5, <1>6, <1>7, TypeInvNext

\* What a step of a synchronization leaves alone.
LEMMA StepTyped ==
  ASSUME TypeInv, NEW p \in Process, SyncsFit',
         sync'[p] = Idle \/ sync[p] # Idle,
         \A q \in Process : q # p => sync'[q] = sync[q],
         \/ webhooks' \in {webhooks, webhooks + 1}
         \/ /\ webhooks' = IF p = "worker" THEN webhooks - 1 ELSE webhooks
            /\ sync[p] # Idle /\ sync'[p] = Idle
  PROVE  WorkFits'
PROOF
  <1>1. webhooks \in Nat /\ (sync["worker"] # Idle => webhooks > 0)  BY TypeInvIs DEF WorkFits
  <1>2. "worker" \in Process  BY DEF Process
  <1>3. CASE webhooks' \in {webhooks, webhooks + 1}
    <2>1. sync'["worker"] # Idle => sync["worker"] # Idle  BY <1>2
    <2> QED  BY <1>1, <1>3, <2>1 DEF WorkFits
  <1>4. CASE /\ webhooks' = IF p = "worker" THEN webhooks - 1 ELSE webhooks
             /\ sync[p] # Idle /\ sync'[p] = Idle
    <2>1. CASE p = "worker"  BY <1>1, <1>4, <2>1 DEF WorkFits
    <2>2. CASE p # "worker"
      <3>1. sync'["worker"] = sync["worker"]  BY <1>2, <2>2
      <3> QED  BY <1>1, <1>4, <2>2, <3>1 DEF WorkFits
    <2> QED  BY <2>1, <2>2
  <1> QED  BY <1>3, <1>4

LEMMA BeginTyped ==
  ASSUME TypeInv, StartOperator \/ StartWorker
  PROVE  TypeInv'
PROOF
  <1>1. PICK p \in Process, seeding \in BOOLEAN :
          Begin(p, seeding) /\ (p = "worker" => webhooks > 0)
    BY DEF StartOperator, StartWorker, Process
  <1>2. SyncsFit  BY TypeInvIs
  <1> DEFINE step == IF seeding THEN "names" ELSE "labels"
  <1>3. Becomes(p, step, {}, NoNames, {}, <<>>, {})  BY <1>1, <1>2, BeginMoves DEF SyncsFit
  <1>4. /\ step \in Step /\ step # "none" /\ {} \in SUBSET Name /\ NoNames \in Names
        /\ {} \in SUBSET Row /\ <<>> \in Seq(Tag) /\ {} \in SUBSET Tagged
        /\ IsFiniteSet({}) /\ Len(<<>>) <= MaxTags
    BY FS_EmptySet, BoundAssumption DEF Step, NoNames, Names
  <1> HIDE DEF step
  <1>5. SyncsFit' /\ \A q \in Process : q # p => sync'[q] = sync[q]
    BY <1>2, <1>3, <1>4, MoveFits
  <1>6. webhooks' = webhooks  BY <1>1 DEF Begin
  <1>7. WorkFits'  BY <1>1, <1>5, <1>6, TypeInvIs DEF WorkFits, Process
  <1>8. DataFits'  BY <1>1, TypeInvIs DEF Begin, DataFits
  <1>9. CountsFit'
    <2>1. starts' \in 0..MaxStarts
      <3>1. CASE StartOperator
        <4>1. starts < MaxStarts /\ starts' = starts + 1  BY <3>1 DEF StartOperator
        <4> QED  BY <4>1, TypeInvIs, BoundAssumption DEF CountsFit
      <3>2. CASE StartWorker
        <4>1. starts' = starts  BY <3>2 DEF StartWorker
        <4> QED  BY <4>1, TypeInvIs DEF CountsFit
      <3> QED  BY <3>1, <3>2
    <2>2. /\ acts' = acts /\ moderators' = moderators /\ faults' = faults
          /\ fresh' = fresh /\ clash' = clash /\ lost' = lost
      BY <1>1 DEF Begin, Outside
    <2> QED  BY <2>1, <2>2, TypeInvIs DEF CountsFit
  <1> QED  BY <1>5, <1>7, <1>8, <1>9, TypeInvNext

LEMMA FaultTyped ==
  ASSUME TypeInv, NEW p \in Process, Interrupt(p) \/ (p = "worker" /\ GiveUp)
  PROVE  TypeInv'
PROOF
  <1>1. SyncsFit  BY TypeInvIs
  <1>2. sync' = [sync EXCEPT ![p] = Idle] /\ sync[p] # Idle  BY DEF Interrupt, GiveUp, End
  <1>3. SyncsFit' /\ sync'[p] = Idle /\ \A q \in Process : q # p => sync'[q] = sync[q]
    <2>1. Rests(p)  BY <1>1, <1>2, IdleMoves DEF SyncsFit
    <2> QED  BY <1>1, <2>1, RestFits
  <1>4. \/ webhooks' = webhooks
        \/ webhooks' = IF p = "worker" THEN webhooks - 1 ELSE webhooks
    BY DEF Interrupt, GiveUp, End
  <1>5. WorkFits'  BY <1>2, <1>3, <1>4, StepTyped
  <1>6. DataFits'  BY TypeInvIs DEF Interrupt, GiveUp, DataFits
  <1>7. CountsFit'
    <2>1. faults < MaxFaults /\ faults' = faults + 1  BY DEF Interrupt, GiveUp
    <2>2. faults' \in 0..MaxFaults  BY <2>1, TypeInvIs, BoundAssumption DEF CountsFit
    <2>3. /\ acts' = acts /\ moderators' = moderators /\ starts' = starts
          /\ fresh' = fresh /\ clash' = clash
      BY DEF Interrupt, GiveUp, Outside
    <2>4. lost' \in BOOLEAN  BY DEF Interrupt, GiveUp
    <2> QED  BY <2>2, <2>3, <2>4, TypeInvIs DEF CountsFit
  <1> QED  BY <1>3, <1>5, <1>6, <1>7, TypeInvNext

LEMMA QuietTyped ==
  ASSUME TypeInv, NEW p \in Process, sync[p].step # "none", SyncsFit',
         \A q \in Process : q # p => sync'[q] = sync[q],
         DataFits', fresh' \in BOOLEAN, clash' \in BOOLEAN, lost' \in BOOLEAN,
         UNCHANGED <<starts, faults>>, Outside,
         \/ webhooks' \in {webhooks, webhooks + 1}
         \/ /\ webhooks' = IF p = "worker" THEN webhooks - 1 ELSE webhooks
            /\ sync'[p] = Idle
  PROVE  TypeInv'
PROOF
  <1>1. sync[p] # Idle  BY DEF Idle
  <1>2. WorkFits'  BY <1>1, StepTyped
  <1>3. CountsFit'
    <2>1. acts' = acts /\ moderators' = moderators /\ starts' = starts /\ faults' = faults
      BY DEF Outside
    <2> QED  BY <2>1, TypeInvIs DEF CountsFit
  <1> QED  BY <1>2, <1>3, TypeInvNext

LEMMA ReadTyped ==
  ASSUME TypeInv, NEW p \in Process,
         ReadNames(p) \/ ReadLabels(p) \/ ReadStored(p) \/ ReadForum(p) \/ ReadBindings(p)
  PROVE  TypeInv'
PROOF
  <1>1. SyncsFit /\ sync \in Syncs  BY TypeInvIs DEF SyncsFit
  <1>2. /\ sync[p].step \in Step /\ sync[p].seeds \in SUBSET Name /\ sync[p].labels \in Names
        /\ sync[p].rows \in SUBSET Row /\ IsFiniteSet(sync[p].rows)
        /\ sync[p].tags \in Seq(Tag) /\ Len(sync[p].tags) <= MaxTags
        /\ sync[p].found \in SUBSET Tagged
    BY <1>1, SyncTyped
  <1>3. /\ labels \in Names /\ tags \in Seq(Tag) /\ Len(tags) <= MaxTags
        /\ rows \in SUBSET Row /\ IsFiniteSet(rows)
    BY TypeInvIs DEF DataFits
  <1>4. SyncsFit' /\ \A q \in Process : q # p => sync'[q] = sync[q]
    <2>1. CASE ReadNames(p)
      <3> DEFINE seeds == {tags[i].name : i \in DOMAIN tags}
      <3>1. seeds \in SUBSET Name
        <4>1. \A i \in DOMAIN tags : tags[i] \in Tag  BY <1>3
        <4> QED  BY <4>1 DEF Tag
      <3>2. Becomes(p, "labels", seeds, sync[p].labels, sync[p].rows, sync[p].tags, sync[p].found)
        BY <1>1, <2>1, ReadNamesMoves
      <3> HIDE DEF seeds
      <3>3. "labels" \in Step /\ "labels" # "none"  BY DEF Step
      <3> QED  BY <1>1, <1>2, <3>1, <3>2, <3>3, MoveFits
    <2>2. CASE ReadLabels(p)
      <3> DEFINE step == IF Missing(p) = {} THEN "stored" ELSE "seed"
      <3>1. Becomes(p, step, Missing(p), labels, sync[p].rows, sync[p].tags, sync[p].found)
        BY <1>1, <2>2, ReadLabelsMoves
      <3>2. step \in Step /\ step # "none"  BY DEF Step
      <3>3. Missing(p) \in SUBSET Name  BY <1>2 DEF Missing
      <3> HIDE DEF step
      <3> QED  BY <1>1, <1>2, <1>3, <3>1, <3>2, <3>3, MoveFits
    <2>3. CASE ReadStored(p)
      <3>1. Becomes(p, "replace", sync[p].seeds, sync[p].labels, rows, sync[p].tags, sync[p].found)
        BY <1>1, <2>3, ReadStoredMoves
      <3>2. "replace" \in Step /\ "replace" # "none"  BY DEF Step
      <3> QED  BY <1>1, <1>2, <1>3, <3>1, <3>2, MoveFits
    <2>4. CASE ReadForum(p)
      <3>1. Becomes(p, "bindings", sync[p].seeds, sync[p].labels, sync[p].rows, tags, sync[p].found)
        BY <1>1, <2>4, ReadForumMoves
      <3>2. "bindings" \in Step /\ "bindings" # "none"  BY DEF Step
      <3> QED  BY <1>1, <1>2, <1>3, <3>1, <3>2, MoveFits
    <2>5. CASE ReadBindings(p)
      <3>1. Becomes(p, "edit", sync[p].seeds, sync[p].labels, rows, sync[p].tags, sync[p].found)
        BY <1>1, <2>5, ReadBindingsMoves
      <3>2. "edit" \in Step /\ "edit" # "none"  BY DEF Step
      <3> QED  BY <1>1, <1>2, <1>3, <3>1, <3>2, MoveFits
    <2> QED  BY <2>1, <2>2, <2>3, <2>4, <2>5
  <1>5. /\ labels' = labels /\ tags' = tags /\ lastTag' = lastTag /\ rows' = rows
        /\ webhooks' = webhooks /\ clash' = clash /\ lost' = lost /\ Outside
        /\ UNCHANGED <<starts, faults>>
    BY DEF ReadNames, ReadLabels, ReadStored, ReadForum, ReadBindings, history
  <1>6. fresh' \in BOOLEAN
    BY TypeInvIs DEF CountsFit, ReadNames, ReadLabels, ReadStored, ReadForum, ReadBindings
  <1>7. clash' \in BOOLEAN /\ lost' \in BOOLEAN  BY <1>5, TypeInvIs DEF CountsFit
  <1>8. DataFits'  BY <1>5, TypeInvIs DEF DataFits
  <1>9. sync[p].step # "none"
    BY DEF ReadNames, ReadLabels, ReadStored, ReadForum, ReadBindings, At
  <1> QED  BY <1>4, <1>5, <1>6, <1>7, <1>8, <1>9, QuietTyped

LEMMA ReplaceTyped ==
  ASSUME TypeInv, NEW p \in Process, ReplaceRows(p)
  PROVE  TypeInv'
PROOF
  <1>1. SyncsFit /\ sync \in Syncs  BY TypeInvIs DEF SyncsFit
  <1>2. SyncsFit' /\ \A q \in Process : q # p => sync'[q] = sync[q]
    <2>1. Becomes(p, "forum", {}, NoNames, {}, <<>>, {})  BY <1>1, ReplaceRowsMoves
    <2>2. /\ "forum" \in Step /\ "forum" # "none" /\ {} \in SUBSET Name /\ NoNames \in Names
          /\ {} \in SUBSET Row /\ <<>> \in Seq(Tag) /\ {} \in SUBSET Tagged
          /\ IsFiniteSet({}) /\ Len(<<>>) <= MaxTags
      BY FS_EmptySet, BoundAssumption DEF Step, NoNames, Names
    <2> QED  BY <1>1, <2>1, <2>2, MoveFits
  <1>3. rows' \in SUBSET Row /\ IsFiniteSet(rows')
    <2>1. rows' = planLabelBindings(sync[p].labels, sync[p].rows)  BY DEF ReplaceRows
    <2> QED  BY <1>1, <2>1, SyncTyped, BindingsTyped
  <1>4. /\ labels' = labels /\ tags' = tags /\ lastTag' = lastTag
        /\ webhooks' = webhooks /\ clash' = clash /\ lost' = lost /\ fresh' = fresh /\ Outside
        /\ UNCHANGED <<starts, faults>> /\ sync[p].step # "none"
    BY DEF ReplaceRows, history, At
  <1>5. DataFits'  BY <1>3, <1>4, TypeInvIs DEF DataFits
  <1>6. clash' \in BOOLEAN /\ lost' \in BOOLEAN /\ fresh' \in BOOLEAN
    BY <1>4, TypeInvIs DEF CountsFit
  <1> QED  BY <1>2, <1>4, <1>5, <1>6, QuietTyped

LEMMA SeedTyped ==
  ASSUME TypeInv, NEW p \in Process, SeedLabel(p)
  PROVE  TypeInv'
PROOF
  <1>1. SyncsFit /\ sync \in Syncs  BY TypeInvIs DEF SyncsFit
  <1>2. /\ sync[p].step \in Step /\ sync[p].seeds \in SUBSET Name /\ sync[p].labels \in Names
        /\ sync[p].rows \in SUBSET Row /\ IsFiniteSet(sync[p].rows)
        /\ sync[p].tags \in Seq(Tag) /\ Len(sync[p].tags) <= MaxTags
        /\ sync[p].found \in SUBSET Tagged
    BY <1>1, SyncTyped
  <1>3. PICK name \in sync[p].seeds :
          \/ /\ Rests(p) /\ lost' /\ labels' = labels
             /\ webhooks' = IF p = "worker" THEN webhooks - 1 ELSE webhooks
          \/ /\ \A k \in Label : labels[k] # name
             /\ \E l \in Label :
                  /\ Unused(l) /\ labels' = [labels EXCEPT ![l] = name]
                  /\ Becomes(p, IF sync[p].seeds = {name} THEN "stored" ELSE "seed",
                             sync[p].seeds \ {name}, [sync[p].labels EXCEPT ![l] = name],
                             sync[p].rows, sync[p].tags, sync[p].found)
             /\ webhooks' = webhooks + 1 /\ lost' = lost
    BY <1>1, SeedLabelMoves
  <1>4. /\ tags' = tags /\ lastTag' = lastTag /\ rows' = rows
        /\ clash' = clash /\ fresh' = fresh /\ Outside
        /\ UNCHANGED <<starts, faults>> /\ sync[p].step # "none"
    BY DEF SeedLabel, At
  <1>5. labels \in Names  BY TypeInvIs DEF DataFits
  <1>6. clash' \in BOOLEAN /\ fresh' \in BOOLEAN /\ lost \in BOOLEAN
    BY <1>4, TypeInvIs DEF CountsFit
  <1>7. CASE /\ Rests(p) /\ lost' /\ labels' = labels
             /\ webhooks' = IF p = "worker" THEN webhooks - 1 ELSE webhooks
    <2>1. SyncsFit' /\ sync'[p] = Idle /\ \A q \in Process : q # p => sync'[q] = sync[q]
      BY <1>1, <1>7, RestFits
    <2>2. DataFits'  BY <1>4, <1>7, TypeInvIs DEF DataFits
    <2>3. lost' \in BOOLEAN
      <3>1. lost' = TRUE \/ lost' = lost  BY DEF SeedLabel
      <3> QED  BY <1>6, <3>1
    <2> QED  BY <1>4, <1>6, <1>7, <2>1, <2>2, <2>3, QuietTyped
  <1>8. CASE /\ \E l \in Label :
                  /\ Unused(l) /\ labels' = [labels EXCEPT ![l] = name]
                  /\ Becomes(p, IF sync[p].seeds = {name} THEN "stored" ELSE "seed",
                             sync[p].seeds \ {name}, [sync[p].labels EXCEPT ![l] = name],
                             sync[p].rows, sync[p].tags, sync[p].found)
             /\ webhooks' = webhooks + 1 /\ lost' = lost
    <2>1. PICK l \in Label :
            /\ labels' = [labels EXCEPT ![l] = name]
            /\ Becomes(p, IF sync[p].seeds = {name} THEN "stored" ELSE "seed",
                       sync[p].seeds \ {name}, [sync[p].labels EXCEPT ![l] = name],
                       sync[p].rows, sync[p].tags, sync[p].found)
      BY <1>8
    <2>2. name \in Name  BY <1>2
    <2>3. labels' \in Names /\ [sync[p].labels EXCEPT ![l] = name] \in Names
      BY <1>2, <1>5, <2>1, <2>2 DEF Names
    <2> DEFINE step == IF sync[p].seeds = {name} THEN "stored" ELSE "seed"
               list == [sync[p].labels EXCEPT ![l] = name]
    <2>4. step \in Step /\ step # "none"  BY DEF Step
    <2>5. Becomes(p, step, sync[p].seeds \ {name}, list, sync[p].rows, sync[p].tags, sync[p].found)
      BY <2>1
    <2>6. list \in Names  BY <2>3
    <2> HIDE DEF step, list
    <2>7. SyncsFit' /\ \A q \in Process : q # p => sync'[q] = sync[q]
      BY <1>1, <1>2, <2>4, <2>5, <2>6, MoveFits
    <2>8. DataFits'  BY <1>4, <2>3, TypeInvIs DEF DataFits
    <2>9. lost' \in BOOLEAN  BY <1>6, <1>8
    <2> QED  BY <1>4, <1>6, <1>8, <2>7, <2>8, <2>9, QuietTyped
  <1> QED  BY <1>3, <1>7, <1>8

LEMMA EditTyped ==
  ASSUME TypeInv, NEW p \in Process, EditForum(p)
  PROVE  TypeInv'
PROOF
  <1>1. SyncsFit /\ sync \in Syncs  BY TypeInvIs DEF SyncsFit
  <1>2. /\ sync[p].seeds \in SUBSET Name /\ sync[p].labels \in Names
        /\ sync[p].rows \in SUBSET Row /\ IsFiniteSet(sync[p].rows)
    BY <1>1, SyncTyped
  <1>3. PICK plan : plan = Planned(p)  OBVIOUS
  <1>4. \/ /\ Rests(p) /\ lost' /\ tags' = tags /\ lastTag' = lastTag
           /\ webhooks' = IF p = "worker" THEN webhooks - 1 ELSE webhooks
        \/ /\ tags' = IF Given(plan) = sync[p].tags THEN tags ELSE Given(plan)
           /\ lastTag' = lastTag + Cardinality(MadeBy(plan))
           /\ Becomes(p, "bind", sync[p].seeds, sync[p].labels, sync[p].rows, <<>>, FoundOf(plan))
           /\ webhooks' = webhooks /\ lost' = lost
    BY <1>1, <1>3, EditForumMoves
  <1>5. /\ labels' = labels /\ rows' = rows /\ clash' = clash /\ fresh' = fresh /\ Outside
        /\ UNCHANGED <<starts, faults>> /\ sync[p].step # "none"
    BY DEF EditForum, At
  <1>6. clash' \in BOOLEAN /\ fresh' \in BOOLEAN /\ lost \in BOOLEAN
    BY <1>5, TypeInvIs DEF CountsFit
  <1>7. lost' \in BOOLEAN
    <2>1. lost' = TRUE \/ lost' = lost  BY DEF EditForum
    <2> QED  BY <1>6, <2>1
  <1>8. CASE /\ Rests(p) /\ lost' /\ tags' = tags /\ lastTag' = lastTag
             /\ webhooks' = IF p = "worker" THEN webhooks - 1 ELSE webhooks
    <2>1. SyncsFit' /\ sync'[p] = Idle /\ \A q \in Process : q # p => sync'[q] = sync[q]
      BY <1>1, <1>8, RestFits
    <2>2. DataFits'  BY <1>5, <1>8, TypeInvIs DEF DataFits
    <2> QED  BY <1>5, <1>6, <1>7, <1>8, <2>1, <2>2, QuietTyped
  <1>9. CASE /\ tags' = IF Given(plan) = sync[p].tags THEN tags ELSE Given(plan)
             /\ lastTag' = lastTag + Cardinality(MadeBy(plan))
             /\ Becomes(p, "bind", sync[p].seeds, sync[p].labels, sync[p].rows, <<>>, FoundOf(plan))
             /\ webhooks' = webhooks /\ lost' = lost
    <2>1. lastTag \in TagId  BY TypeInvIs DEF DataFits
    <2>2. /\ Given(plan) \in Seq(Tag) /\ Len(Given(plan)) <= MaxTags
          /\ Cardinality(MadeBy(plan)) \in Nat /\ FoundOf(plan) \in SUBSET Tagged
      BY <1>1, <1>3, <2>1, GivenFacts
    <2>3. /\ "bind" \in Step /\ "bind" # "none" /\ <<>> \in Seq(Tag) /\ Len(<<>>) <= MaxTags
      BY BoundAssumption DEF Step
    <2>4. SyncsFit' /\ \A q \in Process : q # p => sync'[q] = sync[q]
      BY <1>1, <1>2, <1>9, <2>2, <2>3, MoveFits
    <2>5. tags' \in Seq(Tag) /\ Len(tags') <= MaxTags
      <3>1. tags \in Seq(Tag) /\ Len(tags) <= MaxTags  BY TypeInvIs DEF DataFits
      <3> QED  BY <1>9, <2>2, <3>1
    <2>6. lastTag' \in TagId  BY <1>9, <2>1, <2>2 DEF TagId
    <2>7. DataFits'  BY <1>5, <2>5, <2>6, TypeInvIs DEF DataFits
    <2> QED  BY <1>5, <1>6, <1>7, <1>9, <2>4, <2>7, QuietTyped
  <1> QED  BY <1>4, <1>8, <1>9

LEMMA BindTyped ==
  ASSUME TypeInv, NEW p \in Process, BindTags(p)
  PROVE  TypeInv'
PROOF
  <1>1. SyncsFit /\ sync \in Syncs  BY TypeInvIs DEF SyncsFit
  <1>2. PICK bindings, found : bindings = Active(sync[p].rows) /\ found = sync[p].found  OBVIOUS
  <1>3. /\ Rests(p) /\ webhooks' = IF p = "worker" THEN webhooks - 1 ELSE webhooks
        /\ \/ rows' = {r \in Updated(rows, bindings, found, Places) : ~r.stale}
           \/ rows' = rows
    BY <1>1, <1>2, BindTagsMoves
  <1>4. SyncsFit' /\ sync'[p] = Idle /\ \A q \in Process : q # p => sync'[q] = sync[q]
    BY <1>1, <1>3, RestFits
  <1>5. /\ labels' = labels /\ tags' = tags /\ lastTag' = lastTag /\ fresh' = fresh
        /\ lost' = lost /\ Outside /\ UNCHANGED <<starts, faults>> /\ sync[p].step # "none"
    BY DEF BindTags, At
  <1>6. fresh' \in BOOLEAN /\ lost' \in BOOLEAN  BY <1>5, TypeInvIs DEF CountsFit
  <1>7. clash' \in BOOLEAN
    <2>1. clash' = TRUE \/ clash' = clash  BY DEF BindTags
    <2> QED  BY <2>1, TypeInvIs DEF CountsFit
  <1>8. rows' \in SUBSET Row /\ IsFiniteSet(rows')
    <2>1. rows \in SUBSET Row /\ IsFiniteSet(rows)  BY TypeInvIs DEF DataFits
    <2>2. found \in SUBSET Tagged  BY <1>1, <1>2, SyncTyped
    <2> DEFINE table == Updated(rows, bindings, found, Places)
    <2>3. table \in SUBSET Row /\ IsFiniteSet(table)  BY <2>1, <2>2, UpdatedTyped
    <2> HIDE DEF table
    <2>4. {r \in table : ~r.stale} \in SUBSET table  OBVIOUS
    <2>5. IsFiniteSet({r \in table : ~r.stale})  BY <2>3, <2>4, FS_Subset
    <2>6. rows' = {r \in table : ~r.stale} \/ rows' = rows  BY <1>3 DEF table
    <2> QED  BY <2>1, <2>3, <2>5, <2>6
  <1>9. DataFits'  BY <1>5, <1>8, TypeInvIs DEF DataFits
  <1> QED  BY <1>3, <1>4, <1>5, <1>6, <1>7, <1>9, QuietTyped

LEMMA NextTypeInv == TypeInv /\ [Next]_vars => TypeInv'
PROOF
  <1> SUFFICES ASSUME TypeInv, [Next]_vars PROVE TypeInv'  OBVIOUS
  <1>1. ASSUME CreateLabel \/ RenameLabel PROVE TypeInv'
    <2>1. PICK l \in Label, w \in 1..MaxWord : UserActs(l, Plain(w))
      BY <1>1 DEF CreateLabel, RenameLabel, Live
    <2>2. Plain(w) \in Name  BY DEF Name
    <2> QED  BY <2>1, <2>2, UserTyped
  <1>2. CASE DeleteLabel  BY <1>2, DeleteLabelTyped
  <1>3. CASE CreateTag \/ RenameTag \/ DeleteTag  BY <1>3, ModeratorTyped
  <1>4. CASE StartOperator \/ StartWorker  BY <1>4, BeginTyped
  <1>5. CASE GiveUp
    <2>1. "worker" \in Process  BY DEF Process
    <2> QED  BY <1>5, <2>1, FaultTyped
  <1>6. ASSUME NEW p \in Process, Interrupt(p) PROVE TypeInv'  BY <1>6, FaultTyped
  <1>7. ASSUME NEW p \in Process,
               ReadNames(p) \/ ReadLabels(p) \/ ReadStored(p) \/ ReadForum(p) \/ ReadBindings(p)
        PROVE  TypeInv'
    BY <1>7, ReadTyped
  <1>8. ASSUME NEW p \in Process, SeedLabel(p) \/ ReplaceRows(p) \/ EditForum(p) \/ BindTags(p)
        PROVE  TypeInv'
    BY <1>8, SeedTyped, ReplaceTyped, EditTyped, BindTyped
  <1>9. CASE UNCHANGED vars
    BY <1>9 DEF vars, TypeInv, DataFits, WorkFits, CountsFit, SyncsFit
  <1> QED  BY <1>1, <1>2, <1>3, <1>4, <1>5, <1>6, <1>7, <1>8, <1>9 DEF Next

\* The variables keep their types, the forum never has more tags than Discord allows, and what a
\* synchronization has read is finite.
THEOREM TypeInvHolds == Spec => []TypeInv
PROOF
  <1>1. Init => TypeInv  BY InitTypeInv
  <1>2. TypeInv /\ [Next]_vars => TypeInv'  BY NextTypeInv
  <1> QED  BY <1>1, <1>2, PTL DEF Spec

----------------------------------------------------------------------------
\* Whatever runs at the same time: the table, and what a synchronization holds.

LEMMA HeldRests ==
  ASSUME NEW p \in Process, sync'[p].step \in {"none", "names", "labels", "forum"}
  PROVE  HeldInv(p)'
PROOF  BY DEF HeldInv

\* What has been made stays made.
Grows ==
  /\ lastTag' \in Nat /\ lastTag <= lastTag'
  /\ \A k \in Label : Known(k) => Known(k)'

LEMMA HeldKeeps ==
  ASSUME TypeInv, Grows, NEW p \in Process, HeldInv(p), sync'[p] = sync[p]
  PROVE  HeldInv(p)'
PROOF
  <1>1. /\ sync[p].labels \in Names /\ sync[p].rows \in SUBSET Row /\ sync[p].tags \in Seq(Tag)
        /\ sync[p].found \in SUBSET Tagged /\ lastTag \in Nat
    BY SyncTyped DEF TypeInv, DataFits, TagId
  <1>2. lastTag' \in Nat /\ lastTag <= lastTag'  BY DEF Grows
  <1>3. sync[p].step \in {"seed", "stored", "replace"} =>
          /\ Distinct(sync[p].labels)
          /\ \A l \in Live(sync[p].labels) : Known(l)' /\ sync[p].labels[l] \notin sync[p].seeds
    BY DEF HeldInv, Grows, Live
  <1>4. ASSUME sync[p].step = "replace"
        PROVE  OneRow(sync[p].rows) /\ Unique(sync[p].rows) /\ Past(sync[p].rows)'
    <2>1. \A r \in sync[p].rows : r.label \in Label /\ r.tag \in Nat  BY <1>1 DEF Row, TagId
    <2>2. \A r \in sync[p].rows : Known(r.label)' /\ r.tag <= lastTag'
      BY <1>1, <1>2, <1>4, <2>1 DEF HeldInv, Grows, Past
    <2>3. sync'[p].rows = sync[p].rows  OBVIOUS
    <2> QED  BY <1>4, <2>2, <2>3 DEF HeldInv, Past
  <1>5. sync[p].step \in {"bindings", "edit"} =>
          \A i \in DOMAIN sync[p].tags : sync[p].tags[i].id \in 1..lastTag'
    BY <1>1, <1>2 DEF HeldInv
  <1>6. sync[p].step = "bind" => \A f \in sync[p].found : f.tag <= lastTag'
    BY <1>1, <1>2 DEF HeldInv, Tagged, TagId
  <1> QED  BY <1>3, <1>4, <1>5, <1>6 DEF HeldInv, Past

\* A step of p alone.
LEMMA MovedHolds ==
  ASSUME TypeInv, Always, Grows, NEW p \in Process, \A q \in Process : q # p => sync'[q] = sync[q],
         TableInv', HeldInv(p)'
  PROVE  Always'
PROOF
  <1>1. ASSUME NEW q \in Process PROVE HeldInv(q)'
    <2>1. CASE q = p  BY <2>1
    <2>2. CASE q # p
      <3>1. sync'[q] = sync[q]  BY <2>2
      <3> QED  BY <3>1, HeldKeeps DEF Always
    <2> QED  BY <2>1, <2>2
  <1> QED  BY <1>1 DEF Always

\* A step that leaves both synchronizations alone.
LEMMA OutsideHolds ==
  ASSUME TypeInv, Always, Grows, sync' = sync, TableInv'
  PROVE  Always'
PROOF  BY HeldKeeps DEF Always

\* A table that no step has touched.
LEMMA TableRests ==
  ASSUME TypeInv, Always, rows' = rows, labels' = labels, tags' = tags, lastTag' = lastTag
  PROVE  TableInv' /\ Grows
PROOF
  <1>1. lastTag \in Nat  BY DEF TypeInv, DataFits, TagId
  <1>2. Grows  BY <1>1 DEF Grows, Known
  <1> QED  BY <1>2 DEF Always, TableInv, Past, Known

\* The labels change: no label that a row may have comes back to life.
LabelsMove ==
  /\ Distinct(labels')
  /\ \A k \in Label : Known(k) => Known(k)'
  /\ \A k \in Label : Known(k) /\ labels'[k] # NoName => labels[k] # NoName

LEMMA LabelMoves ==
  ASSUME labels \in Names, TableInv, NEW l \in Label, NEW name, name # NoName,
         Unused(l) \/ l \in Live(labels), \A k \in Label : labels[k] # name,
         labels' = [labels EXCEPT ![l] = name]
  PROVE  LabelsMove /\ Live(labels') = Live(labels) \cup {l}
PROOF
  <1>1. labels'[l] = name /\ \A k \in Label : k # l => labels'[k] = labels[k]  BY DEF Names
  <1>2. Live(labels') = Live(labels) \cup {l}  BY <1>1 DEF Live
  <1>3. Distinct(labels')
    <2>1. Distinct(labels)  BY DEF TableInv
    <2> QED  BY <1>1, <1>2, <2>1 DEF Distinct, Live
  <1>4. \A k \in Label : Known(k) => Known(k)'  BY <1>2 DEF Known
  <1>5. ASSUME NEW k \in Label, Known(k), labels'[k] # NoName PROVE labels[k] # NoName
    <2>1. CASE k # l  BY <1>1, <1>5, <2>1
    <2>2. CASE k = l /\ l \in Live(labels)  BY <2>2 DEF Live
    <2>3. CASE k = l /\ Unused(l)
      <3>1. PICK j \in Live(labels) : k <= j  BY <1>5 DEF Known
      <3>2. j < l  BY <2>3, <3>1 DEF Unused
      <3>3. j \in Nat /\ l \in Nat  BY <3>1, LabelAssumption DEF Live
      <3> QED  BY <2>3, <3>1, <3>2, <3>3
    <2> QED  BY <2>1, <2>2, <2>3
  <1> QED  BY <1>2, <1>3, <1>4, <1>5 DEF LabelsMove

LEMMA DeletionMoves ==
  ASSUME labels \in Names, TableInv, NEW l \in Live(labels), \E k \in Live(labels) : l < k,
         labels' = [labels EXCEPT ![l] = NoName]
  PROVE  LabelsMove
PROOF
  <1>1. l \in Label /\ Live(labels) \subseteq Label  BY DEF Live
  <1>2. labels'[l] = NoName /\ \A k \in Label : k # l => labels'[k] = labels[k]
    BY <1>1 DEF Names
  <1>3. Live(labels') = Live(labels) \ {l}  BY <1>1, <1>2 DEF Live
  <1>4. Distinct(labels')
    <2>1. Distinct(labels)  BY DEF TableInv
    <2> QED  BY <1>1, <1>2, <1>3, <2>1 DEF Distinct
  <1>5. ASSUME NEW k \in Label, Known(k) PROVE Known(k)'
    <2>1. PICK j \in Live(labels) : k <= j  BY <1>5 DEF Known
    <2>2. PICK m \in Live(labels) : l < m  OBVIOUS
    <2>3. k \in Nat /\ j \in Nat /\ l \in Nat /\ m \in Nat  BY <1>1, LabelAssumption
    <2>4. CASE j # l  BY <1>3, <2>1, <2>4 DEF Known
    <2>5. CASE j = l
      <3>1. k <= m /\ m # l  BY <2>1, <2>2, <2>3, <2>5
      <3> QED  BY <1>3, <3>1 DEF Known
    <2> QED  BY <2>4, <2>5
  <1>6. \A k \in Label : Known(k) /\ labels'[k] # NoName => labels[k] # NoName  BY <1>2
  <1> QED  BY <1>4, <1>5, <1>6 DEF LabelsMove

LEMMA UserMoves ==
  ASSUME TypeInv, TableInv, CreateLabel \/ RenameLabel
  PROVE  LabelsMove
PROOF
  <1>1. PICK l \in Label, w \in 1..MaxWord :
          (Unused(l) \/ l \in Live(labels)) /\ UserActs(l, Plain(w))
    BY DEF CreateLabel, RenameLabel, Live
  <1>2. Plain(w) # NoName
    <2>1. Plain(w) \in Name  BY DEF Name
    <2> QED  BY <2>1, NameFacts
  <1>3. \A k \in Label : labels[k] # Plain(w)  BY <1>1 DEF UserActs
  <1>4. labels \in Names /\ labels' = [labels EXCEPT ![l] = Plain(w)]
    BY <1>1, TypeInvIs DEF UserActs, DataFits
  <1> QED  BY <1>1, <1>2, <1>3, <1>4, LabelMoves

LEMMA DeleteLabelMoves ==
  ASSUME TypeInv, TableInv, DeleteLabel
  PROVE  LabelsMove
PROOF
  <1>1. PICK l \in Live(labels) : /\ \E k \in Live(labels) : l < k
                                  /\ labels' = [labels EXCEPT ![l] = NoName]
    BY DEF DeleteLabel
  <1> QED  BY <1>1, DeletionMoves, TypeInvIs DEF DataFits

LEMMA LabelsKeepTable ==
  ASSUME TypeInv, TableInv, LabelsMove, rows' = rows, tags' = tags, lastTag' = lastTag
  PROVE  TableInv' /\ Grows
PROOF
  <1>1. (\A r \in rows : r.label \in Label) /\ lastTag \in Nat
    BY TypeInvIs DEF DataFits, Row, TagId
  <1>2. \A r \in rows : Known(r.label) /\ r.tag <= lastTag  BY DEF TableInv, Past
  <1>3. \A r \in rows : Known(r.label)'  BY <1>1, <1>2 DEF LabelsMove
  <1>4. OneRow(rows) /\ Unique(rows) /\ Placed(rows)
        /\ \A i \in DOMAIN tags : tags[i].id \in 1..lastTag
    BY DEF TableInv
  <1>5. Distinct(labels')  BY DEF LabelsMove
  <1>6. Past(rows)'  BY <1>2, <1>3 DEF Past
  <1>7. TableInv'  BY <1>4, <1>5, <1>6 DEF TableInv
  <1>8. Grows  BY <1>1 DEF Grows, LabelsMove
  <1> QED  BY <1>7, <1>8

LEMMA UserHolds ==
  ASSUME TypeInv, Always, CreateLabel \/ RenameLabel \/ DeleteLabel
  PROVE  Always'
PROOF
  <1>1. sync' = sync /\ rows' = rows /\ tags' = tags /\ lastTag' = lastTag
    BY DEF CreateLabel, RenameLabel, DeleteLabel, UserActs, relay
  <1>2. LabelsMove  BY UserMoves, DeleteLabelMoves DEF Always
  <1>3. TableInv' /\ Grows  BY <1>1, <1>2, LabelsKeepTable DEF Always
  <1> QED  BY <1>1, <1>3, OutsideHolds

\* A moderator changes the tags: no tag that a row may have comes back.
TagsMove ==
  /\ lastTag <= lastTag' /\ lastTag' \in Nat
  /\ \A i \in DOMAIN tags' : tags'[i].id \in 1..lastTag'
  /\ \A id \in Ids(tags') : id <= lastTag => id \in Ids(tags)

LEMMA ModeratorMoves ==
  ASSUME TypeInv, TableInv, CreateTag \/ RenameTag \/ DeleteTag
  PROVE  TagsMove
PROOF
  <1>1. tags \in Seq(Tag) /\ lastTag \in Nat  BY TypeInvIs DEF DataFits, TagId
  <1>2. \A i \in DOMAIN tags : tags[i].id \in 1..lastTag  BY DEF TableInv
  <1>3. Ids(tags) \subseteq 1..lastTag  BY <1>2 DEF Ids
  <1>4. CASE CreateTag
    <2>1. PICK w \in 1..MaxWord : tags' = Append(tags, [id |-> lastTag', name |-> Plain(w)])
      BY <1>4 DEF CreateTag
    <2>2. lastTag' = lastTag + 1  BY <1>4 DEF CreateTag
    <2> DEFINE tag == [id |-> lastTag', name |-> Plain(w)]
    <2>3. tag.id = lastTag + 1  BY <2>2
    <2>4. tag \in Tag  BY <1>1, <2>2 DEF Tag, TagId, Name
    <2>5. tags' = Append(tags, tag)  BY <2>1
    <2> HIDE DEF tag
    <2>6. /\ DOMAIN tags' = 1..(Len(tags) + 1) /\ DOMAIN tags = 1..Len(tags) /\ Len(tags) \in Nat
          /\ \A i \in 1..Len(tags) : tags'[i] = tags[i]
          /\ tags'[Len(tags) + 1] = tag
      BY <1>1, <2>4, <2>5
    <2>7. \A i \in DOMAIN tags' : tags'[i].id \in 1..lastTag'
      BY <1>1, <1>2, <2>2, <2>3, <2>6
    <2>8. \A i \in DOMAIN tags' : tags'[i].id <= lastTag => i \in 1..Len(tags)
      BY <1>1, <2>3, <2>6
    <2>9. \A id \in Ids(tags') : id <= lastTag => id \in Ids(tags)  BY <2>6, <2>8 DEF Ids
    <2> QED  BY <1>1, <2>2, <2>7, <2>9 DEF TagsMove
  <1>5. CASE RenameTag \/ DeleteTag
    <2>1. lastTag' = lastTag  BY <1>5 DEF RenameTag, DeleteTag
    <2>2. Ids(tags') \subseteq Ids(tags)
      <3>1. CASE RenameTag
        <4>1. PICK i \in DOMAIN tags, w \in 1..MaxWord : tags' = [tags EXCEPT ![i].name = Plain(w)]
          BY <3>1 DEF RenameTag
        <4>2. DOMAIN tags' = DOMAIN tags /\ \A j \in DOMAIN tags : tags[j] \in Tag  BY <1>1, <4>1
        <4>3. \A j \in DOMAIN tags : tags'[j].id = tags[j].id
          <5>1. \A j \in DOMAIN tags : j # i => tags'[j] = tags[j]  BY <4>1
          <5>2. tags'[i] = [tags[i] EXCEPT !.name = Plain(w)]  BY <4>1
          <5>3. tags'[i].id = tags[i].id  BY <4>2, <5>2 DEF Tag
          <5> QED  BY <5>1, <5>3
        <4> QED  BY <4>2, <4>3 DEF Ids
      <3>2. CASE DeleteTag
        <4>1. PICK i \in DOMAIN tags : tags' = Without(tags, {tags[i].id})
          BY <3>2 DEF DeleteTag
        <4> QED  BY <1>1, <4>1, WithoutIds
      <3> QED  BY <1>5, <3>1, <3>2
    <2>3. \A i \in DOMAIN tags' : tags'[i].id \in Ids(tags')  BY DEF Ids
    <2>4. \A i \in DOMAIN tags' : tags'[i].id \in 1..lastTag'  BY <1>3, <2>1, <2>2, <2>3
    <2> QED  BY <1>1, <2>1, <2>2, <2>4 DEF TagsMove
  <1> QED  BY <1>4, <1>5

\* The table after the forum has changed: the ids its rows have are still old ones.
LEMMA TagsKeepTable ==
  ASSUME TypeInv, TableInv, lastTag <= lastTag', lastTag' \in Nat,
         \A i \in DOMAIN tags' : tags'[i].id \in 1..lastTag', rows' = rows, labels' = labels
  PROVE  TableInv' /\ Grows
PROOF
  <1>1. \A r \in rows : r.tag \in Nat /\ lastTag \in Nat  BY TypeInvIs DEF DataFits, Row, TagId
  <1>2. \A r \in rows : Known(r.label) /\ r.tag <= lastTag  BY DEF TableInv, Past
  <1>3. \A r \in rows : Known(r.label)'  BY <1>2 DEF Known
  <1>4. \A r \in rows : r.tag <= lastTag'  BY <1>1, <1>2
  <1>5. OneRow(rows) /\ Unique(rows) /\ Placed(rows) /\ Distinct(labels)  BY DEF TableInv
  <1>6. TableInv'  BY <1>3, <1>4, <1>5 DEF TableInv, Past
  <1>7. Grows  BY DEF Grows, Known
  <1> QED  BY <1>6, <1>7

LEMMA ModeratorHolds ==
  ASSUME TypeInv, Always, CreateTag \/ RenameTag \/ DeleteTag
  PROVE  Always'
PROOF
  <1>1. sync' = sync /\ rows' = rows /\ labels' = labels
    BY DEF CreateTag, RenameTag, DeleteTag, ModeratorActs, relay
  <1>2. TagsMove  BY ModeratorMoves DEF Always
  <1>3. TableInv' /\ Grows  BY <1>1, <1>2, TagsKeepTable DEF Always, TagsMove
  <1> QED  BY <1>1, <1>3, OutsideHolds

\* What Begin leaves: p is at its first step.
LEMMA Begun ==
  ASSUME TypeInv, NEW p \in Process, NEW seeding \in BOOLEAN, Begin(p, seeding)
  PROVE  /\ sync'[p].step \in {"names", "labels"} /\ sync'[p] # Idle
         /\ \A q \in Process : q # p => sync'[q] = sync[q]
PROOF
  <1>1. sync \in Syncs  BY TypeInvIs DEF SyncsFit
  <1> DEFINE step == IF seeding THEN "names" ELSE "labels"
  <1>2. Becomes(p, step, {}, NoNames, {}, <<>>, {})  BY <1>1, BeginMoves
  <1>3. step \in {"names", "labels"}  OBVIOUS
  <1> HIDE DEF step
  <1>4. sync'[p].step = step /\ \A q \in Process : q # p => sync'[q] = sync[q]
    BY <1>1, <1>2, BecomesTyped
  <1>5. sync'[p] # Idle  BY <1>3, <1>4 DEF Idle
  <1> QED  BY <1>3, <1>4, <1>5

LEMMA BeginHolds ==
  ASSUME TypeInv, Always, StartOperator \/ StartWorker
  PROVE  Always'
PROOF
  <1>1. PICK p \in Process, seeding \in BOOLEAN : Begin(p, seeding)
    BY DEF StartOperator, StartWorker, Process
  <1>2. /\ sync'[p].step \in {"names", "labels"}
        /\ \A q \in Process : q # p => sync'[q] = sync[q]
    BY <1>1, Begun
  <1>3. HeldInv(p)'  BY <1>2, HeldRests
  <1>4. TableInv' /\ Grows  BY <1>1, TableRests DEF Begin
  <1> QED  BY <1>2, <1>3, <1>4, MovedHolds

LEMMA Faulted ==
  ASSUME TypeInv, NEW p \in Process, Interrupt(p) \/ (p = "worker" /\ GiveUp)
  PROVE  /\ sync[p] # Idle /\ sync[p].step # "none" /\ sync'[p] = Idle /\ sync'[p].step = "none"
         /\ \A q \in Process : q # p => sync'[q] = sync[q]
PROOF
  <1>1. SyncsFit /\ sync \in Syncs  BY TypeInvIs DEF SyncsFit
  <1>2. sync' = [sync EXCEPT ![p] = Idle] /\ sync[p] # Idle  BY DEF Interrupt, GiveUp, End
  <1>3. sync'[p] = Idle /\ \A q \in Process : q # p => sync'[q] = sync[q]  BY <1>1, <1>2 DEF Syncs
  <1>4. sync[p].step # "none"  BY <1>1, <1>2 DEF SyncsFit
  <1> QED  BY <1>2, <1>3, <1>4 DEF Idle

LEMMA FaultHolds ==
  ASSUME TypeInv, Always, NEW p \in Process, Interrupt(p) \/ (p = "worker" /\ GiveUp)
  PROVE  Always'
PROOF
  <1>1. sync'[p].step = "none" /\ \A q \in Process : q # p => sync'[q] = sync[q]  BY Faulted
  <1>2. HeldInv(p)'  BY <1>1, HeldRests
  <1>3. TableInv' /\ Grows  BY TableRests DEF Interrupt, GiveUp
  <1> QED  BY <1>1, <1>2, <1>3, MovedHolds

\* What the reads leave.
LEMMA NamesRead ==
  ASSUME TypeInv, NEW p \in Process, ReadNames(p)
  PROVE  sync'[p].step = "labels" /\ \A q \in Process : q # p => sync'[q] = sync[q]
PROOF
  <1>1. sync \in Syncs  BY TypeInvIs DEF SyncsFit
  <1> DEFINE seeds == {tags[i].name : i \in DOMAIN tags}
  <1>2. Becomes(p, "labels", seeds, sync[p].labels, sync[p].rows, sync[p].tags, sync[p].found)
    BY <1>1, ReadNamesMoves
  <1> HIDE DEF seeds
  <1> QED  BY <1>1, <1>2, BecomesTyped

LEMMA LabelsRead ==
  ASSUME TypeInv, NEW p \in Process, ReadLabels(p)
  PROVE  /\ sync'[p].step \in {"seed", "stored"} /\ sync'[p].seeds = Missing(p)
         /\ sync'[p].labels = labels /\ \A q \in Process : q # p => sync'[q] = sync[q]
PROOF
  <1>1. sync \in Syncs  BY TypeInvIs DEF SyncsFit
  <1> DEFINE step == IF Missing(p) = {} THEN "stored" ELSE "seed"
  <1>2. Becomes(p, step, Missing(p), labels, sync[p].rows, sync[p].tags, sync[p].found)
    BY <1>1, ReadLabelsMoves
  <1>3. step \in {"seed", "stored"}  OBVIOUS
  <1> HIDE DEF step
  <1> QED  BY <1>1, <1>2, <1>3, BecomesTyped

LEMMA StoredRead ==
  ASSUME TypeInv, NEW p \in Process, ReadStored(p)
  PROVE  /\ sync'[p].step = "replace" /\ sync'[p].seeds = sync[p].seeds
         /\ sync'[p].labels = sync[p].labels /\ sync'[p].rows = rows
         /\ \A q \in Process : q # p => sync'[q] = sync[q]
PROOF  BY TypeInvIs, ReadStoredMoves, BecomesTyped DEF SyncsFit

LEMMA ForumRead ==
  ASSUME TypeInv, NEW p \in Process, ReadForum(p)
  PROVE  /\ sync'[p].step = "bindings" /\ sync'[p].tags = tags
         /\ \A q \in Process : q # p => sync'[q] = sync[q]
PROOF  BY TypeInvIs, ReadForumMoves, BecomesTyped DEF SyncsFit

LEMMA BindingsRead ==
  ASSUME TypeInv, NEW p \in Process, ReadBindings(p)
  PROVE  /\ sync'[p].step = "edit" /\ sync'[p].tags = sync[p].tags /\ sync'[p].rows = rows
         /\ \A q \in Process : q # p => sync'[q] = sync[q]
PROOF  BY TypeInvIs, ReadBindingsMoves, BecomesTyped DEF SyncsFit

LEMMA ReadHolds ==
  ASSUME TypeInv, Always, NEW p \in Process,
         ReadNames(p) \/ ReadLabels(p) \/ ReadStored(p) \/ ReadForum(p) \/ ReadBindings(p)
  PROVE  Always'
PROOF
  <1>1. /\ rows' = rows /\ labels' = labels /\ tags' = tags /\ lastTag' = lastTag
    BY DEF ReadNames, ReadLabels, ReadStored, ReadForum, ReadBindings
  <1>2. TableInv' /\ Grows  BY <1>1, TableRests
  <1>3. TableInv /\ HeldInv(p)  BY DEF Always
  <1>4. \A q \in Process : q # p => sync'[q] = sync[q]
    BY NamesRead, LabelsRead, StoredRead, ForumRead, BindingsRead
  <1>5. HeldInv(p)'
    <2>1. CASE ReadNames(p)
      <3>1. sync'[p].step = "labels"  BY <2>1, NamesRead
      <3> QED  BY <3>1, HeldRests
    <2>2. CASE ReadLabels(p)
      <3>1. sync'[p].step \in {"seed", "stored"} /\ sync'[p].seeds = Missing(p)
            /\ sync'[p].labels = labels
        BY <2>2, LabelsRead
      <3>2. ASSUME NEW l \in Live(labels) PROVE Known(l)' /\ labels[l] \notin Missing(p)
        <4>1. l <= l  BY LabelAssumption DEF Live
        <4>2. Known(l)'  BY <1>1, <4>1 DEF Known
        <4> QED  BY <4>2 DEF Missing
      <3>3. Distinct(labels)  BY <1>3 DEF TableInv
      <3> QED  BY <3>1, <3>2, <3>3 DEF HeldInv
    <2>3. CASE ReadStored(p)
      <3>1. /\ sync'[p].step = "replace" /\ sync'[p].seeds = sync[p].seeds
            /\ sync'[p].labels = sync[p].labels /\ sync'[p].rows = rows
        BY <2>3, StoredRead
      <3>2. sync[p].step = "stored"  BY <2>3 DEF ReadStored, At
      <3>3. OneRow(rows) /\ Unique(rows) /\ Past(rows)'
        BY <1>1, <1>3 DEF TableInv, Past, Known
      <3>4. /\ Distinct(sync[p].labels)
            /\ \A l \in Live(sync[p].labels) : Known(l)' /\ sync[p].labels[l] \notin sync[p].seeds
        BY <1>1, <1>3, <3>2 DEF HeldInv, Known
      <3> QED  BY <1>1, <3>1, <3>3, <3>4 DEF HeldInv, Past
    <2>4. CASE ReadForum(p)
      <3>1. sync'[p].step = "bindings" /\ sync'[p].tags = tags  BY <2>4, ForumRead
      <3> QED  BY <1>1, <1>3, <3>1 DEF HeldInv, TableInv
    <2>5. CASE ReadBindings(p)
      <3>1. sync'[p].step = "edit" /\ sync'[p].tags = sync[p].tags  BY <2>5, BindingsRead
      <3>2. sync[p].step = "bindings"  BY <2>5 DEF ReadBindings, At
      <3> QED  BY <1>1, <1>3, <3>1, <3>2 DEF HeldInv
    <2> QED  BY <2>1, <2>2, <2>3, <2>4, <2>5
  <1> QED  BY <1>2, <1>4, <1>5, MovedHolds

\* A label is made: p has read it, too.
LEMMA Seeded ==
  ASSUME TypeInv, Always, NEW p \in Process, SeedLabel(p)
  PROVE  /\ \A q \in Process : q # p => sync'[q] = sync[q]
         /\ \/ sync'[p] = Idle /\ sync'[p].step = "none" /\ lost' /\ labels' = labels
            \/ /\ sync'[p].step \in {"seed", "stored"} /\ HeldInv(p)' /\ LabelsMove
               /\ webhooks' = webhooks + 1 /\ lost' = lost
               /\ \A k \in Label : labels'[k] # NoName /\ sync'[p].labels[k] = NoName =>
                                     labels[k] # NoName /\ sync[p].labels[k] = NoName
               /\ sync[p].labels = labels => sync'[p].labels = labels'
PROOF
  <1>1. SyncsFit /\ sync \in Syncs  BY TypeInvIs DEF SyncsFit
  <1>2. sync[p].seeds \in SUBSET Name /\ sync[p].labels \in Names  BY <1>1, SyncTyped
  <1>3. sync[p].step = "seed"  BY DEF SeedLabel, At
  <1>4. labels \in Names  BY TypeInvIs DEF DataFits
  <1>5. PICK name \in sync[p].seeds :
          \/ /\ Rests(p) /\ lost' /\ labels' = labels
             /\ webhooks' = IF p = "worker" THEN webhooks - 1 ELSE webhooks
          \/ /\ \A k \in Label : labels[k] # name
             /\ \E l \in Label :
                  /\ Unused(l) /\ labels' = [labels EXCEPT ![l] = name]
                  /\ Becomes(p, IF sync[p].seeds = {name} THEN "stored" ELSE "seed",
                             sync[p].seeds \ {name}, [sync[p].labels EXCEPT ![l] = name],
                             sync[p].rows, sync[p].tags, sync[p].found)
             /\ webhooks' = webhooks + 1 /\ lost' = lost
    BY <1>1, SeedLabelMoves
  <1>6. CASE Rests(p) /\ lost' /\ labels' = labels
    <2>1. sync'[p] = Idle /\ \A q \in Process : q # p => sync'[q] = sync[q]
      BY <1>1, <1>6, RestFits
    <2> QED  BY <1>6, <2>1 DEF Idle
  <1>7. CASE /\ \A k \in Label : labels[k] # name
             /\ \E l \in Label :
                  /\ Unused(l) /\ labels' = [labels EXCEPT ![l] = name]
                  /\ Becomes(p, IF sync[p].seeds = {name} THEN "stored" ELSE "seed",
                             sync[p].seeds \ {name}, [sync[p].labels EXCEPT ![l] = name],
                             sync[p].rows, sync[p].tags, sync[p].found)
             /\ webhooks' = webhooks + 1 /\ lost' = lost
    <2>1. PICK l \in Label :
            /\ Unused(l) /\ labels' = [labels EXCEPT ![l] = name]
            /\ Becomes(p, IF sync[p].seeds = {name} THEN "stored" ELSE "seed",
                       sync[p].seeds \ {name}, [sync[p].labels EXCEPT ![l] = name],
                       sync[p].rows, sync[p].tags, sync[p].found)
      BY <1>7
    <2>2. name \in Name /\ name # NoName  BY <1>2, NameFacts
    <2>3. LabelsMove /\ Live(labels') = Live(labels) \cup {l}
      BY <1>4, <1>7, <2>1, <2>2, LabelMoves DEF Always
    <2> DEFINE step == IF sync[p].seeds = {name} THEN "stored" ELSE "seed"
               list == [sync[p].labels EXCEPT ![l] = name]
               seeds == sync[p].seeds \ {name}
    <2>4. step \in {"seed", "stored"}  OBVIOUS
    <2>5. list[l] = name /\ \A k \in Label : k # l => list[k] = sync[p].labels[k]
      BY <1>2 DEF Names
    <2>6. labels'[l] = name /\ \A k \in Label : k # l => labels'[k] = labels[k]
      BY <1>4, <2>1 DEF Names
    <2>7. Becomes(p, step, seeds, list, sync[p].rows, sync[p].tags, sync[p].found)  BY <2>1
    <2>8. sync[p].labels = labels => list = labels'  BY <2>1
    <2>9. seeds \subseteq sync[p].seeds /\ name \notin seeds  OBVIOUS
    <2> HIDE DEF step, list, seeds
    <2>10. /\ sync'[p].step = step /\ sync'[p].seeds = seeds /\ sync'[p].labels = list
           /\ \A q \in Process : q # p => sync'[q] = sync[q]
      BY <1>1, <2>7, BecomesTyped
    <2>11. /\ Distinct(sync[p].labels)
           /\ \A k \in Live(sync[p].labels) : Known(k) /\ sync[p].labels[k] \notin sync[p].seeds
      BY <1>3 DEF Always, HeldInv
    <2>12. Live(list) = Live(sync[p].labels) \cup {l}  BY <2>2, <2>5 DEF Live
    <2>13. Distinct(list)
      <3>1. \A k \in Live(sync[p].labels) : sync[p].labels[k] # name  BY <2>11
      <3> QED  BY <2>5, <2>11, <2>12, <3>1 DEF Distinct, Live
    <2>14. ASSUME NEW k \in Live(list) PROVE Known(k)' /\ list[k] \notin seeds
      <3>1. CASE k = l
        <4>1. l <= l /\ l \in Live(labels')  BY <2>3, LabelAssumption
        <4> QED  BY <2>5, <2>9, <3>1, <4>1 DEF Known
      <3>2. CASE k # l
        <4>1. k \in Live(sync[p].labels) /\ k \in Label  BY <2>12, <3>2 DEF Live
        <4>2. Known(k) /\ sync[p].labels[k] \notin sync[p].seeds  BY <2>11, <4>1
        <4> QED  BY <2>3, <2>5, <2>9, <3>2, <4>1, <4>2 DEF LabelsMove
      <3> QED  BY <3>1, <3>2
    <2>15. HeldInv(p)'  BY <2>4, <2>10, <2>13, <2>14 DEF HeldInv
    <2>16. \A k \in Label : labels'[k] # NoName /\ list[k] = NoName =>
                              labels[k] # NoName /\ sync[p].labels[k] = NoName
      BY <2>2, <2>5, <2>6
    <2> QED  BY <1>7, <2>3, <2>4, <2>8, <2>10, <2>15, <2>16
  <1> QED  BY <1>5, <1>6, <1>7

LEMMA SeedHolds ==
  ASSUME TypeInv, Always, NEW p \in Process, SeedLabel(p)
  PROVE  Always'
PROOF
  <1>1. tags' = tags /\ lastTag' = lastTag /\ rows' = rows  BY DEF SeedLabel
  <1>2. \A q \in Process : q # p => sync'[q] = sync[q]  BY Seeded
  <1>3. CASE sync'[p].step = "none" /\ labels' = labels
    <2>1. HeldInv(p)'  BY <1>3, HeldRests
    <2> QED  BY <1>1, <1>2, <1>3, <2>1, TableRests, MovedHolds
  <1>4. CASE HeldInv(p)' /\ LabelsMove
    <2>1. TableInv' /\ Grows  BY <1>1, <1>4, LabelsKeepTable DEF Always
    <2> QED  BY <1>2, <1>4, <2>1, MovedHolds
  <1> QED  BY <1>3, <1>4, Seeded

\* The table is replaced: what it is then, and that every label keeps the tag it had when p
\* read the table.
LEMMA Replaced ==
  ASSUME TypeInv, Always, NEW p \in Process, ReplaceRows(p)
  PROVE  /\ TableInv'
         /\ sync[p].labels = labels => Current'
         /\ \A s \in sync[p].rows : \E r \in rows' : r.label = s.label /\ r.tag = s.tag
         /\ \A r \in rows' : r.stale => /\ sync[p].labels[r.label] = NoName
                                       /\ \E s \in sync[p].rows : s.label = r.label
         /\ sync'[p].step = "forum" /\ \A q \in Process : q # p => sync'[q] = sync[q]
PROOF
  <1>1. SyncsFit /\ sync \in Syncs  BY TypeInvIs DEF SyncsFit
  <1>2. sync[p].step = "replace"  BY DEF ReplaceRows, At
  <1>3. PICK list, stored : list = sync[p].labels /\ stored = sync[p].rows  OBVIOUS
  <1>4. list \in Names /\ stored \in SUBSET Row /\ IsFiniteSet(stored) /\ lastTag \in Nat
    BY <1>1, <1>3, SyncTyped, TypeInvIs DEF DataFits, TagId
  <1>5. /\ Distinct(list) /\ \A l \in Live(list) : Known(l)
        /\ OneRow(stored) /\ Unique(stored) /\ Past(stored)
    BY <1>2, <1>3 DEF Always, HeldInv
  <1>6. PICK table : table = planLabelBindings(list, stored)  OBVIOUS
  <1>7. /\ rows' = table /\ labels' = labels /\ tags' = tags /\ lastTag' = lastTag
    BY <1>3, <1>6 DEF ReplaceRows
  <1>8. /\ OneRow(table) /\ Unique(table) /\ (Distinct(list) => Placed(table))
        /\ \A r \in table : \/ \E s \in stored : s.label = r.label /\ s.tag = r.tag
                            \/ r.tag = NoTag /\ r.label \in Live(list)
        /\ \A r \in table : IF r.stale THEN r.label \notin Live(list) ELSE r.label \in Live(list)
        /\ \A r \in Active(table) : r.name = list[r.label] /\ r.label \in Live(list)
        /\ \A l \in Live(list) : \E r \in Active(table) : r.label = l
        /\ \A s \in stored : \E r \in table : r.label = s.label /\ r.tag = s.tag
    BY <1>4, <1>5, <1>6, BindingsFacts
  <1>9. ASSUME NEW r \in table PROVE Known(r.label) /\ r.tag <= lastTag
    <2>1. CASE \E s \in stored : s.label = r.label /\ s.tag = r.tag  BY <1>5, <2>1 DEF Past
    <2>2. CASE r.tag = NoTag /\ r.label \in Live(list)  BY <1>4, <1>5, <2>2 DEF NoTag
    <2> QED  BY <1>8, <2>1, <2>2
  <1>10. TableInv'
    <2>1. Past(rows)'  BY <1>7, <1>9 DEF Past, Known
    <2>2. Distinct(labels) /\ \A i \in DOMAIN tags : tags[i].id \in 1..lastTag
      BY DEF Always, TableInv
    <2>3. OneRow(rows') /\ Unique(rows') /\ Placed(rows')  BY <1>5, <1>7, <1>8
    <2> QED  BY <1>7, <2>1, <2>2, <2>3 DEF TableInv
  <1>11. ASSUME list = labels PROVE Current'
    <2>1. \A l \in Live(labels) : \E r \in Active(table) : r.label = l  BY <1>8, <1>11
    <2>2. \A r \in Active(table) : r.name = labels[r.label] /\ r.label \in Live(labels)
      BY <1>8, <1>11
    <2> QED  BY <1>7, <2>1, <2>2 DEF Current
  <1>12. ASSUME NEW r \in table, r.stale
         PROVE  list[r.label] = NoName /\ \E s \in stored : s.label = r.label
    <2>1. r.label \notin Live(list)  BY <1>8, <1>12
    <2>2. PICK s \in stored : s.label = r.label  BY <1>8, <2>1
    <2>3. r.label \in Label  BY <1>4, <2>2 DEF Row
    <2> QED  BY <2>1, <2>2, <2>3 DEF Live
  <1>13. sync'[p].step = "forum" /\ \A q \in Process : q # p => sync'[q] = sync[q]
    BY <1>1, ReplaceRowsMoves, BecomesTyped
  <1> QED  BY <1>3, <1>7, <1>8, <1>10, <1>11, <1>12, <1>13

LEMMA ReplaceHolds ==
  ASSUME TypeInv, Always, NEW p \in Process, ReplaceRows(p)
  PROVE  Always'
PROOF
  <1>1. /\ TableInv' /\ sync'[p].step = "forum" /\ \A q \in Process : q # p => sync'[q] = sync[q]
    BY Replaced
  <1>2. HeldInv(p)'  BY <1>1, HeldRests
  <1>3. labels' = labels /\ lastTag' = lastTag /\ lastTag \in Nat
    BY TypeInvIs DEF ReplaceRows, DataFits, TagId
  <1>4. Grows  BY <1>3 DEF Grows, Known
  <1> QED  BY <1>1, <1>2, <1>4, MovedHolds

\* The tags a synchronization asks for are those it has read whose rows are not stale, and new
\* ones; and a row that has one of the former has found it, or a row before it has.
Asked(p, plan, kept) ==
  /\ kept \subseteq 1..lastTag
  /\ kept \subseteq Ids(Given(plan))
  /\ \A id \in Ids(Given(plan)) : id \in kept \/ id > lastTag
  /\ \A id \in Ids(Given(plan)) : id \in 1..(lastTag + Cardinality(MadeBy(plan)))
  /\ Placed(sync[p].rows) =>
       \A r \in Active(sync[p].rows) : r.tag \in kept =>
         \E f \in plan.found : f.position <= r.position /\ Given(plan)[f.index].id = r.tag

LEMMA AskedFor ==
  ASSUME TypeInv, Always, NEW p \in Process, sync[p].step = "edit", NEW plan, plan = Planned(p),
         NEW kept, kept = Ids(sync[p].tags) \ StaleTags(sync[p].rows)
  PROVE  Asked(p, plan, kept)
PROOF
  <1>1. SyncsFit /\ lastTag \in TagId /\ lastTag \in Nat  BY TypeInvIs DEF DataFits, TagId
  <1>2. PICK table : table = sync[p].rows  OBVIOUS
  <1>3. sync[p].tags \in Seq(Tag) /\ table \in SUBSET Row  BY <1>1, <1>2, SyncTyped
  <1>4. PICK first : first = Without(sync[p].tags, StaleTags(table))  OBVIOUS
  <1>5. first \in Seq(Tag) /\ Ids(first) = kept  BY <1>2, <1>3, <1>4, WithoutIds
  <1>6. kept \subseteq 1..lastTag
    <2>1. \A i \in DOMAIN sync[p].tags : sync[p].tags[i].id \in 1..lastTag  BY DEF Always, HeldInv
    <2> QED  BY <2>1 DEF Ids
  <1>7. /\ PlanInv(plan, first, Active(table), Places)
        /\ Given(plan) \in Seq(Tag) /\ Len(Given(plan)) = Len(plan.tags)
        /\ Cardinality(MadeBy(plan)) \in Nat
        /\ \A i \in 1..Len(plan.tags) :
             \/ i \notin MadeBy(plan) /\ Given(plan)[i] = plan.tags[i]
             \/ /\ i \in MadeBy(plan) /\ Given(plan)[i].id > lastTag
                /\ Given(plan)[i].id <= lastTag + Cardinality(MadeBy(plan))
    BY <1>1, <1>2, <1>4, GivenFacts
  <1>8. ASSUME Placed(table) PROVE Held(plan, first, Active(table), Places)
    <2>1. \A r, s \in Active(table) : r.position = s.position => r = s
      BY <1>8 DEF Placed, Active
    <2>2. plan = planDiscordForumTags(sync[p].tags, Active(table), StaleTags(table))
      BY <1>2 DEF Planned
    <2>3. Active(table) \in SUBSET Row  BY <1>3 DEF Active
    <2>4. Len(sync[p].tags) <= MaxTags  BY <1>1, SyncTyped
    <2> QED  BY <1>3, <1>4, <2>1, <2>2, <2>3, <2>4, PlanHolds
  <1>9. /\ plan.tags \in Seq(Tag) /\ Len(plan.tags) \in Nat /\ Len(first) \in Nat
        /\ DOMAIN first = 1..Len(first) /\ DOMAIN Given(plan) = 1..Len(plan.tags)
        /\ DOMAIN plan.tags = 1..Len(plan.tags)
        /\ Len(first) <= Len(plan.tags) /\ \A i \in 1..Len(first) : plan.tags[i] = first[i]
        /\ \A i \in (Len(first) + 1)..Len(plan.tags) : plan.tags[i].id = NoTag
        /\ \A f \in plan.found : f.index \in 1..Len(plan.tags)
    BY <1>5, <1>7 DEF PlanInv, Plan
  <1>10. ASSUME NEW i \in 1..Len(first) PROVE Given(plan)[i] = first[i] /\ first[i].id \in kept
    <2>1. first[i].id \in kept  BY <1>5, <1>9 DEF Ids
    <2>2. plan.tags[i].id # NoTag  BY <1>6, <1>9, <2>1 DEF NoTag
    <2>3. i \notin MadeBy(plan) /\ i \in 1..Len(plan.tags)  BY <1>9, <2>2 DEF MadeBy
    <2> QED  BY <1>7, <1>9, <2>1, <2>3
  <1>11. ASSUME NEW i \in (Len(first) + 1)..Len(plan.tags)
         PROVE  /\ Given(plan)[i].id > lastTag
                /\ Given(plan)[i].id <= lastTag + Cardinality(MadeBy(plan))
    <2>1. i \in MadeBy(plan) /\ i \in 1..Len(plan.tags)  BY <1>9 DEF MadeBy
    <2> QED  BY <1>7, <2>1
  <1>12. kept \subseteq Ids(Given(plan))
    <2> SUFFICES ASSUME NEW id \in kept PROVE id \in Ids(Given(plan))  OBVIOUS
    <2>1. PICK i \in 1..Len(first) : first[i].id = id  BY <1>5, <1>9 DEF Ids
    <2>2. Given(plan)[i].id = id /\ i \in DOMAIN Given(plan)  BY <1>9, <1>10, <2>1
    <2> QED  BY <2>2 DEF Ids
  <1>13. ASSUME NEW id \in Ids(Given(plan))
         PROVE  (id \in kept \/ id > lastTag) /\ id \in 1..(lastTag + Cardinality(MadeBy(plan)))
    <2>1. PICK i \in 1..Len(plan.tags) : Given(plan)[i].id = id  BY <1>9, <1>13 DEF Ids
    <2>2. id \in Nat
      <3>1. Given(plan)[i] \in Tag  BY <1>7, <2>1
      <3> QED  BY <2>1, <3>1 DEF Tag, TagId
    <2>3. CASE i \in 1..Len(first)
      <3>1. id \in kept /\ id \in 1..lastTag  BY <1>6, <1>10, <2>1, <2>3
      <3> QED  BY <1>1, <1>7, <3>1
    <2>4. CASE i \in (Len(first) + 1)..Len(plan.tags)
      BY <1>1, <1>7, <1>11, <2>1, <2>2, <2>4
    <2> QED  BY <1>9, <2>3, <2>4
  <1>14. ASSUME Placed(table), NEW r \in Active(table), r.tag \in kept
         PROVE  \E f \in plan.found : f.position <= r.position /\ Given(plan)[f.index].id = r.tag
    <2>1. r.position < Places  BY <1>14 DEF Placed
    <2>2. r.tag # NoTag  BY <1>6, <1>14 DEF NoTag
    <2>3. PICK f \in plan.found : f.position <= r.position /\ plan.tags[f.index].id = r.tag
      BY <1>5, <1>8, <1>14, <2>1, <2>2 DEF Held
    <2>4. f.index \notin MadeBy(plan)  BY <2>2, <2>3 DEF MadeBy
    <2>5. Given(plan)[f.index] = plan.tags[f.index]  BY <1>7, <1>9, <2>4
    <2> QED  BY <2>3, <2>5
  <1> QED  BY <1>2, <1>6, <1>12, <1>13, <1>14 DEF Asked

\* What the forum is after the edit.
LEMMA EditedForum ==
  ASSUME TypeInv, NEW p \in Process, EditForum(p), sync'[p].step # "none",
         NEW plan, plan = Planned(p)
  PROVE  /\ tags' = (IF Given(plan) = sync[p].tags THEN tags ELSE Given(plan))
         /\ lastTag' = lastTag + Cardinality(MadeBy(plan)) /\ Cardinality(MadeBy(plan)) \in Nat
         /\ sync'[p].step = "bind" /\ sync'[p].rows = sync[p].rows /\ sync'[p].found = FoundOf(plan)
         /\ webhooks' = webhooks /\ lost' = lost
         /\ \A q \in Process : q # p => sync'[q] = sync[q]
PROOF
  <1>1. SyncsFit /\ sync \in Syncs /\ lastTag \in TagId  BY TypeInvIs DEF SyncsFit, DataFits
  <1>2. \/ /\ Rests(p) /\ lost' /\ tags' = tags /\ lastTag' = lastTag
           /\ webhooks' = IF p = "worker" THEN webhooks - 1 ELSE webhooks
        \/ /\ tags' = IF Given(plan) = sync[p].tags THEN tags ELSE Given(plan)
           /\ lastTag' = lastTag + Cardinality(MadeBy(plan))
           /\ Becomes(p, "bind", sync[p].seeds, sync[p].labels, sync[p].rows, <<>>, FoundOf(plan))
           /\ webhooks' = webhooks /\ lost' = lost
    BY <1>1, EditForumMoves
  <1>3. ~Rests(p)  BY DEF Rests, Idle
  <1>4. /\ tags' = IF Given(plan) = sync[p].tags THEN tags ELSE Given(plan)
        /\ lastTag' = lastTag + Cardinality(MadeBy(plan))
        /\ Becomes(p, "bind", sync[p].seeds, sync[p].labels, sync[p].rows, <<>>, FoundOf(plan))
        /\ webhooks' = webhooks /\ lost' = lost
    BY <1>2, <1>3
  <1>5. Cardinality(MadeBy(plan)) \in Nat  BY <1>1, GivenFacts
  <1>6. /\ sync'[p].step = "bind" /\ sync'[p].rows = sync[p].rows /\ sync'[p].found = FoundOf(plan)
        /\ \A q \in Process : q # p => sync'[q] = sync[q]
    BY <1>1, <1>4, BecomesTyped
  <1> QED  BY <1>4, <1>5, <1>6

LEMMA EditKeepsTable ==
  ASSUME TypeInv, Always, NEW p \in Process, EditForum(p), sync'[p].step # "none"
  PROVE  TableInv' /\ Grows /\ HeldInv(p)'
PROOF
  <1>1. PICK plan : plan = Planned(p)  OBVIOUS
  <1>2. PICK given, made, found :
          given = Given(plan) /\ made = Cardinality(MadeBy(plan)) /\ found = FoundOf(plan)
    OBVIOUS
  <1>3. /\ tags' = (IF given = sync[p].tags THEN tags ELSE given)
        /\ lastTag' = lastTag + made /\ made \in Nat /\ sync'[p].found = found
        /\ sync'[p].step = "bind"
    BY <1>1, <1>2, EditedForum
  <1>4. labels' = labels /\ rows' = rows  BY DEF EditForum
  <1>5. sync[p].step = "edit"  BY DEF EditForum, At
  <1>6. \A id \in Ids(given) : id \in 1..(lastTag + made)
    BY <1>1, <1>2, <1>5, AskedFor DEF Asked
  <1>7. SyncsFit /\ lastTag \in TagId /\ lastTag \in Nat /\ lastTag' \in Nat /\ lastTag <= lastTag'
    BY <1>3, TypeInvIs DEF DataFits, TagId
  <1>8. ASSUME NEW i \in DOMAIN tags' PROVE tags'[i].id \in 1..lastTag'
    <2>1. CASE tags' = tags
      <3>1. tags[i].id \in 1..lastTag  BY <1>8, <2>1 DEF Always, TableInv
      <3> QED  BY <1>7, <2>1, <3>1
    <2>2. CASE tags' = given
      <3>1. given[i].id \in Ids(given)  BY <1>8, <2>2 DEF Ids
      <3> QED  BY <1>3, <1>6, <2>2, <3>1
    <2> QED  BY <1>3, <2>1, <2>2
  <1>9. \A g \in found : g.tag <= lastTag'
    <2>1. /\ PlanInv(plan, Without(sync[p].tags, StaleTags(sync[p].rows)), Active(sync[p].rows), Places)
          /\ given \in Seq(Tag) /\ Len(given) = Len(plan.tags)
      BY <1>1, <1>2, <1>7, GivenFacts
    <2>2. \A f \in plan.found : f.index \in DOMAIN given  BY <2>1 DEF PlanInv
    <2>3. \A f \in plan.found : given[f.index].id \in Ids(given)  BY <2>2 DEF Ids
    <2>4. \A g \in found : \E f \in plan.found : g.tag = given[f.index].id  BY <1>2 DEF FoundOf
    <2>5. \A id \in Ids(given) : id <= lastTag'  BY <1>3, <1>6, <1>7
    <2> QED  BY <2>3, <2>4, <2>5
  <1>10. HeldInv(p)'  BY <1>3, <1>9 DEF HeldInv
  <1> QED  BY <1>4, <1>7, <1>8, <1>10, TagsKeepTable DEF Always

\* Discord refuses the edit.
LEMMA EditRefused ==
  ASSUME TypeInv, NEW p \in Process, EditForum(p), sync'[p].step = "none"
  PROVE  /\ sync'[p] = Idle /\ lost' /\ tags' = tags /\ lastTag' = lastTag
         /\ \A q \in Process : q # p => sync'[q] = sync[q]
PROOF
  <1>1. SyncsFit /\ sync \in Syncs  BY TypeInvIs DEF SyncsFit
  <1>2. PICK plan : plan = Planned(p)  OBVIOUS
  <1>3. ~Becomes(p, "bind", sync[p].seeds, sync[p].labels, sync[p].rows, <<>>, FoundOf(plan))
    BY DEF Becomes
  <1>4. Rests(p) /\ lost' /\ tags' = tags /\ lastTag' = lastTag
    BY <1>1, <1>2, <1>3, EditForumMoves
  <1> QED  BY <1>1, <1>4, RestFits

LEMMA EditHolds ==
  ASSUME TypeInv, Always, NEW p \in Process, EditForum(p)
  PROVE  Always'
PROOF
  <1>1. CASE sync'[p].step = "none"
    <2>1. /\ tags' = tags /\ lastTag' = lastTag /\ \A q \in Process : q # p => sync'[q] = sync[q]
      BY <1>1, EditRefused
    <2>2. HeldInv(p)'  BY <1>1, HeldRests
    <2>3. TableInv' /\ Grows  BY <2>1, TableRests DEF EditForum
    <2> QED  BY <2>1, <2>2, <2>3, MovedHolds
  <1>2. CASE sync'[p].step # "none"
    <2>1. \A q \in Process : q # p => sync'[q] = sync[q]  BY <1>2, EditedForum
    <2>2. TableInv' /\ Grows /\ HeldInv(p)'  BY <1>2, EditKeepsTable
    <2> QED  BY <2>1, <2>2, MovedHolds
  <1> QED  BY <1>1, <1>2

\* The tag found at a position is the only one found there.
LEMMA TagAtOnly ==
  ASSUME NEW found, \A f, g \in found : f.position = g.position => f = g, NEW f \in found
  PROVE  TagAt(found, f.position) = f.tag
PROOF
  <1>1. \E g \in found : g.position = f.position  OBVIOUS
  <1>2. PICK g \in found : g.position = f.position /\ TagAt(found, f.position) = g.tag
    BY <1>1, TagAtIs
  <1>3. g = f  BY <1>2
  <1> QED  BY <1>2, <1>3

\* The rows after the batch, if it is not refused: those that are not stale, each with the tag
\* found at its position, if p has read a row at that position.
New(p, r) == UpdatedRow(r, Active(sync[p].rows), sync[p].found, Places)

LEMMA BoundRows ==
  ASSUME TypeInv, NEW p \in Process, BindTags(p)
  PROVE  \/ clash' /\ rows' = rows
         \/ /\ clash' = clash
            /\ \A n \in 0..Places : Unique(Updated(rows, Active(sync[p].rows), sync[p].found, n))
            /\ \A s \in rows' : \E r \in Active(rows) : s = New(p, r)
            /\ \A r \in Active(rows) : New(p, r) \in rows'
PROOF
  <1>1. sync \in Syncs /\ SyncsFit  BY TypeInvIs DEF SyncsFit
  <1>2. PICK bindings, found : bindings = Active(sync[p].rows) /\ found = sync[p].found  OBVIOUS
  <1>3. \/ /\ \A n \in 0..Places : Unique(Updated(rows, bindings, found, n))
           /\ rows' = {r \in Updated(rows, bindings, found, Places) : ~r.stale}
           /\ clash' = clash
        \/ clash' /\ rows' = rows
    BY <1>1, <1>2, BindTagsMoves
  <1>4. CASE /\ \A n \in 0..Places : Unique(Updated(rows, bindings, found, n))
             /\ rows' = {r \in Updated(rows, bindings, found, Places) : ~r.stale}
             /\ clash' = clash
    <2>1. Updated(rows, bindings, found, Places) = {New(p, r) : r \in rows}
      BY <1>2, UpdatedIs DEF New
    <2>2. found \in SUBSET Tagged /\ rows \in SUBSET Row
      BY <1>1, <1>2, SyncTyped, TypeInvIs DEF DataFits
    <2>3. \A r \in rows : New(p, r).stale = r.stale
      BY <1>2, <2>2, UpdatedRowFacts DEF New
    <2>4. ASSUME NEW s \in rows' PROVE \E r \in Active(rows) : s = New(p, r)
      <3>1. PICK r \in rows : s = New(p, r) /\ ~s.stale  BY <1>4, <2>1
      <3>2. ~r.stale  BY <2>3, <3>1
      <3> QED  BY <3>1, <3>2 DEF Active
    <2>5. ASSUME NEW r \in Active(rows) PROVE New(p, r) \in rows'
      <3>1. r \in rows /\ ~r.stale  BY DEF Active
      <3>2. ~New(p, r).stale  BY <2>3, <3>1
      <3>3. New(p, r) \in Updated(rows, bindings, found, Places)  BY <2>1, <3>1
      <3> QED  BY <1>4, <3>2, <3>3
    <2> QED  BY <1>2, <1>4, <2>4, <2>5
  <1> QED  BY <1>3, <1>4

LEMMA NewRow ==
  ASSUME TypeInv, TableInv, NEW p \in Process, NEW r \in Active(rows)
  PROVE  /\ r \in rows /\ r \in Row /\ ~r.stale /\ New(p, r) \in Row
         /\ New(p, r).label = r.label /\ New(p, r).name = r.name /\ New(p, r).stale = r.stale
         /\ New(p, r).position = r.position /\ r.position < Places
         /\ New(p, r).tag \in {r.tag, TagAt(sync[p].found, r.position)}
         /\ sync[p].rows = rows => New(p, r).tag = TagAt(sync[p].found, r.position)
PROOF
  <1>1. r \in rows /\ ~r.stale /\ r \in Row  BY TypeInvIs DEF Active, DataFits
  <1>2. r.position < Places  BY DEF TableInv, Placed
  <1>3. sync[p].found \in SUBSET Tagged  BY TypeInvIs, SyncTyped
  <1>4. sync[p].rows = rows => \E row \in Active(sync[p].rows) : row.position = r.position  OBVIOUS
  <1> QED  BY <1>1, <1>2, <1>3, <1>4, UpdatedRowFacts DEF New

LEMMA BindKeepsTable ==
  ASSUME TypeInv, Always, NEW p \in Process, BindTags(p)
  PROVE  TableInv' /\ Grows
PROOF
  <1>1. /\ labels' = labels /\ tags' = tags /\ lastTag' = lastTag /\ TableInv
        /\ lastTag \in Nat
    BY TypeInvIs DEF BindTags, Always, DataFits, TagId
  <1>2. CASE rows' = rows  BY <1>1, <1>2, TableRests
  <1>3. CASE /\ \A n \in 0..Places : Unique(Updated(rows, Active(sync[p].rows), sync[p].found, n))
             /\ \A s \in rows' : \E r \in Active(rows) : s = New(p, r)
    <2>1. sync[p].step = "bind"  BY DEF BindTags, At
    <2>2. \A f \in sync[p].found : f.tag <= lastTag  BY <2>1 DEF Always, HeldInv
    <2>3. Unique(rows')
      <3> DEFINE table == Updated(rows, Active(sync[p].rows), sync[p].found, Places)
      <3>1. Unique(table)  BY <1>3, PlacesAreFinite
      <3>2. \A r \in rows : New(p, r) \in table  BY UpdatedIs DEF New
      <3>3. rows' \subseteq table  BY <1>3, <3>2 DEF Active
      <3> HIDE DEF table
      <3> QED  BY <3>1, <3>3 DEF Unique
    <2>4. OneRow(rows')
      <3> SUFFICES ASSUME NEW r \in rows', NEW s \in rows', r.label = s.label PROVE r = s
        BY DEF OneRow
      <3>1. PICK a \in Active(rows), b \in Active(rows) : r = New(p, a) /\ s = New(p, b)  BY <1>3
      <3>2. a.label = b.label /\ a \in rows /\ b \in rows  BY <1>1, <3>1, NewRow
      <3>3. a = b  BY <1>1, <3>2 DEF TableInv, OneRow
      <3> QED  BY <3>1, <3>3
    <2>5. Placed(rows')
      <3> SUFFICES ASSUME NEW r \in rows'
                   PROVE  r.position < Places /\ \A s \in rows' : r.position = s.position => r = s
        BY DEF Placed, Active
      <3>1. PICK a \in Active(rows) : r = New(p, a)  BY <1>3
      <3>2. r.position = a.position /\ a.position < Places  BY <1>1, <3>1, NewRow
      <3>3. ASSUME NEW s \in rows', r.position = s.position PROVE r = s
        <4>1. PICK b \in Active(rows) : s = New(p, b)  BY <1>3
        <4>2. a.position = b.position /\ b \in rows  BY <1>1, <3>2, <3>3, <4>1, NewRow
        <4>3. a = b  BY <1>1, <3>1, <4>1, <4>2 DEF TableInv, Placed
        <4> QED  BY <3>1, <4>1, <4>3
      <3> QED  BY <3>2, <3>3
    <2>6. ASSUME NEW r \in rows' PROVE Known(r.label) /\ r.tag <= lastTag
      <3>1. PICK a \in Active(rows) : r = New(p, a)  BY <1>3
      <3>2. /\ a \in rows /\ r.label = a.label
            /\ r.tag \in {a.tag, TagAt(sync[p].found, a.position)}
        BY <1>1, <3>1, NewRow
      <3>3. Known(r.label) /\ a.tag <= lastTag  BY <1>1, <3>2 DEF TableInv, Past
      <3>4. TagAt(sync[p].found, a.position) <= lastTag
        <4>1. \/ TagAt(sync[p].found, a.position) = NoTag
              \/ \E f \in sync[p].found : TagAt(sync[p].found, a.position) = f.tag
          BY TagAtIs
        <4> QED  BY <1>1, <2>2, <4>1 DEF NoTag
      <3> QED  BY <3>2, <3>3, <3>4
    <2>7. Past(rows)'  BY <1>1, <2>6 DEF Past, Known
    <2>8. Distinct(labels') /\ \A i \in DOMAIN tags' : tags'[i].id \in 1..lastTag'
      BY <1>1 DEF TableInv
    <2>9. Grows  BY <1>1 DEF Grows, Known
    <2> QED  BY <2>3, <2>4, <2>5, <2>7, <2>8, <2>9 DEF TableInv
  <1> QED  BY <1>2, <1>3, BoundRows

LEMMA BindRests ==
  ASSUME TypeInv, NEW p \in Process, BindTags(p)
  PROVE  /\ sync'[p] = Idle /\ sync'[p].step = "none"
         /\ \A q \in Process : q # p => sync'[q] = sync[q]
PROOF
  <1>1. SyncsFit /\ sync \in Syncs  BY TypeInvIs DEF SyncsFit
  <1>2. PICK bindings, found : bindings = Active(sync[p].rows) /\ found = sync[p].found  OBVIOUS
  <1>3. Rests(p)  BY <1>1, <1>2, BindTagsMoves
  <1>4. sync'[p] = Idle /\ \A q \in Process : q # p => sync'[q] = sync[q]  BY <1>1, <1>3, RestFits
  <1>5. sync'[p].step = "none"  BY <1>4 DEF Idle
  <1> QED  BY <1>4, <1>5

LEMMA BindHolds ==
  ASSUME TypeInv, Always, NEW p \in Process, BindTags(p)
  PROVE  Always'
PROOF
  <1>1. sync'[p].step = "none" /\ \A q \in Process : q # p => sync'[q] = sync[q]  BY BindRests
  <1>2. HeldInv(p)'  BY <1>1, HeldRests
  <1> QED  BY <1>1, <1>2, BindKeepsTable, MovedHolds

\* The table and what is held of it stay right, whatever runs at the same time.
LEMMA NextHolds ==
  ASSUME TypeInv, Always, [Next]_vars
  PROVE  Always'
PROOF
  <1>1. CASE CreateLabel \/ RenameLabel \/ DeleteLabel  BY <1>1, UserHolds
  <1>2. CASE CreateTag \/ RenameTag \/ DeleteTag  BY <1>2, ModeratorHolds
  <1>3. CASE StartOperator \/ StartWorker  BY <1>3, BeginHolds
  <1>4. CASE GiveUp
    <2>1. "worker" \in Process  BY DEF Process
    <2> QED  BY <1>4, <2>1, FaultHolds
  <1>5. ASSUME NEW p \in Process, Interrupt(p) PROVE Always'  BY <1>5, FaultHolds
  <1>6. ASSUME NEW p \in Process,
               ReadNames(p) \/ ReadLabels(p) \/ ReadStored(p) \/ ReadForum(p) \/ ReadBindings(p)
        PROVE  Always'
    BY <1>6, ReadHolds
  <1>7. ASSUME NEW p \in Process, SeedLabel(p) \/ ReplaceRows(p) \/ EditForum(p) \/ BindTags(p)
        PROVE  Always'
    BY <1>7, SeedHolds, ReplaceHolds, EditHolds, BindHolds
  <1>8. CASE UNCHANGED vars
    <2>1. /\ labels' = labels /\ tags' = tags /\ lastTag' = lastTag /\ rows' = rows /\ sync' = sync
      BY <1>8 DEF vars
    <2> QED  BY <2>1, TableRests, OutsideHolds
  <1> QED  BY <1>1, <1>2, <1>3, <1>4, <1>5, <1>6, <1>7, <1>8 DEF Next

----------------------------------------------------------------------------
\* A synchronization that has run alone from its start.

LEMMA RestingIsSafe ==
  ASSUME NEW q \in Process, sync'[q].step = "none"
  PROVE  SyncInv(q)'
PROOF  BY DEF SyncInv

\* While p is at work the other synchronization is idle.
LEMMA MovedIsSafe ==
  ASSUME Safe, NEW p \in Process, sync[p].step # "none",
         \A q \in Process : q # p => sync'[q] = sync[q],
         SyncInv(p)', sync'[p].step # "none" \/ TagsSettle'
  PROVE  Safe'
PROOF
  <1>1. sync[p] # Idle  BY DEF Idle
  <1>2. \A q \in Process : q # p => sync'[q] = Idle  BY <1>1 DEF Safe, OneRuns
  <1>3. OneRuns'  BY <1>2 DEF OneRuns
  <1>4. ASSUME NEW q \in Process PROVE SyncInv(q)'
    <2>1. CASE q = p  BY <2>1
    <2>2. CASE q # p
      <3>1. sync'[q].step = "none"  BY <1>2, <2>2 DEF Idle
      <3> QED  BY <3>1, RestingIsSafe
    <2> QED  BY <2>1, <2>2
  <1>5. TagsSettle'
    <2>1. CASE sync'[p].step # "none"
      <3>1. sync'[p] # Idle  BY <2>1 DEF Idle
      <3> QED  BY <3>1 DEF TagsSettle, Settled, Alone
    <2> QED  BY <2>1
  <1> QED  BY <1>3, <1>4, <1>5 DEF Safe

\* A step that leaves both synchronizations alone.
LEMMA OutsideIsSafe ==
  ASSUME Safe, sync' = sync, \A p \in Process : SyncInv(p)', TagsSettle'
  PROVE  Safe'
PROOF  BY DEF Safe, OneRuns

LEMMA LabelsKeepSync ==
  ASSUME TypeInv, Always, LabelsMove, NEW p \in Process, SyncInv(p), webhooks' = webhooks + 1,
         sync' = sync, rows' = rows, tags' = tags, fresh' = fresh, lost' = lost
  PROVE  SyncInv(p)'
PROOF
  <1>1. sync[p].step # "none" => Later(p)'
    <2>1. sync[p].step # "none" => sync[p] # Idle  BY DEF Idle
    <2> QED  BY <2>1, TypeInvIs DEF WorkFits, Later
  <1>2. ASSUME sync[p].step \in {"seed", "stored", "replace"} PROVE ReadInv(p)'
    <2>1. ReadInv(p)  BY <1>2 DEF SyncInv
    <2>2. \A r \in rows : r.label \in Label /\ Known(r.label)
      BY TypeInvIs DEF DataFits, Row, Always, TableInv, Past
    <2>3. \A r \in rows : labels'[r.label] # NoName => sync[p].labels[r.label] # NoName
      BY <2>1, <2>2 DEF ReadInv, LabelsMove
    <2>4. Later(p)'  BY <1>1, <1>2
    <2> QED  BY <2>3, <2>4 DEF ReadInv
  <1>3. sync[p].step \in {"replace", "edit", "bind"} => sync[p].rows = rows  BY DEF SyncInv
  <1>4. sync[p].step \in {"bindings", "edit"} => ForumInv(p)'  BY DEF SyncInv, ForumInv
  <1>5. sync[p].step = "bind" => FoundInv(p)'  BY DEF SyncInv, FoundInv
  <1> QED  BY <1>1, <1>2, <1>3, <1>4, <1>5 DEF SyncInv

LEMMA UserIsSafe ==
  ASSUME TypeInv, Always, Safe, CreateLabel \/ RenameLabel \/ DeleteLabel
  PROVE  Safe'
PROOF
  <1>1. /\ sync' = sync /\ rows' = rows /\ lost' = lost /\ tags' = tags /\ fresh' = fresh
        /\ webhooks' = webhooks + 1
    BY DEF CreateLabel, RenameLabel, DeleteLabel, UserActs, relay
  <1>2. LabelsMove  BY UserMoves, DeleteLabelMoves DEF Always
  <1>3. \A p \in Process : SyncInv(p)'  BY <1>1, <1>2, LabelsKeepSync DEF Safe
  <1>4. webhooks' # 0  BY <1>1, TypeInvIs DEF WorkFits
  <1>5. TagsSettle'  BY <1>4 DEF TagsSettle, Settled
  <1> QED  BY <1>1, <1>3, <1>5, OutsideIsSafe

LEMMA ModeratorIsSafe ==
  ASSUME TypeInv, Always, Safe, CreateTag \/ RenameTag \/ DeleteTag
  PROVE  Safe'
PROOF
  <1>1. ModeratorActs  BY DEF CreateTag, RenameTag, DeleteTag
  <1>2. /\ sync' = sync /\ rows' = rows /\ labels' = labels /\ webhooks' = webhooks
        /\ starts' = starts /\ clash' = clash /\ lost' = lost /\ ~fresh'
        /\ mixed' = mixed
    BY <1>1 DEF ModeratorActs, relay
  <1>3. TagsMove  BY ModeratorMoves DEF Always
  <1>4. \A r \in rows : r.tag \in Nat /\ r.tag <= lastTag
    BY TypeInvIs DEF DataFits, Row, TagId, Always, TableInv, Past
  <1>5. \A r \in rows : r.tag \in Ids(tags') => r.tag \in Ids(tags)  BY <1>3, <1>4 DEF TagsMove
  <1>6. ASSUME NEW p \in Process PROVE SyncInv(p)'
    <2>1. SyncInv(p)  BY DEF Safe
    <2>2. sync[p].step \in {"bindings", "edit"} => ForumInv(p)'
      <3> SUFFICES ASSUME sync[p].step \in {"bindings", "edit"} PROVE ForumInv(p)'  OBVIOUS
      <3>1. ForumInv(p)  BY <2>1 DEF SyncInv
      <3>2. \A r \in rows : r.tag \in Ids(tags') => r.tag \in Ids(sync[p].tags)
        BY <1>5, <3>1 DEF ForumInv
      <3> QED  BY <1>2, <3>2 DEF ForumInv
    <2>3. sync[p].step = "bind" => FoundInv(p)'
      <3> SUFFICES ASSUME sync[p].step = "bind" PROVE FoundInv(p)'  OBVIOUS
      <3>1. FoundInv(p)  BY <2>1 DEF SyncInv
      <3>2. \A f, g \in sync[p].found : f.position = g.position => f = g  BY <3>1 DEF FoundInv
      <3>3. \A r \in Active(rows) : r.tag \in Ids(tags') =>
              \E f \in sync[p].found : f.tag = r.tag /\ f.position <= r.position
                                       /\ \E s \in Active(rows) : s.position = f.position
        BY <1>5, <3>1 DEF FoundInv, Active
      <3> QED  BY <1>2, <3>2, <3>3 DEF FoundInv
    <2>4. sync[p].step \in {"seed", "stored", "replace"} => ReadInv(p)'
      BY <1>2, <2>1 DEF SyncInv, ReadInv, Later
    <2>5. sync[p].step \in {"forum", "bindings", "edit", "bind"} => lost \/ Current' \/ Later(p)'
      BY <1>2, <2>1 DEF SyncInv, Current, Later
    <2>6. sync[p].step \in {"replace", "edit", "bind"} => sync[p].rows = rows  BY <2>1 DEF SyncInv
    <2> QED  BY <1>2, <2>2, <2>3, <2>4, <2>5, <2>6 DEF SyncInv
  <1>7. TagsSettle'
    <2>1. TagsSettle  BY DEF Safe
    <2> QED  BY <1>2, <2>1 DEF TagsSettle, Settled, Alone, Matched
  <1> QED  BY <1>2, <1>6, <1>7, OutsideIsSafe

\* What runs alone knows nothing yet, whatever the table is.
LEMMA AloneIsSafe ==
  ASSUME TypeInv, NEW p \in Process, NEW seeding \in BOOLEAN, Begin(p, seeding), Alone
  PROVE  Safe'
PROOF
  <1>1. /\ sync'[p].step \in {"names", "labels"} /\ sync'[p] # Idle
        /\ \A q \in Process : q # p => sync'[q] = sync[q]
    BY Begun
  <1>2. \A q \in Process : q # p => sync'[q] = Idle  BY <1>1 DEF Alone
  <1>3. SyncInv(p)'  BY <1>1 DEF SyncInv
  <1>4. \A q \in Process : q # p => SyncInv(q)'
    <2> SUFFICES ASSUME NEW q \in Process, q # p PROVE SyncInv(q)'  OBVIOUS
    <2>1. sync'[q].step = "none"  BY <1>2 DEF Idle
    <2> QED  BY <2>1, RestingIsSafe
  <1>5. OneRuns'  BY <1>2 DEF OneRuns
  <1>6. TagsSettle'  BY <1>1 DEF TagsSettle, Settled, Alone
  <1> QED  BY <1>3, <1>4, <1>5, <1>6 DEF Safe

LEMMA FaultIsSafe ==
  ASSUME TypeInv, Safe, NEW p \in Process, Interrupt(p) \/ (p = "worker" /\ GiveUp)
  PROVE  Safe'
PROOF
  <1>1. /\ sync[p] # Idle /\ sync[p].step # "none" /\ sync'[p].step = "none"
        /\ \A q \in Process : q # p => sync'[q] = sync[q]
    BY Faulted
  <1>2. SyncInv(p)'  BY <1>1, RestingIsSafe
  <1>3. TagsSettle'
    <2>1. CASE lost'  BY <2>1 DEF TagsSettle
    <2>2. CASE ~lost'
      <3>1. p = "worker" /\ webhooks' = webhooks
        BY <2>2 DEF Interrupt, GiveUp, Process
      <3>2. webhooks' # 0  BY <1>1, <3>1, TypeInvIs DEF WorkFits
      <3> QED  BY <3>2 DEF TagsSettle, Settled
    <2> QED  BY <2>1, <2>2
  <1> QED  BY <1>1, <1>2, <1>3, MovedIsSafe

LEMMA ReadIsSafe ==
  ASSUME TypeInv, Always, Safe, NEW p \in Process,
         ReadNames(p) \/ ReadLabels(p) \/ ReadStored(p) \/ ReadForum(p) \/ ReadBindings(p)
  PROVE  Safe'
PROOF
  <1>1. /\ rows' = rows /\ labels' = labels /\ tags' = tags /\ webhooks' = webhooks
        /\ lost' = lost
    BY DEF ReadNames, ReadLabels, ReadStored, ReadForum, ReadBindings, history
  <1>2. SyncInv(p)  BY DEF Safe
  <1>3. sync[p].step # "none" /\ \A q \in Process : q # p => sync'[q] = sync[q]
    BY NamesRead, LabelsRead, StoredRead, ForumRead, BindingsRead
       DEF ReadNames, ReadLabels, ReadStored, ReadForum, ReadBindings, At
  <1>4. SyncInv(p)' /\ sync'[p].step # "none"
    <2>1. CASE ReadNames(p)
      <3>1. sync'[p].step = "labels"  BY <2>1, NamesRead
      <3> QED  BY <3>1 DEF SyncInv
    <2>2. CASE ReadLabels(p)
      <3>1. sync'[p].step \in {"seed", "stored"} /\ sync'[p].labels = labels'
        BY <1>1, <2>2, LabelsRead
      <3>2. ReadInv(p)'  BY <3>1 DEF ReadInv
      <3> QED  BY <3>1, <3>2 DEF SyncInv
    <2>3. CASE ReadStored(p)
      <3>1. sync'[p].step = "replace" /\ sync'[p].labels = sync[p].labels /\ sync'[p].rows = rows'
        BY <1>1, <2>3, StoredRead
      <3>2. ReadInv(p)  BY <1>2, <2>3 DEF SyncInv, ReadStored, At
      <3>3. ReadInv(p)'  BY <1>1, <3>1, <3>2 DEF ReadInv, Later
      <3> QED  BY <3>1, <3>3 DEF SyncInv
    <2>4. CASE ReadForum(p)
      <3>1. sync'[p].step = "bindings" /\ sync'[p].tags = tags'  BY <1>1, <2>4, ForumRead
      <3>2. ForumInv(p)'  BY <3>1 DEF ForumInv
      <3>3. lost' \/ Current' \/ Later(p)'
        BY <1>1, <1>2, <2>4 DEF SyncInv, ReadForum, At, Current, Later
      <3> QED  BY <3>1, <3>2, <3>3 DEF SyncInv
    <2>5. CASE ReadBindings(p)
      <3>1. sync'[p].step = "edit" /\ sync'[p].tags = sync[p].tags /\ sync'[p].rows = rows'
        BY <1>1, <2>5, BindingsRead
      <3>2. sync[p].step = "bindings" /\ fresh' = fresh  BY <2>5 DEF ReadBindings, At
      <3>3. ForumInv(p)'  BY <1>1, <1>2, <3>1, <3>2 DEF SyncInv, ForumInv
      <3>4. lost' \/ Current' \/ Later(p)'  BY <1>1, <1>2, <3>2 DEF SyncInv, Current, Later
      <3> QED  BY <3>1, <3>3, <3>4 DEF SyncInv
    <2> QED  BY <2>1, <2>2, <2>3, <2>4, <2>5
  <1> QED  BY <1>3, <1>4, MovedIsSafe

LEMMA SeedIsSafe ==
  ASSUME TypeInv, Always, Safe, NEW p \in Process, SeedLabel(p)
  PROVE  Safe'
PROOF
  <1>1. sync[p].step = "seed" /\ rows' = rows  BY DEF SeedLabel, At
  <1>2. \A q \in Process : q # p => sync'[q] = sync[q]  BY Seeded
  <1>3. CASE sync'[p].step = "none" /\ lost'
    <2>1. SyncInv(p)'  BY <1>3, RestingIsSafe
    <2>2. TagsSettle'  BY <1>3 DEF TagsSettle
    <2> QED  BY <1>1, <1>2, <2>1, <2>2, MovedIsSafe
  <1>4. CASE /\ sync'[p].step \in {"seed", "stored"}
             /\ webhooks' = webhooks + 1 /\ lost' = lost
             /\ \A k \in Label : labels'[k] # NoName /\ sync'[p].labels[k] = NoName =>
                                   labels[k] # NoName /\ sync[p].labels[k] = NoName
             /\ sync[p].labels = labels => sync'[p].labels = labels'
    <2>1. ReadInv(p)  BY <1>1 DEF Safe, SyncInv
    <2>2. \A r \in rows : r.label \in Label  BY TypeInvIs DEF DataFits, Row
    <2>3. \A r \in rows : labels'[r.label] # NoName => sync'[p].labels[r.label] # NoName
      BY <1>4, <2>1, <2>2 DEF ReadInv
    <2>4. webhooks \in Nat  BY TypeInvIs DEF WorkFits
    <2>5. Later(p) => Later(p)'  BY <1>4, <2>4 DEF Later
    <2>6. ReadInv(p)'  BY <1>1, <1>4, <2>1, <2>3, <2>5 DEF ReadInv
    <2>7. SyncInv(p)'  BY <1>4, <2>6 DEF SyncInv
    <2> QED  BY <1>1, <1>2, <1>4, <2>7, MovedIsSafe
  <1> QED  BY <1>3, <1>4, Seeded

\* Alone, p has read the table that it replaces.
LEMMA ReplacedAlone ==
  ASSUME TypeInv, Always, Safe, NEW p \in Process, ReplaceRows(p)
  PROVE  /\ \A s \in rows : \E r \in rows' : r.label = s.label /\ r.tag = s.tag
         /\ \A r \in rows' : r.stale => labels'[r.label] = NoName
PROOF
  <1>1. ReadInv(p) /\ sync[p].rows = rows  BY DEF Safe, SyncInv, ReplaceRows, At
  <1>2. labels' = labels  BY DEF ReplaceRows
  <1> QED  BY <1>1, <1>2, Replaced DEF ReadInv

LEMMA ReplaceIsSafe ==
  ASSUME TypeInv, Always, Safe, NEW p \in Process, ReplaceRows(p)
  PROVE  Safe'
PROOF
  <1>1. sync'[p].step = "forum" /\ \A q \in Process : q # p => sync'[q] = sync[q]  BY Replaced
  <1>2. sync[p].step = "replace" /\ webhooks' = webhooks /\ lost' = lost  BY DEF ReplaceRows, At
  <1>3. ReadInv(p)  BY <1>2 DEF Safe, SyncInv
  <1>4. lost' \/ Current' \/ Later(p)'  BY <1>2, <1>3, Replaced DEF ReadInv, Later
  <1>5. SyncInv(p)'  BY <1>1, <1>4 DEF SyncInv
  <1> QED  BY <1>1, <1>2, <1>5, MovedIsSafe

LEMMA EditFinds ==
  ASSUME TypeInv, Always, Safe, NEW p \in Process, EditForum(p), sync'[p].step # "none"
  PROVE  FoundInv(p)'
PROOF
  <1>1. PICK plan : plan = Planned(p)  OBVIOUS
  <1>2. PICK given, made, found :
          given = Given(plan) /\ made = Cardinality(MadeBy(plan)) /\ found = FoundOf(plan)
    OBVIOUS
  <1>3. /\ tags' = (IF given = sync[p].tags THEN tags ELSE given)
        /\ lastTag' = lastTag + made /\ made \in Nat /\ sync'[p].found = found
    BY <1>1, <1>2, EditedForum
  <1>4. labels' = labels /\ rows' = rows /\ fresh' = fresh  BY DEF EditForum
  <1>5. sync[p].step = "edit"  BY DEF EditForum, At
  <1>6. sync[p].rows = rows /\ ForumInv(p)  BY <1>5 DEF Safe, SyncInv
  <1>7. PICK kept : kept = Ids(sync[p].tags) \ StaleTags(rows)  OBVIOUS
  <1>8. /\ kept \subseteq 1..lastTag /\ kept \subseteq Ids(given)
        /\ \A id \in Ids(given) : id \in kept \/ id > lastTag
        /\ \A id \in Ids(given) : id \in 1..(lastTag + made)
        /\ \A r \in Active(rows) : r.tag \in kept =>
             \E f \in plan.found : f.position <= r.position /\ given[f.index].id = r.tag
    <2>1. Asked(p, plan, kept)  BY <1>1, <1>5, <1>6, <1>7, AskedFor
    <2>2. Placed(rows)  BY DEF Always, TableInv
    <2> QED  BY <1>2, <1>6, <2>1, <2>2 DEF Asked
  <1>9. SyncsFit /\ lastTag \in TagId /\ lastTag \in Nat /\ lastTag' \in Nat /\ lastTag <= lastTag'
    BY <1>3, TypeInvIs DEF DataFits, TagId
  <1>10. /\ PlanInv(plan, Without(sync[p].tags, StaleTags(rows)), Active(rows), Places)
         /\ given \in Seq(Tag) /\ Len(given) = Len(plan.tags)
    BY <1>1, <1>2, <1>6, <1>9, GivenFacts
  <1>11. ASSUME NEW r \in Active(rows), r.tag \in Ids(tags') PROVE r.tag \in kept
    <2>1. r \in rows /\ ~r.stale  BY DEF Active
    <2>2. r.tag \in Nat /\ r.tag <= lastTag  BY <2>1, TypeInvIs DEF DataFits, Row, TagId, Always, TableInv, Past
    <2>3. CASE given = sync[p].tags
      <3>1. r.tag \in Ids(given)  BY <1>3, <1>6, <1>11, <2>1, <2>3 DEF ForumInv
      <3> QED  BY <1>8, <1>9, <2>2, <3>1
    <2>4. CASE given # sync[p].tags
      <3>1. r.tag \in Ids(given)  BY <1>3, <1>11, <2>4
      <3> QED  BY <1>8, <1>9, <2>2, <3>1
    <2> QED  BY <2>3, <2>4
  <1>12. \A g \in found : \E f \in plan.found : g.position = f.position /\ g.tag = given[f.index].id
    BY <1>2 DEF FoundOf
  <1>13. ASSUME NEW f \in plan.found
         PROVE  \E g \in found : g.position = f.position /\ g.tag = given[f.index].id
    <2>1. [position |-> f.position, tag |-> given[f.index].id] \in found  BY <1>2 DEF FoundOf
    <2> QED  BY <2>1
  <1>14. \A f, g \in found : f.position = g.position => f = g
    <2> SUFFICES ASSUME NEW f \in found, NEW g \in found, f.position = g.position PROVE f = g
      OBVIOUS
    <2>1. PICK a \in plan.found : f = [position |-> a.position, tag |-> given[a.index].id]
      BY <1>2 DEF FoundOf
    <2>2. PICK b \in plan.found : g = [position |-> b.position, tag |-> given[b.index].id]
      BY <1>2 DEF FoundOf
    <2>3. a.position = b.position  BY <2>1, <2>2
    <2>4. a = b  BY <1>10, <2>3 DEF PlanInv
    <2> QED  BY <2>1, <2>2, <2>4
  <1>15. \A f \in plan.found : given[f.index].id \in Ids(given)
    <2>1. \A f \in plan.found : f.index \in 1..Len(plan.tags)  BY <1>10 DEF PlanInv
    <2>2. DOMAIN given = 1..Len(plan.tags)  BY <1>10
    <2> QED  BY <2>1, <2>2 DEF Ids
  <1>16. \A g \in found : g.tag \in Ids(given)  BY <1>12, <1>15
  <1>17. ASSUME NEW r \in Active(rows), r.tag \in Ids(tags')
         PROVE  \E g \in found : g.tag = r.tag /\ g.position <= r.position
                                 /\ \E s \in Active(rows) : s.position = g.position
    <2>1. PICK f \in plan.found : f.position <= r.position /\ given[f.index].id = r.tag
      BY <1>8, <1>11, <1>17
    <2>2. \E s \in Active(rows) : s.position = f.position  BY <1>10 DEF PlanInv
    <2> QED  BY <1>13, <2>1, <2>2
  <1>18. ASSUME fresh
         PROVE  /\ \A f \in found : f.tag \in Ids(tags')
                /\ \A r \in Active(rows) : \/ \E f \in found : f.position = r.position
                                           \/ Len(tags') = MaxTags
    <2>1. tags' = given  BY <1>3, <1>6, <1>18 DEF ForumInv
    <2>2. ASSUME NEW r \in Active(rows)
          PROVE  (\E f \in found : f.position = r.position) \/ Len(tags') = MaxTags
      <3>1. r.position < Places  BY DEF Always, TableInv, Placed
      <3>2. (\E f \in plan.found : f.position = r.position) \/ Len(plan.tags) = MaxTags
        BY <1>10, <3>1 DEF PlanInv
      <3> QED  BY <1>10, <1>13, <2>1, <3>2
    <2> QED  BY <1>16, <2>1, <2>2
  <1> QED  BY <1>3, <1>4, <1>14, <1>16, <1>17, <1>18 DEF FoundInv

LEMMA EditIsSafe ==
  ASSUME TypeInv, Always, Safe, NEW p \in Process, EditForum(p)
  PROVE  Safe'
PROOF
  <1>1. sync[p].step = "edit" /\ labels' = labels /\ rows' = rows  BY DEF EditForum, At
  <1>2. CASE sync'[p].step = "none"
    <2>1. lost' /\ \A q \in Process : q # p => sync'[q] = sync[q]  BY <1>2, EditRefused
    <2>2. SyncInv(p)'  BY <1>2, RestingIsSafe
    <2>3. TagsSettle'  BY <2>1 DEF TagsSettle
    <2> QED  BY <1>1, <2>1, <2>2, <2>3, MovedIsSafe
  <1>3. CASE sync'[p].step # "none"
    <2>1. PICK plan : plan = Planned(p)  OBVIOUS
    <2>2. /\ sync'[p].step = "bind" /\ sync'[p].rows = sync[p].rows
          /\ webhooks' = webhooks /\ lost' = lost /\ \A q \in Process : q # p => sync'[q] = sync[q]
      BY <1>3, <2>1, EditedForum
    <2>3. FoundInv(p)'  BY <1>3, EditFinds
    <2>4. sync'[p].rows = rows'  BY <1>1, <2>2 DEF Safe, SyncInv
    <2>5. lost' \/ Current' \/ Later(p)'  BY <1>1, <2>2 DEF Safe, SyncInv, Current, Later
    <2>6. SyncInv(p)'  BY <2>2, <2>3, <2>4, <2>5 DEF SyncInv
    <2> QED  BY <1>1, <1>3, <2>2, <2>6, MovedIsSafe
  <1> QED  BY <1>2, <1>3

\* When the last webhook has been handled, the table is that of the labels.
LEMMA BindSettles ==
  ASSUME TypeInv, Always, Safe, NEW p \in Process, BindTags(p)
  PROVE  TagsSettle'
PROOF
  <1> SUFFICES ASSUME Settled', ~lost', ~clash' PROVE Matched'  BY DEF TagsSettle
  <1>1. sync \in Syncs  BY TypeInvIs DEF SyncsFit
  <1>2. sync[p].step = "bind" /\ labels' = labels /\ tags' = tags /\ fresh' = fresh /\ lost' = lost
    BY DEF BindTags, At
  <1>3. /\ FoundInv(p) /\ (lost \/ Current \/ Later(p)) /\ sync[p].rows = rows /\ TableInv
    BY <1>2 DEF Safe, SyncInv, Always
  <1>4. ~Later(p)
    <2>1. webhooks' = (IF p = "worker" THEN webhooks - 1 ELSE webhooks)  BY DEF BindTags, End
    <2>2. webhooks' = 0 /\ webhooks \in Nat  BY TypeInvIs DEF Settled, WorkFits
    <2> QED  BY <2>1, <2>2 DEF Later
  <1>5. Current  BY <1>2, <1>3, <1>4
  <1>6. /\ \A s \in rows' : \E r \in Active(rows) : s = New(p, r)
        /\ \A r \in Active(rows) : New(p, r) \in rows'
    BY BoundRows
  <1>7. {r.label : r \in rows'} = Live(labels)
    <2>1. ASSUME NEW r \in rows' PROVE r.label \in Live(labels)
      <3>1. PICK a \in Active(rows) : r = New(p, a)  BY <1>6
      <3> QED  BY <1>3, <1>5, <3>1, NewRow DEF Current
    <2>2. ASSUME NEW l \in Live(labels) PROVE \E r \in rows' : r.label = l
      <3>1. PICK a \in Active(rows) : a.label = l  BY <1>5 DEF Current
      <3>2. New(p, a) \in rows' /\ New(p, a).label = l  BY <1>3, <1>6, <3>1, NewRow
      <3> QED  BY <3>2
    <2> QED  BY <2>1, <2>2
  <1>8. ASSUME NEW r \in rows' PROVE r.name = labels[r.label] /\ ~r.stale
    <2>1. PICK a \in Active(rows) : r = New(p, a)  BY <1>6
    <2>2. r.name = a.name /\ r.label = a.label /\ ~r.stale  BY <1>3, <2>1, NewRow
    <2> QED  BY <1>5, <2>2 DEF Current
  <1>9. ASSUME fresh, NEW r \in rows'
        PROVE  r.tag \in Ids(tags) \/ (r.tag = NoTag /\ Len(tags) = MaxTags)
    <2>1. PICK a \in Active(rows) : r = New(p, a)  BY <1>6
    <2>2. r.tag = TagAt(sync[p].found, a.position)  BY <1>3, <2>1, NewRow
    <2>3. \A f \in sync[p].found : f.tag \in Ids(tags)  BY <1>3, <1>9 DEF FoundInv
    <2>4. (\E f \in sync[p].found : f.position = a.position) \/ Len(tags) = MaxTags
      BY <1>3, <1>9 DEF FoundInv
    <2>5. CASE \E f \in sync[p].found : f.position = a.position  BY <2>2, <2>3, <2>5, TagAtIs
    <2>6. CASE Len(tags) = MaxTags  BY <2>2, <2>3, <2>6, TagAtIs
    <2> QED  BY <2>4, <2>5, <2>6
  <1> QED  BY <1>2, <1>7, <1>8, <1>9 DEF Matched

LEMMA BindIsSafe ==
  ASSUME TypeInv, Always, Safe, NEW p \in Process, BindTags(p)
  PROVE  Safe'
PROOF
  <1>1. sync[p].step # "none"  BY DEF BindTags, At
  <1>2. sync'[p].step = "none" /\ \A q \in Process : q # p => sync'[q] = sync[q]  BY BindRests
  <1>3. SyncInv(p)'  BY <1>2, RestingIsSafe
  <1> QED  BY <1>1, <1>2, <1>3, BindSettles, MovedIsSafe

\* Past its own table, p is not the first to run alone.
LEMMA LateIsSettled ==
  ASSUME MixedInv, mixed # "yes", NEW p \in Process, sync[p].step \notin Early, NEW r \in rows, r.stale
  PROVE  labels[r.label] = NoName
PROOF  BY DEF MixedInv

\* A label keeps the tag that is there: it has been found for its row, or for one before it, and
\* then the index refuses the batch.
LEMMA BindKeeps ==
  ASSUME TypeInv, Always, Safe, MixedInv, mixed # "yes", NEW p \in Process, BindTags(p),
         NEW r \in rows, r.tag \in Ids(tags), labels[r.label] # NoName
  PROVE  \E s \in rows' : s.label = r.label /\ s.tag = r.tag
PROOF
  <1>1. sync[p].step = "bind"  BY DEF BindTags, At
  <1>2. r \in Active(rows)  BY <1>1, LateIsSettled DEF Active, Early
  <1>3. FoundInv(p) /\ sync[p].rows = rows /\ TableInv  BY <1>1 DEF Safe, SyncInv, Always
  <1>4. PICK f \in sync[p].found :
          f.tag = r.tag /\ f.position <= r.position /\ \E s \in Active(rows) : s.position = f.position
    BY <1>2, <1>3 DEF FoundInv
  <1>5. TagAt(sync[p].found, f.position) = r.tag
    <2>1. \A g, h \in sync[p].found : g.position = h.position => g = h  BY <1>3 DEF FoundInv
    <2> QED  BY <1>4, <2>1, TagAtOnly
  <1>6. CASE rows' = rows  BY <1>6
  <1>7. CASE /\ \A n \in 0..Places : Unique(Updated(rows, Active(rows), sync[p].found, n))
             /\ \A q \in Active(rows) : New(p, q) \in rows'
    <2>1. CASE f.position = r.position
      <3>1. New(p, r).label = r.label /\ New(p, r).tag = r.tag  BY <1>2, <1>3, <1>5, <2>1, NewRow
      <3> QED  BY <1>2, <1>7, <3>1
    <2>2. CASE f.position # r.position
      <3>1. PICK s \in Active(rows) : s.position = f.position  BY <1>4
      <3> DEFINE n == f.position + 1
                 u == UpdatedRow(s, Active(rows), sync[p].found, n)
                 v == UpdatedRow(r, Active(rows), sync[p].found, n)
      <3>2. r.position \in Nat /\ f.position \in Nat /\ r.position < Places /\ Places \in Nat
        <4>1. r \in Row /\ r.position < Places  BY <1>2, <1>3, NewRow
        <4>2. sync[p].found \in SUBSET Tagged  BY TypeInvIs, SyncTyped
        <4> QED  BY <4>1, <4>2, PlacesAreFinite DEF Row, Tagged
      <3>3. n \in 0..Places /\ f.position < n /\ ~(r.position < n)  BY <1>4, <2>2, <3>2
      <3>4. s \in Row /\ r \in Row /\ s \in rows /\ r \in rows  BY <1>2, <1>3, NewRow
      <3>5. sync[p].found \in SUBSET Tagged  BY TypeInvIs, SyncTyped
      <3> HIDE DEF n
      <3>6. u.position = f.position /\ u.tag = r.tag
        BY <1>5, <3>1, <3>3, <3>4, <3>5, UpdatedRowFacts
      <3>7. v = r  BY <3>3, <3>4, <3>5, UpdatedRowFacts
      <3>8. u \in Updated(rows, Active(rows), sync[p].found, n)
            /\ v \in Updated(rows, Active(rows), sync[p].found, n)
        BY <3>4, UpdatedIs
      <3> HIDE DEF u, v
      <3>9. Unique(Updated(rows, Active(rows), sync[p].found, n))  BY <1>7, <3>3
      <3>10. r.tag # NoTag
        <4>1. \A i \in DOMAIN tags : tags[i].id \in 1..lastTag  BY <1>3 DEF TableInv
        <4> QED  BY <4>1 DEF Ids, NoTag
      <3>11. u = r  BY <3>6, <3>7, <3>8, <3>9, <3>10 DEF Unique
      <3> QED  BY <2>2, <3>6, <3>11
    <2> QED  BY <2>1, <2>2
  <1> QED  BY <1>3, <1>6, <1>7, BoundRows

----------------------------------------------------------------------------
\* The invariant, and what it gives.

LEMMA InitIInv == Init => IInv
PROOF
  <1> SUFFICES ASSUME Init PROVE IInv  OBVIOUS
  <1>1. PICK first \in {NoName} \cup {Plain(w) : w \in 1..MaxWord} :
          labels = [l \in Label |-> IF \A k \in Label : l <= k THEN first ELSE NoName]
    BY DEF Init
  <1>2. Distinct(labels)
    <2> SUFFICES ASSUME NEW k \in Live(labels), NEW l \in Live(labels) PROVE k = l  BY DEF Distinct
    <2>1. k \in Label /\ l \in Label /\ k \in Nat /\ l \in Nat  BY LabelAssumption DEF Live
    <2>2. k <= l /\ l <= k  BY <1>1, <2>1 DEF Live
    <2> QED  BY <2>1, <2>2
  <1>3. \A i \in DOMAIN tags : tags[i].id \in 1..lastTag
    <2>1. lastTag = 1  BY DEF Init
    <2>2. CASE tags = <<>>  BY <2>2
    <2>3. CASE \E w \in (1..MaxWord) \ LongWord : tags = <<[id |-> 1, name |-> Plain(w)]>>
      <3>1. PICK w \in (1..MaxWord) \ LongWord : tags = <<[id |-> 1, name |-> Plain(w)]>>  BY <2>3
      <3>2. DOMAIN tags = {1} /\ tags[1].id = 1  BY <3>1
      <3> QED  BY <2>1, <3>2
    <2> QED  BY <2>2, <2>3 DEF Init
  <1>4. rows = {}  BY DEF Init
  <1>5. TableInv  BY <1>2, <1>3, <1>4 DEF TableInv, OneRow, Unique, Placed, Past, Active
  <1>6. sync = [p \in Process |-> Idle] /\ starts = 0 /\ mixed = "no"  BY DEF Init
  <1>7. \A p \in Process : sync[p].step = "none" /\ sync[p] = Idle  BY <1>6 DEF Idle
  <1>8. Always  BY <1>5, <1>7 DEF Always, HeldInv
  <1>9. Safe
    <2>1. \A p \in Process : SyncInv(p)  BY <1>7 DEF SyncInv
    <2>2. OneRuns  BY <1>7 DEF OneRuns
    <2>3. TagsSettle  BY <1>6 DEF TagsSettle, Settled
    <2> QED  BY <2>1, <2>2, <2>3 DEF Safe
  <1>10. MixedInv  BY <1>4, <1>6 DEF MixedInv
  <1> QED  BY <1>8, <1>9, <1>10, InitTypeInv DEF IInv

LEMMA NextSafe ==
  ASSUME TypeInv, Always, mixed # "yes" => Safe, [Next]_vars, mixed' # "yes"
  PROVE  Safe'
PROOF
  <1>1. ASSUME StartOperator \/ StartWorker PROVE Safe'
    <2>1. PICK p \in Process, seeding \in BOOLEAN : Begin(p, seeding)
      BY <1>1 DEF StartOperator, StartWorker, Process
    <2>2. Alone  BY <2>1 DEF Begin
    <2> QED  BY <2>1, <2>2, AloneIsSafe
  <1>2. ASSUME CreateLabel \/ RenameLabel \/ DeleteLabel PROVE Safe'
    <2>1. mixed' = mixed
      BY <1>2 DEF CreateLabel, RenameLabel, DeleteLabel, UserActs, relay
    <2> QED  BY <1>2, <2>1, UserIsSafe
  <1>3. ASSUME CreateTag \/ RenameTag \/ DeleteTag PROVE Safe'
    <2>1. mixed' = mixed  BY <1>3 DEF CreateTag, RenameTag, DeleteTag, ModeratorActs, relay
    <2> QED  BY <1>3, <2>1, ModeratorIsSafe
  <1>4. ASSUME NEW p \in Process, Interrupt(p) \/ (p = "worker" /\ GiveUp) PROVE Safe'
    <2>1. mixed' = mixed  BY <1>4 DEF Interrupt, GiveUp
    <2> QED  BY <1>4, <2>1, FaultIsSafe
  <1>5. ASSUME NEW p \in Process,
               ReadNames(p) \/ ReadLabels(p) \/ ReadStored(p) \/ ReadForum(p) \/ ReadBindings(p)
        PROVE  Safe'
    <2>1. mixed' = mixed
      BY <1>5 DEF ReadNames, ReadLabels, ReadStored, ReadForum, ReadBindings, history
    <2> QED  BY <1>5, <2>1, ReadIsSafe
  <1>6. ASSUME NEW p \in Process, SeedLabel(p) \/ EditForum(p) \/ BindTags(p) PROVE Safe'
    <2>1. mixed' = mixed  BY <1>6 DEF SeedLabel, EditForum, BindTags
    <2> QED  BY <1>6, <2>1, SeedIsSafe, EditIsSafe, BindIsSafe
  <1>7. ASSUME NEW p \in Process, ReplaceRows(p) PROVE Safe'
    <2>1. mixed # "yes"  BY <1>7 DEF ReplaceRows
    <2> QED  BY <1>7, <2>1, ReplaceIsSafe
  <1>8. CASE UNCHANGED vars
    <2>1. /\ labels' = labels /\ tags' = tags /\ rows' = rows /\ mixed' = mixed
          /\ webhooks' = webhooks /\ sync' = sync /\ starts' = starts /\ fresh' = fresh
          /\ clash' = clash /\ lost' = lost
      BY <1>8 DEF vars
    <2>2. Safe  BY <2>1
    <2>3. ASSUME NEW p \in Process PROVE SyncInv(p)'
      <3>1. SyncInv(p)  BY <2>2 DEF Safe
      <3>2. ReadInv(p) => ReadInv(p)'  BY <2>1 DEF ReadInv, Later
      <3>3. (lost \/ Current \/ Later(p)) => (lost' \/ Current' \/ Later(p)')
        BY <2>1 DEF Current, Later
      <3>4. ForumInv(p) => ForumInv(p)'  BY <2>1 DEF ForumInv
      <3>5. FoundInv(p) => FoundInv(p)'  BY <2>1 DEF FoundInv
      <3> QED  BY <2>1, <3>1, <3>2, <3>3, <3>4, <3>5 DEF SyncInv
    <2>4. TagsSettle'
      <3>1. TagsSettle  BY <2>2 DEF Safe
      <3> QED  BY <2>1, <3>1 DEF TagsSettle, Settled, Alone, Matched
    <2> QED  BY <2>1, <2>2, <2>3, <2>4, OutsideIsSafe
  <1>9. GiveUp => \E p \in Process : p = "worker" /\ GiveUp  BY DEF Process
  <1> QED  BY <1>1, <1>2, <1>3, <1>4, <1>5, <1>6, <1>7, <1>8, <1>9 DEF Next

\* A step that makes no stale row, and brings no synchronization past its table.
LEMMA MixedKeeps ==
  ASSUME MixedInv, mixed' = mixed,
         \A r \in rows' : r.stale => /\ r \in rows
                                     /\ labels[r.label] = NoName => labels'[r.label] = NoName,
         \A q \in Process : sync[q].step \in Early => sync'[q].step \in Early
  PROVE  MixedInv'
PROOF  BY DEF MixedInv

LEMMA NextMixed ==
  ASSUME TypeInv, Always, mixed # "yes" => Safe, MixedInv, [Next]_vars
  PROVE  MixedInv'
PROOF
  <1>1. ASSUME LabelsMove, rows' = rows, NEW r \in rows, labels[r.label] = NoName
        PROVE  labels'[r.label] = NoName
    <2>1. r.label \in Label /\ Known(r.label)
      BY TypeInvIs DEF DataFits, Row, Always, TableInv, Past
    <2> QED  BY <1>1, <2>1 DEF LabelsMove
  <1>2. ASSUME CreateLabel \/ RenameLabel \/ DeleteLabel PROVE MixedInv'
    <2>1. mixed' = mixed /\ rows' = rows /\ sync' = sync
      BY <1>2 DEF CreateLabel, RenameLabel, DeleteLabel, UserActs, relay
    <2>2. LabelsMove  BY <1>2, UserMoves, DeleteLabelMoves DEF Always
    <2> QED  BY <1>1, <2>1, <2>2, MixedKeeps
  <1>3. ASSUME CreateTag \/ RenameTag \/ DeleteTag PROVE MixedInv'
    <2>1. mixed' = mixed /\ rows' = rows /\ sync' = sync /\ labels' = labels
      BY <1>3 DEF CreateTag, RenameTag, DeleteTag, ModeratorActs, relay
    <2> QED  BY <2>1, MixedKeeps
  <1>4. ASSUME StartOperator \/ StartWorker PROVE MixedInv'
    <2>1. PICK p \in Process, seeding \in BOOLEAN : Begin(p, seeding)
      BY <1>4 DEF StartOperator, StartWorker, Process
    <2>2. /\ mixed' = (IF ~Alone THEN "yes" ELSE IF mixed = "no" THEN "no" ELSE "mending")
          /\ rows' = rows /\ labels' = labels
      BY <2>1 DEF Begin
    <2>3. ASSUME Alone, NEW q \in Process PROVE sync'[q].step \in Early
      <3>1. CASE q = p
        <4>1. sync'[p].step \in {"names", "labels"}  BY <2>1, Begun
        <4> QED  BY <3>1, <4>1 DEF Early
      <3>2. CASE q # p
        <4>1. sync'[q] = Idle  BY <2>1, <2>3, <3>2, Begun DEF Alone
        <4> QED  BY <4>1 DEF Idle, Early
      <3> QED  BY <3>1, <3>2
    <2>4. mixed' = "no" => mixed = "no"  BY <2>2
    <2>5. mixed' = "mending" => Alone  BY <2>2
    <2> QED  BY <2>2, <2>3, <2>4, <2>5 DEF MixedInv
  <1>5. ASSUME NEW p \in Process, Interrupt(p) \/ (p = "worker" /\ GiveUp) PROVE MixedInv'
    <2>1. mixed' = mixed /\ rows' = rows /\ labels' = labels  BY <1>5 DEF Interrupt, GiveUp
    <2>2. sync'[p].step = "none" /\ \A q \in Process : q # p => sync'[q] = sync[q]
      BY <1>5, Faulted
    <2>3. \A q \in Process : sync[q].step \in Early => sync'[q].step \in Early
      BY <2>2 DEF Early
    <2> QED  BY <2>1, <2>3, MixedKeeps
  <1>6. ASSUME NEW p \in Process,
               ReadNames(p) \/ ReadLabels(p) \/ ReadStored(p) \/ ReadForum(p) \/ ReadBindings(p)
        PROVE  MixedInv'
    <2>1. mixed' = mixed /\ rows' = rows /\ labels' = labels
      BY <1>6 DEF ReadNames, ReadLabels, ReadStored, ReadForum, ReadBindings, history
    <2>2. \A q \in Process : q # p => sync'[q] = sync[q]
      BY <1>6, NamesRead, LabelsRead, StoredRead, ForumRead, BindingsRead
    <2>3. sync[p].step \in Early => sync'[p].step \in Early
      BY <1>6, NamesRead, LabelsRead, StoredRead DEF ReadForum, ReadBindings, At, Early
    <2>4. \A q \in Process : sync[q].step \in Early => sync'[q].step \in Early
      BY <2>2, <2>3
    <2> QED  BY <2>1, <2>4, MixedKeeps
  <1>7. ASSUME NEW p \in Process, SeedLabel(p) PROVE MixedInv'
    <2>1. mixed' = mixed /\ rows' = rows  BY <1>7 DEF SeedLabel
    <2>2. \A q \in Process : q # p => sync'[q] = sync[q]  BY <1>7, Seeded
    <2>3. sync'[p].step \in {"none", "seed", "stored"} /\ (labels' = labels \/ LabelsMove)
      BY <1>7, Seeded
    <2>4. \A q \in Process : sync[q].step \in Early => sync'[q].step \in Early
      BY <2>2, <2>3 DEF Early
    <2>5. \A r \in rows : labels[r.label] = NoName => labels'[r.label] = NoName
      BY <1>1, <2>1, <2>3
    <2> QED  BY <2>1, <2>4, <2>5, MixedKeeps
  <1>8. ASSUME NEW p \in Process, ReplaceRows(p) PROVE MixedInv'
    <2>1. mixed' = IF mixed = "mending" THEN "no" ELSE mixed  BY <1>8 DEF ReplaceRows
    <2>2. mixed' = "no" => \A r \in rows' : r.stale => labels'[r.label] = NoName
      BY <1>8, <2>1, ReplacedAlone
    <2> QED  BY <2>1, <2>2 DEF MixedInv
  <1>9. ASSUME NEW p \in Process, EditForum(p) PROVE MixedInv'
    <2>1. mixed' = mixed /\ rows' = rows /\ labels' = labels /\ sync[p].step = "edit"
      BY <1>9 DEF EditForum, At
    <2>2. \A q \in Process : q # p => sync'[q] = sync[q]  BY <1>9, EditRefused, EditedForum
    <2>3. \A q \in Process : sync[q].step \in Early => sync'[q].step \in Early
      BY <2>1, <2>2 DEF Early
    <2> QED  BY <2>1, <2>3, MixedKeeps
  <1>10. ASSUME NEW p \in Process, BindTags(p) PROVE MixedInv'
    <2>1. mixed' = mixed /\ labels' = labels  BY <1>10 DEF BindTags
    <2>2. \A r \in rows' : r.stale => r \in rows
      <3>1. TableInv  BY DEF Always
      <3> QED  BY <1>10, <3>1, BoundRows, NewRow
    <2>3. sync'[p].step = "none" /\ \A q \in Process : q # p => sync'[q] = sync[q]
      BY <1>10, BindRests
    <2>4. \A q \in Process : sync[q].step \in Early => sync'[q].step \in Early
      BY <2>3 DEF Early
    <2> QED  BY <2>1, <2>2, <2>4, MixedKeeps
  <1>11. CASE UNCHANGED vars
    <2>1. mixed' = mixed /\ rows' = rows /\ labels' = labels /\ sync' = sync  BY <1>11 DEF vars
    <2> QED  BY <2>1, MixedKeeps
  <1>12. GiveUp => \E p \in Process : p = "worker" /\ GiveUp  BY DEF Process
  <1> QED  BY <1>2, <1>3, <1>4, <1>5, <1>6, <1>7, <1>8, <1>9, <1>10, <1>11, <1>12 DEF Next

\* The table is written by ReplaceRows and BindTags only.
LEMMA RowsRest ==
  ASSUME [Next]_vars, \A p \in Process : ~ReplaceRows(p) /\ ~BindTags(p)
  PROVE  rows' = rows
PROOF
  <1>1. CASE CreateLabel \/ RenameLabel
    BY <1>1 DEF CreateLabel, RenameLabel, UserActs, relay
  <1>2. CASE DeleteLabel  BY <1>2 DEF DeleteLabel, relay
  <1>3. CASE CreateTag \/ RenameTag \/ DeleteTag
    BY <1>3 DEF CreateTag, RenameTag, DeleteTag, ModeratorActs, relay
  <1>4. CASE StartOperator \/ StartWorker  BY <1>4 DEF StartOperator, StartWorker, Begin
  <1>5. CASE GiveUp  BY <1>5 DEF GiveUp
  <1>6. ASSUME NEW p \in Process, Interrupt(p) PROVE rows' = rows  BY <1>6 DEF Interrupt
  <1>7. ASSUME NEW p \in Process, ReadNames(p) \/ ReadLabels(p) \/ SeedLabel(p) \/ ReadStored(p)
        PROVE  rows' = rows
    BY <1>7 DEF ReadNames, ReadLabels, SeedLabel, ReadStored
  <1>8. ASSUME NEW p \in Process, ReadForum(p) \/ ReadBindings(p) \/ EditForum(p)
        PROVE  rows' = rows
    BY <1>8 DEF ReadForum, ReadBindings, EditForum
  <1>9. CASE UNCHANGED vars  BY <1>9 DEF vars
  <1> QED  BY <1>1, <1>2, <1>3, <1>4, <1>5, <1>6, <1>7, <1>8, <1>9 DEF Next

\* A synchronization goes from the edit of the forum to the table by EditForum only.
LEMMA EditsOnly ==
  ASSUME TypeInv, Safe, [Next]_vars, NEW p \in Process,
         At(p, "edit"), sync'[p].step = "bind"
  PROVE  EditForum(p)
PROOF
  <1>1. sync \in Syncs /\ sync[p].step = "edit" /\ sync[p] # Idle
    BY TypeInvIs DEF SyncsFit, At, Idle
  <1>2. sync' # sync  BY <1>1
  <1>3. \A q \in Process : sync[q].step # "none" => q = p
    <2> SUFFICES ASSUME NEW q \in Process, sync[q].step # "none" PROVE q = p  OBVIOUS
    <2>1. sync[q] # Idle  BY DEF Idle
    <2> QED  BY <1>1, <2>1 DEF Safe, OneRuns
  <1>4. ~(CreateLabel \/ RenameLabel)  BY <1>2 DEF CreateLabel, RenameLabel, UserActs, relay
  <1>5. ~DeleteLabel  BY <1>2 DEF DeleteLabel, relay
  <1>6. ~(CreateTag \/ RenameTag \/ DeleteTag)
    BY <1>2 DEF CreateTag, RenameTag, DeleteTag, ModeratorActs, relay
  <1>7. ~(StartOperator \/ StartWorker)
    <2> SUFFICES ASSUME NEW q \in Process, NEW seeding \in BOOLEAN, Begin(q, seeding) PROVE FALSE
      BY DEF StartOperator, StartWorker, Process
    <2>1. q # p  BY <1>1 DEF Begin
    <2>2. Becomes(q, IF seeding THEN "names" ELSE "labels", {}, NoNames, {}, <<>>, {})
      BY <1>1, BeginMoves
    <2>3. sync'[p] = sync[p]  BY <1>1, <2>1, <2>2, BecomesTyped
    <2> QED  BY <1>1, <2>3
  <1>8. ASSUME NEW q \in Process, sync' = [sync EXCEPT ![q] = Idle] PROVE FALSE
    BY <1>1, <1>8 DEF Idle, Syncs
  <1>9. ~GiveUp
    <2>1. "worker" \in Process  BY DEF Process
    <2> QED  BY <1>8, <2>1 DEF GiveUp, End
  <1>10. \A q \in Process : ~Interrupt(q)  BY <1>8 DEF Interrupt
  <1>11. ASSUME NEW q \in Process,
                \/ ReadNames(q) \/ ReadLabels(q) \/ SeedLabel(q) \/ ReadStored(q)
                \/ ReplaceRows(q) \/ ReadForum(q) \/ ReadBindings(q) \/ BindTags(q)
         PROVE  FALSE
    <2>1. sync[q].step \notin {"none", "edit"}
      BY <1>11 DEF ReadNames, ReadLabels, SeedLabel, ReadStored, ReplaceRows, ReadForum,
                   ReadBindings, BindTags, At
    <2> QED  BY <1>1, <1>3, <2>1
  <1>12. ASSUME NEW q \in Process, EditForum(q) PROVE q = p
    <2>1. sync[q].step # "none"  BY <1>12 DEF EditForum, At
    <2> QED  BY <1>3, <2>1
  <1>13. ~UNCHANGED vars  BY <1>2 DEF vars
  <1> QED  BY <1>4, <1>5, <1>6, <1>7, <1>9, <1>10, <1>11, <1>12, <1>13 DEF Next

LEMMA EditTakes ==
  ASSUME TypeInv, Always, Safe, MixedInv, mixed # "yes", NEW p \in Process,
         EditForum(p), sync'[p].step = "bind",
         NEW id \in (Ids(tags) \cap Ids(sync[p].tags)) \ Ids(tags')
  PROVE  \E r \in rows : r.tag = id /\ labels[r.label] = NoName
PROOF
  <1>1. PICK plan : plan = Planned(p)  OBVIOUS
  <1>2. tags' = (IF Given(plan) = sync[p].tags THEN tags ELSE Given(plan))
    BY <1>1, EditedForum
  <1>3. sync[p].step = "edit"  BY DEF EditForum, At
  <1>4. PICK kept : kept = Ids(sync[p].tags) \ StaleTags(sync[p].rows)  OBVIOUS
  <1>5. Asked(p, plan, kept)  BY <1>1, <1>3, <1>4, AskedFor
  <1>6. tags' = Given(plan)  BY <1>2
  <1>7. id \notin kept  BY <1>5, <1>6 DEF Asked
  <1>8. sync[p].rows = rows  BY <1>3 DEF Safe, SyncInv
  <1>9. PICK r \in rows : r.stale /\ r.tag = id  BY <1>4, <1>7, <1>8 DEF StaleTags
  <1> QED  BY <1>3, <1>9, LateIsSettled DEF Early

\* Whatever runs at the same time, the table has one row for a label and one for a tag. Until two
\* synchronizations run at the same time, and again from the next that starts alone, the one
\* under way knows the labels, the table and the forum as far as its next write needs, and a
\* change it has not seen has a webhook of its own.
THEOREM IInvHolds == Spec => []IInv
PROOF
  <1>1. Init => IInv  BY InitIInv
  <1>2. IInv /\ [Next]_vars => IInv'
    <2> SUFFICES ASSUME IInv, [Next]_vars PROVE IInv'  OBVIOUS
    <2>1. TypeInv'  BY NextTypeInv DEF IInv
    <2>2. Always'  BY NextHolds DEF IInv
    <2>3. mixed' # "yes" => Safe'  BY NextSafe DEF IInv
    <2>4. MixedInv'  BY NextMixed DEF IInv
    <2> QED  BY <2>1, <2>2, <2>3, <2>4 DEF IInv
  <1> QED  BY <1>1, <1>2, PTL DEF Spec

\* The labels, the tags, the table of the bindings and both synchronizations have the types of
\* their columns and answers; the forum has at most MaxTags tags, whatever planDiscordForumTags
\* adds to those a moderator makes.
THEOREM TypesHold == Spec => []TypeOK
PROOF
  <1>1. IInv => TypeOK
    BY DEF IInv, TypeInv, DataFits, WorkFits, CountsFit, SyncsFit, MixedInv, TypeOK, Names, Syncs
  <1> QED  BY <1>1, IInvHolds, PTL

\* Once every webhook about labels has been handled and none was given up, label_bindings has a
\* row for every label and no other, by its name, with a tag of the forum unless that is full or
\* a moderator has acted since: if one synchronization has replaced the table alone since two
\* last ran at the same time.
THEOREM TagsAreRight == Spec => []TagsSettle
PROOF
  <1>1. IInv => TagsSettle
    <2>1. Safe => TagsSettle  BY DEF Safe
    <2>2. mixed = "yes" => TagsSettle  BY DEF TagsSettle
    <2> QED  BY <2>1, <2>2 DEF IInv
  <1> QED  BY <1>1, IInvHolds, PTL

\* Neither planLabelBindings nor the batch of syncForumTags takes from a label the tag it has,
\* while both are there: unless two synchronizations have run at the same time and none has
\* started alone since.
THEOREM LabelsKeepTags == Spec => TagsStay
PROOF
  <1> DEFINE Stay == mixed # "yes" =>
               \A r \in rows : r.tag \in Ids(tags) \cap Ids(tags') /\ labels[r.label] # NoName =>
                 \E s \in rows' : s.label = r.label /\ s.tag = r.tag
  <1>1. ASSUME IInv, [Next]_vars, mixed # "yes",
               NEW r \in rows, r.tag \in Ids(tags), labels[r.label] # NoName
        PROVE  \E s \in rows' : s.label = r.label /\ s.tag = r.tag
    <2>1. TypeInv /\ Always /\ Safe /\ MixedInv  BY <1>1 DEF IInv
    <2>2. CASE \A p \in Process : ~ReplaceRows(p) /\ ~BindTags(p)
      <3>1. rows' = rows  BY <1>1, <2>2, RowsRest
      <3> QED  BY <3>1
    <2>3. CASE \E p \in Process : ReplaceRows(p)  BY <2>1, <2>3, ReplacedAlone
    <2>4. CASE \E p \in Process : BindTags(p)  BY <1>1, <2>1, <2>4, BindKeeps
    <2> QED  BY <2>2, <2>3, <2>4
  <1>2. IInv /\ [Next]_vars => Stay  BY <1>1
  <1> HIDE DEF Stay
  <1>3. Spec => [][Stay]_vars  BY <1>2, IInvHolds, PTL DEF Spec
  <1> QED  BY <1>3 DEF Stay, TagsStay

\* The edit of the forum takes from it, of the tags that syncForumTags has read, only those of
\* labels that are gone: unless two synchronizations have run at the same time and none has
\* started alone since.
THEOREM ForumKeepsTags == Spec => ReadTagsStay
PROOF
  <1> DEFINE Stay == mixed # "yes" =>
               \A p \in Process : At(p, "edit") /\ sync'[p].step = "bind" =>
                 \A id \in (Ids(tags) \cap Ids(sync[p].tags)) \ Ids(tags') :
                   \E r \in rows : r.tag = id /\ labels[r.label] = NoName
  <1>1. ASSUME IInv, [Next]_vars, mixed # "yes", NEW p \in Process,
               At(p, "edit"), sync'[p].step = "bind",
               NEW id \in (Ids(tags) \cap Ids(sync[p].tags)) \ Ids(tags')
        PROVE  \E r \in rows : r.tag = id /\ labels[r.label] = NoName
    <2>1. TypeInv /\ Always /\ Safe /\ MixedInv  BY <1>1 DEF IInv
    <2>2. EditForum(p)  BY <1>1, <2>1, EditsOnly
    <2> QED  BY <1>1, <2>1, <2>2, EditTakes
  <1>2. IInv /\ [Next]_vars => Stay  BY <1>1
  <1> HIDE DEF Stay
  <1>3. Spec => [][Stay]_vars  BY <1>2, IInvHolds, PTL DEF Spec
  <1> QED  BY <1>3 DEF Stay, ReadTagsStay

=============================================================================
