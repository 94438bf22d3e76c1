----------------------------- MODULE EditsProofs -----------------------------
(***************************************************************************)
(* Theorems about CampaignEdits for every set of scenes, sets, profiles,   *)
(* slots, locales and values, and every limit of the history; and, in the  *)
(* second part, about TimelineEdits, for every set of tracks, clips and    *)
(* sources, every frame, tolerance and length.                             *)
(***************************************************************************)
EXTENDS CampaignEdits, TimelineEdits, SequenceTheorems, FiniteSetTheorems, WellFoundedInduction, TLAPS

ContentFields == {"name", "clip", "excluded", "profiles", "cells", "kit", "slots", "bindings",
                  "sets", "captions", "locales"}
SnapshotKinds == {"ReplaceCreativeState", "ReplaceSlotBindings", "ReplaceCaptionLocaleState",
                  "ReplaceVariantMatrixState", "ReplaceSceneInclusions"}
ChangedKinds == {"RenameScene", "ApplyTimelinePatch", "ReplaceVariantCell",
                 "ReplaceDeliveryProfileBundle"}

\* A snapshot holds fields of some campaign; any other command one thing and its value.
Restores(r) ==
  \/ r.kind \in SnapshotKinds /\ \E c \in Campaigns : r = Snapshot(r.kind, c)
  \/ r.kind = "RenameScene" /\ r.on \in Scenes /\ r.value \in {"old", "new"}
  \/ r.kind = "ApplyTimelinePatch" /\ r.on \in Scenes /\ r.value \in Lengths
  \/ r.kind = "ReplaceVariantCell" /\ r.on \in Cells /\ r.value \in {"inherited", "cropped"}
  \/ r.kind = "ReplaceDeliveryProfileBundle" /\ r.on \in Profiles /\ r.value \in BOOLEAN

\* A command stands under the scope of the thing it changes.
Belongs(r, scope) ==
  /\ r.kind \in {"RenameScene", "ApplyTimelinePatch"} => scope = SceneScope(r.on)
  /\ r.kind = "ReplaceVariantCell" => scope = CellScope(r.on)
  /\ r.kind = "ReplaceDeliveryProfileBundle" => scope = ProfileScope(r.on)
  /\ r.kind = "ReplaceCreativeState" => scope = MasterScope \/ \E x \in Sets : scope = SetScope(x)
  /\ r.kind \in SnapshotKinds \ {"ReplaceCreativeState"} => scope = MasterScope

\* Both directions of an entry are commands of one kind, about one thing.
EntryOK(e) == /\ Restores(e.forward) /\ Belongs(e.forward, e.scope)
              /\ Restores(e.inverse) /\ Belongs(e.inverse, e.scope)
              /\ e.inverse.kind = e.forward.kind
              /\ e.forward.kind \in ChangedKinds => e.inverse.on = e.forward.on

\* A list of entries is a sequence, of whatever is in it.
ListOK(list) == \E S : list \in Seq(S) /\ \A e \in S : EntryOK(e)

Inv == TypeOK /\ ListOK(history) /\ ListOK(redo)

\* An entry that leads from the campaign to the next one, and back.
Reverses(next, entry) ==
  /\ Applied(next, entry.inverse, entry.scope) = camp
  /\ Applied(camp, entry.forward, entry.scope) = next

\* A command commits a campaign with such an entry.
Recorded ==
  \E next \in Campaigns : \E entry :
    EntryOK(entry) /\ Reverses(next, entry) /\ Commit(next, entry)

-----------------------------------------------------------------------------
\* Partial functions: what they are, with an entry more, and with fewer.
LEMMA PartialFacts ==
  ASSUME NEW S, NEW T
  PROVE  /\ \A f : f \in Partial(S, T) <=>
               f = [y \in DOMAIN f |-> f[y]] /\ DOMAIN f \subseteq S /\ \A y \in DOMAIN f : f[y] \in T
         /\ << >> \in Partial(S, T)
         /\ \A f \in Partial(S, T) : \A x \in S : \A v \in T : Put(f, x, v) \in Partial(S, T)
         /\ \A f \in Partial(S, T) : \A K : Without(f, K) \in Partial(S, T)
<1>1. ASSUME NEW f
      PROVE  f \in Partial(S, T) <=>
               f = [y \in DOMAIN f |-> f[y]] /\ DOMAIN f \subseteq S /\ \A y \in DOMAIN f : f[y] \in T
  <2>1. ASSUME f \in Partial(S, T)
        PROVE  f = [y \in DOMAIN f |-> f[y]] /\ DOMAIN f \subseteq S /\ \A y \in DOMAIN f : f[y] \in T
    <3>1. PICK D \in SUBSET S : f \in [D -> T]
      BY <2>1 DEF Partial
    <3>2. QED
      BY <3>1
  <2>2. ASSUME f = [y \in DOMAIN f |-> f[y]], DOMAIN f \subseteq S, \A y \in DOMAIN f : f[y] \in T
        PROVE  f \in Partial(S, T)
    <3>1. f \in [DOMAIN f -> T]
      BY <2>2
    <3>2. QED
      BY <2>2, <3>1 DEF Partial
  <2>3. QED
    BY <2>1, <2>2
<1>2. << >> \in Partial(S, T)
  <2>1. << >> \in [{} -> T]
    OBVIOUS
  <2>2. QED
    BY <2>1 DEF Partial
<1>3. ASSUME NEW f \in Partial(S, T), NEW x \in S, NEW v \in T, NEW g, g = Put(f, x, v)
      PROVE  g \in Partial(S, T)
  <2>1. DOMAIN g = DOMAIN f \cup {x} /\ g = [y \in DOMAIN g |-> g[y]]
        /\ \A y \in DOMAIN g : g[y] = IF y = x THEN v ELSE f[y]
    BY <1>3 DEF Put
  <2>2. DOMAIN f \subseteq S /\ \A y \in DOMAIN f : f[y] \in T
    BY <1>1
  <2>3. DOMAIN g \subseteq S /\ \A y \in DOMAIN g : g[y] \in T
    BY <2>1, <2>2
  <2>4. QED
    BY <1>1, <2>1, <2>3
<1>4. ASSUME NEW f \in Partial(S, T), NEW K, NEW g, g = Without(f, K)
      PROVE  g \in Partial(S, T)
  <2>1. DOMAIN g = DOMAIN f \ K /\ g = [y \in DOMAIN g |-> g[y]]
        /\ \A y \in DOMAIN g : g[y] = f[y]
    BY <1>4 DEF Without
  <2>2. DOMAIN f \subseteq S /\ \A y \in DOMAIN f : f[y] \in T
    BY <1>1
  <2>3. DOMAIN g \subseteq S /\ \A y \in DOMAIN g : g[y] \in T
    BY <2>1, <2>2
  <2>4. QED
    BY <1>1, <2>1, <2>3
<1>5. QED
  BY <1>1, <1>2, <1>3, <1>4

\* Putting a key back, or taking it away again.
LEMMA PutBack ==
  ASSUME NEW S, NEW T, NEW f \in Partial(S, T), NEW x, NEW v
  PROVE  /\ x \in DOMAIN f => Put(Put(f, x, v), x, f[x]) = f
         /\ x \in DOMAIN f => Put([f EXCEPT ![x] = v], x, f[x]) = f
         /\ x \in DOMAIN f => Put(f, x, v) = [f EXCEPT ![x] = v]
         /\ x \notin DOMAIN f => Without(Put(f, x, v), {x}) = f
<1>1. f = [y \in DOMAIN f |-> f[y]]
  BY PartialFacts
<1>2. QED
  BY <1>1 DEF Put, Without

\* A partial function with another value of one of its keys.
LEMMA PartialReplaced ==
  ASSUME NEW S, NEW T, NEW f \in Partial(S, T), NEW x \in DOMAIN f, NEW v \in T,
         NEW g, g = [f EXCEPT ![x] = v]
  PROVE  g \in Partial(S, T)
<1>1. x \in S
  BY PartialFacts
<1>2. g = Put(f, x, v)
  BY PutBack
<1>3. \A h \in Partial(S, T) : \A y \in S : \A w \in T : Put(h, y, w) \in Partial(S, T)
  BY PartialFacts
<1>4. Put(f, x, v) \in Partial(S, T)
  BY <1>1, <1>3
<1>5. QED
  BY <1>2, <1>4

-----------------------------------------------------------------------------
\* Campaigns are records of the content's fields.
LEMMA CampaignShape ==
  ASSUME NEW c \in Campaigns
  PROVE  DOMAIN c = ContentFields /\ c = [f \in ContentFields |-> c[f]]
BY DEF Campaigns, ContentFields

\* A campaign with some of its fields from another is a campaign.
LEMMA MixedCampaign ==
  ASSUME NEW c \in Campaigns, NEW d \in Campaigns, NEW F, NEW m,
         m = [f \in DOMAIN c |-> IF f \in F THEN d[f] ELSE c[f]]
  PROVE  m \in Campaigns
BY DEF Campaigns

\* The parts of a campaign.
LEMMA CampaignParts ==
  ASSUME NEW c \in Campaigns
  PROVE  /\ c.name \in [Scenes -> {"old", "new"}] /\ c.clip \in [Scenes -> Lengths]
         /\ c.excluded \subseteq Scenes /\ c.profiles \in Partial(Profiles, Locales \cup {NoLocale})
         /\ c.cells \in Partial(Cells, {"inherited", "cropped"}) /\ c.kit \in {"none", "brand"}
         /\ c.slots \in Partial(Slots, {"plain", "styled"}) /\ c.bindings \in Partial(Slots, Scenes)
         /\ c.sets \in Partial(Sets, Partial(Slots, Values))
         /\ c.captions \in {"none", "heard", "edited"} /\ c.locales \subseteq Locales
BY DEF Campaigns

\* A campaign with other parts is a campaign.
LEMMA CampaignWith ==
  ASSUME NEW c \in Campaigns
  PROVE  /\ \A v \in [Scenes -> {"old", "new"}] : [c EXCEPT !.name = v] \in Campaigns
         /\ \A v \in [Scenes -> Lengths] : [c EXCEPT !.clip = v] \in Campaigns
         /\ \A v \in SUBSET Scenes : [c EXCEPT !.excluded = v] \in Campaigns
         /\ \A v \in Partial(Profiles, Locales \cup {NoLocale}) : [c EXCEPT !.profiles = v] \in Campaigns
         /\ \A v \in Partial(Cells, {"inherited", "cropped"}) : [c EXCEPT !.cells = v] \in Campaigns
         /\ \A v \in {"none", "brand"} : [c EXCEPT !.kit = v] \in Campaigns
         /\ \A v \in Partial(Slots, {"plain", "styled"}) : [c EXCEPT !.slots = v] \in Campaigns
         /\ \A v \in Partial(Slots, Scenes) : [c EXCEPT !.bindings = v] \in Campaigns
         /\ \A v \in Partial(Sets, Partial(Slots, Values)) : [c EXCEPT !.sets = v] \in Campaigns
         /\ \A v \in {"none", "heard", "edited"} : [c EXCEPT !.captions = v] \in Campaigns
         /\ \A v \in SUBSET Locales : [c EXCEPT !.locales = v] \in Campaigns
BY DEF Campaigns

\* What a snapshot holds.
LEMMA SnapshotFacts ==
  ASSUME NEW kind \in SnapshotKinds, NEW d, NEW r, r = Snapshot(kind, d)
  PROVE  /\ r.kind = kind /\ DOMAIN r.value = SnapshotOf(kind)
         /\ \A f \in SnapshotOf(kind) : r.value[f] = d[f]
BY DEF Snapshot, Fields

\* A snapshot that is applied brings its fields back.
LEMMA AppliedSnapshot ==
  ASSUME NEW c \in Campaigns, NEW d, NEW r, NEW scope,
         r.kind \in SnapshotKinds, r = Snapshot(r.kind, d),
         r.kind # "ReplaceCreativeState" \/ scope[1] # "set"
  PROVE  Applied(c, r, scope) =
           [f \in DOMAIN c |-> IF f \in SnapshotOf(r.kind) THEN d[f] ELSE c[f]]
<1>1. /\ DOMAIN r.value = SnapshotOf(r.kind)
      /\ \A f \in SnapshotOf(r.kind) : r.value[f] = d[f]
  BY SnapshotFacts
<1>2. Applied(c, r, scope) = [f \in DOMAIN c |-> IF f \in DOMAIN r.value THEN r.value[f] ELSE c[f]]
  BY DEF Applied, SnapshotKinds
<1>3. QED
  BY <1>1, <1>2

\* The snapshot of the creative state holds the sets.
LEMMA CreativeSnapshot ==
  ASSUME NEW d, NEW r, r = Snapshot("ReplaceCreativeState", d)
  PROVE  r.kind = "ReplaceCreativeState" /\ r.value.sets = d.sets
<1>1. "sets" \in SnapshotOf("ReplaceCreativeState")
  BY DEF SnapshotOf, CreativeFields
<1>2. QED
  BY <1>1, SnapshotFacts DEF SnapshotKinds

\* In the scope of a set it brings back only that set.
LEMMA AppliedToSet ==
  ASSUME NEW c \in Campaigns, NEW d, NEW scope, scope[1] = "set",
         NEW r, r = Snapshot("ReplaceCreativeState", d),
         NEW sets, sets = [c.sets EXCEPT ![scope[2]] = d.sets[scope[2]]]
  PROVE  Applied(c, r, scope) = [c EXCEPT !.sets = sets]
<1>1. r.kind = "ReplaceCreativeState" /\ r.value.sets = d.sets
  BY CreativeSnapshot
<1>2. Applied(c, r, scope) = [c EXCEPT !.sets[scope[2]] = r.value.sets[scope[2]]]
  BY <1>1 DEF Applied
<1>3. QED
  BY <1>1, <1>2

\* What undo and redo make of a campaign is a campaign.
LEMMA AppliedCampaign ==
  ASSUME NEW c \in Campaigns, NEW r, NEW scope, Restores(r), Belongs(r, scope),
         Applicable(c, r, scope)
  PROVE  Applied(c, r, scope) \in Campaigns
<1>1. CASE r.kind \in SnapshotKinds
  <2>1. PICK d \in Campaigns : r = Snapshot(r.kind, d)
    BY <1>1 DEF Restores, SnapshotKinds
  <2>2. CASE r.kind = "ReplaceCreativeState" /\ scope[1] = "set"
    <3> DEFINE x == scope[2]
               v == d.sets[x]
               sets == [c.sets EXCEPT ![x] = v]
    <3>1. r = Snapshot("ReplaceCreativeState", d)
      BY <2>1, <2>2
    <3>2. x \in DOMAIN c.sets /\ x \in DOMAIN d.sets
      <4>1. r.value.sets = d.sets
        BY <3>1, CreativeSnapshot
      <4>2. QED
        BY <2>2, <4>1 DEF Applicable
    <3>3. /\ c.sets \in Partial(Sets, Partial(Slots, Values))
          /\ d.sets \in Partial(Sets, Partial(Slots, Values))
      BY CampaignParts
    <3>4. v \in Partial(Slots, Values) /\ x \in Sets
      BY <3>2, <3>3, PartialFacts
    <3>5. Applied(c, r, scope) = [c EXCEPT !.sets = sets]
      <4> HIDE DEF sets
      <4>1. \A s : s = [c.sets EXCEPT ![scope[2]] = d.sets[scope[2]]] =>
                     Applied(c, r, scope) = [c EXCEPT !.sets = s]
        BY <2>2, <3>1, AppliedToSet
      <4>2. QED
        BY <4>1 DEF sets
    <3> HIDE DEF x, v
    <3>6. sets = Put(c.sets, x, v)
      BY <3>2, <3>3, PutBack DEF Put
    <3>7. sets \in Partial(Sets, Partial(Slots, Values))
      <4>1. \A S, T : \A f \in Partial(S, T) : \A y \in S : \A w \in T : Put(f, y, w) \in Partial(S, T)
        BY PartialFacts
      <4>2. QED
        BY <3>3, <3>4, <3>6, <4>1
    <3> HIDE DEF sets
    <3>8. QED
      BY <3>5, <3>7, CampaignWith, ZenonT(40)
  <2>3. CASE r.kind # "ReplaceCreativeState" \/ scope[1] # "set"
    <3>1. Applied(c, r, scope) = [f \in DOMAIN c |-> IF f \in SnapshotOf(r.kind) THEN d[f] ELSE c[f]]
      BY <1>1, <2>1, <2>3, AppliedSnapshot
    <3>2. QED
      BY <3>1, MixedCampaign
  <2>4. QED
    BY <2>2, <2>3
<1>2. CASE r.kind = "RenameScene"
  <2>1. r.on \in Scenes /\ r.value \in {"old", "new"}
    BY <1>2 DEF Restores, SnapshotKinds
  <2> DEFINE name == [c.name EXCEPT ![r.on] = r.value]
  <2>2. name \in [Scenes -> {"old", "new"}]
    BY <2>1, CampaignParts
  <2>3. Applied(c, r, scope) = [c EXCEPT !.name = name]
    BY <1>2 DEF Applied
  <2> HIDE DEF name
  <2>4. [c EXCEPT !.name = name] \in Campaigns
    BY <2>2, CampaignWith, ZenonT(40)
  <2>5. QED
    BY <2>3, <2>4
<1>3. CASE r.kind = "ApplyTimelinePatch"
  <2>1. r.on \in Scenes /\ r.value \in Lengths
    BY <1>3 DEF Restores, SnapshotKinds
  <2> DEFINE clip == [c.clip EXCEPT ![r.on] = r.value]
  <2>2. clip \in [Scenes -> Lengths]
    BY <2>1, CampaignParts
  <2>3. Applied(c, r, scope) = [c EXCEPT !.clip = clip]
    BY <1>3 DEF Applied
  <2> HIDE DEF clip
  <2>4. QED
    BY <2>2, <2>3, CampaignWith, ZenonT(40)
<1>4. CASE r.kind = "ReplaceVariantCell"
  <2>1. r.on \in Cells /\ r.value \in {"inherited", "cropped"}
    BY <1>4 DEF Restores, SnapshotKinds
  <2> DEFINE cells == Put(c.cells, r.on, r.value)
  <2>2. cells \in Partial(Cells, {"inherited", "cropped"})
    BY <2>1, CampaignParts, PartialFacts
  <2>3. Applied(c, r, scope) = [c EXCEPT !.cells = cells]
    BY <1>4 DEF Applied
  <2> HIDE DEF cells
  <2>4. QED
    BY <2>2, <2>3, CampaignWith, ZenonT(40)
<1>5. CASE r.kind = "ReplaceDeliveryProfileBundle"
  <2>1. r.on \in Profiles /\ r.value \in BOOLEAN
    BY <1>5 DEF Restores, SnapshotKinds
  <2> DEFINE p == r.on
             profiles == IF r.value THEN Put(c.profiles, p, NoLocale) ELSE Without(c.profiles, {p})
             cells == IF r.value THEN Put(c.cells, <<Master, p>>, "inherited")
                      ELSE Without(c.cells, {<<Master, p>>})
  <2>2. profiles \in Partial(Profiles, Locales \cup {NoLocale})
    BY <2>1, CampaignParts, PartialFacts
  <2>3. <<Master, p>> \in Cells
    BY <2>1 DEF Cells
  <2>4. cells \in Partial(Cells, {"inherited", "cropped"})
    BY <2>3, CampaignParts, PartialFacts
  <2>5. Applied(c, r, scope) = [[c EXCEPT !.profiles = profiles] EXCEPT !.cells = cells]
    BY <1>5, CampaignShape DEF Applied, RestoredBundle, ContentFields
  <2> HIDE DEF profiles, cells
  <2>6. [c EXCEPT !.profiles = profiles] \in Campaigns
    BY <2>2, CampaignWith, ZenonT(40)
  <2>7. QED
    BY <2>4, <2>5, <2>6, CampaignWith, ZenonT(40)
<1>6. QED
  BY <1>1, <1>2, <1>3, <1>4, <1>5 DEF Restores

-----------------------------------------------------------------------------
\* A set of natural numbers that is not empty has a least one.
LEMMA LeastNatural ==
  ASSUME NEW T \in SUBSET Nat, T # {}
  PROVE  \E n \in T : \A m \in T : n <= m
<1> DEFINE Less == {p \in Nat \X Nat : p[1] < p[2]}
<1>1. IsWellFoundedOn(Less, Nat)
  BY NatLessThanWellFounded DEF OpToRel
<1>2. \E n \in T : \A m \in T : <<m, n>> \notin Less
  <2> HIDE DEF Less
  <2>1. QED
    BY <1>1, WFMin
<1>3. PICK n \in T : \A m \in T : <<m, n>> \notin Less
  BY <1>2
<1>4. ASSUME NEW m \in T, m < n PROVE FALSE
  <2>1. <<m, n>> \in Less
    BY <1>4
  <2>2. QED
    BY <1>3, <2>1
<1>5. QED
  BY <1>4

\* One that has a bound has a greatest one: its least bound.
LEMMA GreatestNatural ==
  ASSUME NEW T \in SUBSET Nat, T # {}, NEW b \in Nat, \A n \in T : n <= b
  PROVE  \E n \in T : \A m \in T : m <= n
<1> DEFINE Bounds == {k \in Nat : \A n \in T : n <= k}
<1>1. PICK k \in Bounds : \A j \in Bounds : k <= j
  <2>1. Bounds \in SUBSET Nat /\ b \in Bounds
    OBVIOUS
  <2>2. QED
    BY <2>1, LeastNatural
<1>2. ASSUME k \notin T PROVE FALSE
  <2>1. \A n \in T : n \in Nat /\ n < k
    BY <1>1, <1>2
  <2>2. k - 1 \in Nat
    <3>1. PICK n \in T : TRUE
      OBVIOUS
    <3>2. QED
      BY <2>1, <3>1
  <2>3. k - 1 \in Bounds
    BY <2>1, <2>2
  <2>4. QED
    BY <1>1, <2>3
<1>3. QED
  BY <1>1, <1>2

\* The lists of entries.  The latest entry of a scope that has one is an entry of
\* that scope.
LEMMA LatestOfScope ==
  ASSUME NEW S, NEW list \in Seq(S), NEW scope, OfScope(list, scope) # {}
  PROVE  /\ Latest(list, scope) \in 1..Len(list)
         /\ list[Latest(list, scope)].scope = scope
         /\ \A k \in DOMAIN list : list[k].scope = scope => k <= Latest(list, scope)
<1> DEFINE T == OfScope(list, scope)
<1>1. T \in SUBSET Nat /\ T # {} /\ Len(list) \in Nat /\ \A n \in T : n <= Len(list)
  BY DEF OfScope
<1>2. \E n \in T : \A m \in T : m <= n
  BY <1>1, GreatestNatural
<1>3. Latest(list, scope) \in T /\ \A k \in T : k <= Latest(list, scope)
  BY <1>2 DEF Latest
<1>4. QED
  BY <1>3 DEF OfScope

\* A list with an entry more.
LEMMA ListAppended ==
  ASSUME NEW list, ListOK(list), NEW entry, EntryOK(entry)
  PROVE  /\ ListOK(Append(list, entry))
         /\ Len(list) \in Nat /\ Len(Append(list, entry)) = Len(list) + 1
         /\ Append(list, entry)[Len(list) + 1] = entry
<1>1. PICK S : list \in Seq(S) /\ \A e \in S : EntryOK(e)
  BY DEF ListOK
<1> DEFINE T == S \cup {entry}
<1>2. list \in Seq(T) /\ entry \in T /\ \A e \in T : EntryOK(e)
  BY <1>1
<1> HIDE DEF T
<1>3. Append(list, entry) \in Seq(T)
  BY <1>2, AppendProperties
<1>4. ListOK(Append(list, entry))
  BY <1>2, <1>3 DEF ListOK
<1>5. QED
  BY <1>2, <1>4, AppendProperties, LenProperties

\* A list without one of its entries.
LEMMA ListRemoved ==
  ASSUME NEW list, ListOK(list), NEW i \in 1..Len(list)
  PROVE  /\ ListOK(RemoveAt(list, i)) /\ EntryOK(list[i])
         /\ Len(list) \in Nat /\ Len(RemoveAt(list, i)) = Len(list) - 1
<1>1. PICK S : list \in Seq(S) /\ \A e \in S : EntryOK(e)
  BY DEF ListOK
<1> DEFINE front == SubSeq(list, 1, i - 1)
           back == SubSeq(list, i + 1, Len(list))
           n == Len(list)
<1>2. n \in Nat /\ \A j \in 1..n : list[j] \in S
  BY <1>1, LenProperties, ElementOfSeq
<1>3. i \in 1..n
  OBVIOUS
<1>4. front \in Seq(S) /\ Len(front) = IF 1 <= i - 1 THEN i - 1 - 1 + 1 ELSE 0
  <2> HIDE DEF n
  <2>1. 1 \in Int /\ i - 1 \in Int /\ \A j \in 1..(i - 1) : list[j] \in S
    BY <1>2, <1>3
  <2>2. QED
    BY <2>1, SubSeqProperties
<1>5. back \in Seq(S) /\ Len(back) = IF i + 1 <= n THEN n - (i + 1) + 1 ELSE 0
  <2>1. i + 1 \in Int /\ n \in Int /\ \A j \in (i + 1)..n : list[j] \in S
    <3> HIDE DEF n
    <3>1. QED
      BY <1>2, <1>3
  <2>2. QED
    BY <2>1, SubSeqProperties
<1>6. RemoveAt(list, i) \in Seq(S) /\ Len(RemoveAt(list, i)) = Len(front) + Len(back)
  <2> HIDE DEF front, back
  <2>1. front \o back \in Seq(S) /\ Len(front \o back) = Len(front) + Len(back)
    BY <1>4, <1>5, ConcatProperties
  <2>2. QED
    BY <2>1 DEF RemoveAt, front, back
<1>7. Len(RemoveAt(list, i)) = n - 1
  <2> HIDE DEF n, front, back
  <2>1. QED
    BY <1>2, <1>3, <1>4, <1>5, <1>6
<1>8. QED
  BY <1>1, <1>2, <1>3, <1>6, <1>7 DEF ListOK

\* A list that lost its oldest entry to the limit ends as it did.
LEMMA ListTrimmed ==
  ASSUME NEW list, ListOK(list), Len(list) \in 1..(HistoryLimit + 1)
  PROVE  /\ ListOK(Trimmed(list)) /\ Len(Trimmed(list)) \in 1..HistoryLimit
         /\ Trimmed(list)[Len(Trimmed(list))] = list[Len(list)]
<1>1. PICK S : list \in Seq(S) /\ \A e \in S : EntryOK(e)
  BY DEF ListOK
<1>2. HistoryLimit \in Nat /\ HistoryLimit >= 1
  BY HistoryAssumption
<1>3. CASE Len(list) > HistoryLimit
  <2> DEFINE n == Len(list)
             rest == Tail(list)
  <2>1. n \in 1..(HistoryLimit + 1) /\ n > HistoryLimit
    BY <1>3
  <2>2. list # << >>
    BY <1>1, <2>1, <1>2, EmptySeq
  <2>3. rest \in Seq(S) /\ Len(rest) = n - 1 /\ \A i \in 1..Len(rest) : rest[i] = list[i + 1]
    BY <1>1, <2>2, HeadTailProperties
  <2>4. Trimmed(list) = rest
    BY <1>3 DEF Trimmed
  <2>5. ListOK(rest)
    BY <1>1, <2>3 DEF ListOK
  <2> HIDE DEF n, rest
  <2>6. n - 1 \in 1..HistoryLimit /\ (n - 1) + 1 = n
    BY <2>1, <1>2
  <2>7. QED
    BY <2>3, <2>4, <2>5, <2>6 DEF n
<1>4. CASE ~(Len(list) > HistoryLimit)
  BY <1>2, <1>4 DEF Trimmed
<1>5. QED
  BY <1>3, <1>4

-----------------------------------------------------------------------------
\* The steps that record an entry.  Whatever leads somewhere and back, the invariant
\* holds after it, and the new entry stands last in the history.
LEMMA RecordedStep ==
  ASSUME Inv, Recorded
  PROVE  /\ Inv'
         /\ Applied(camp', history'[Len(history')].inverse, history'[Len(history')].scope) = camp
         /\ Applied(camp, history'[Len(history')].forward, history'[Len(history')].scope) = camp'
<1>0. PICK next \in Campaigns :
             \E entry : EntryOK(entry) /\ Reverses(next, entry) /\ Commit(next, entry)
  BY DEF Recorded
<1>1. PICK entry : EntryOK(entry) /\ Reverses(next, entry) /\ Commit(next, entry)
  BY <1>0
<1>2. /\ camp' = next /\ revision < MaxRevision /\ revision' = revision + 1
      /\ history' = Trimmed(Append(history, entry)) /\ redo' = << >>
  BY <1>1 DEF Commit, Committed, Cleared
<1> DEFINE longer == Append(history, entry)
<1>3. /\ ListOK(longer) /\ Len(history) \in Nat /\ Len(longer) = Len(history) + 1
      /\ longer[Len(history) + 1] = entry
  BY <1>1, ListAppended DEF Inv
<1>4. Len(longer) \in 1..(HistoryLimit + 1)
  <2>1. Len(redo) \in Nat
    BY LenProperties DEF Inv, ListOK
  <2>2. Len(history) <= HistoryLimit
    BY <1>3, <2>1, HistoryAssumption DEF Inv, TypeOK
  <2>3. QED
    BY <1>3, <2>2, HistoryAssumption
<1>5. /\ ListOK(history') /\ Len(history') \in 1..HistoryLimit
      /\ history'[Len(history')] = entry
  <2> HIDE DEF longer
  <2>1. /\ ListOK(Trimmed(longer)) /\ Len(Trimmed(longer)) \in 1..HistoryLimit
        /\ Trimmed(longer)[Len(Trimmed(longer))] = longer[Len(longer)]
    BY <1>3, <1>4, ListTrimmed
  <2>2. history' = Trimmed(longer)
    BY <1>2 DEF longer
  <2>3. QED
    BY <1>3, <2>1, <2>2
<1>6. ListOK(redo') /\ Len(redo') = 0
  <2>1. << >> \in Seq({})
    OBVIOUS
  <2>2. QED
    BY <1>2, <2>1 DEF ListOK
<1>7. revision' \in 0..MaxRevision
  BY <1>2, HistoryAssumption DEF Inv, TypeOK
<1>8. TypeOK'
  BY <1>1, <1>2, <1>5, <1>6, <1>7, HistoryAssumption DEF TypeOK
<1>9. QED
  BY <1>1, <1>2, <1>5, <1>6, <1>8 DEF Inv, Reverses

\* A snapshot of one kind, in the scope of the whole campaign, records any campaign
\* that differs in nothing but the fields of that kind.
LEMMA SnapshotRecorded ==
  ASSUME camp \in Campaigns, NEW next \in Campaigns, NEW kind \in SnapshotKinds,
         \A f \in ContentFields \ SnapshotOf(kind) : next[f] = camp[f],
         CommitSnapshot(kind, MasterScope, next)
  PROVE  Recorded
<1> DEFINE there == Snapshot(kind, next)
           back == Snapshot(kind, camp)
           entry == Entry(MasterScope, there, back)
<1>1. there.kind = kind /\ back.kind = kind
  BY DEF Snapshot
<1>2. MasterScope[1] # "set"
  BY DEF MasterScope
<1>3. Applied(next, back, MasterScope) = camp
  <2>1. Applied(next, back, MasterScope) =
          [f \in DOMAIN next |-> IF f \in SnapshotOf(kind) THEN camp[f] ELSE next[f]]
    <3>1. back = Snapshot(back.kind, camp) /\ back.kind \in SnapshotKinds
      BY <1>1
    <3> HIDE DEF back
    <3>2. QED
      BY <1>1, <1>2, <3>1, AppliedSnapshot
  <2>2. QED
    BY <2>1, CampaignShape
<1>4. Applied(camp, there, MasterScope) = next
  <2>1. Applied(camp, there, MasterScope) =
          [f \in DOMAIN camp |-> IF f \in SnapshotOf(kind) THEN next[f] ELSE camp[f]]
    <3>1. there = Snapshot(there.kind, next) /\ there.kind \in SnapshotKinds
      BY <1>1
    <3> HIDE DEF there
    <3>2. QED
      BY <1>1, <1>2, <3>1, AppliedSnapshot
  <2>2. QED
    BY <2>1, CampaignShape
<1>5. entry.scope = MasterScope /\ entry.forward = there /\ entry.inverse = back
  BY DEF Entry
<1>6. Restores(there) /\ Restores(back)
  BY <1>1 DEF Restores
<1>7. Belongs(there, MasterScope) /\ Belongs(back, MasterScope)
  BY <1>1 DEF Belongs, SnapshotKinds
<1>8. Commit(next, entry)
  BY DEF CommitSnapshot
<1> HIDE DEF there, back, entry
<1>9. QED
  BY <1>1, <1>3, <1>4, <1>5, <1>6, <1>7, <1>8 DEF Recorded, Reverses, EntryOK, SnapshotKinds, ChangedKinds

\* In the scope of a creative set, the snapshots of two campaigns that differ in that
\* set only lead from the one to the other.
LEMMA SetThereAndBack ==
  ASSUME NEW c \in Campaigns, NEW d \in Campaigns, NEW x \in DOMAIN c.sets, NEW v,
         d = [c EXCEPT !.sets[x] = v],
         NEW there, there = Snapshot("ReplaceCreativeState", d),
         NEW back, back = Snapshot("ReplaceCreativeState", c),
         NEW scope, scope = SetScope(x)
  PROVE  Applied(d, back, scope) = c /\ Applied(c, there, scope) = d
<1>1. scope[1] = "set" /\ scope[2] = x
  BY DEF SetScope
<1>2. /\ c = [f \in ContentFields |-> c[f]] /\ DOMAIN c = ContentFields
      /\ c.sets = [y \in DOMAIN c.sets |-> c.sets[y]] /\ "sets" \in ContentFields
  BY CampaignShape, CampaignParts, PartialFacts DEF ContentFields
<1>3. d.sets = [c.sets EXCEPT ![x] = v]
  BY <1>2
<1>4. Applied(d, back, scope) = c
  <2>1. Applied(d, back, scope) = [d EXCEPT !.sets[x] = c.sets[x]]
    <3>1. back.kind = "ReplaceCreativeState" /\ back.value.sets = c.sets
      BY CreativeSnapshot
    <3>2. QED
      BY <1>1, <3>1 DEF Applied
  <2>2. [d.sets EXCEPT ![x] = c.sets[x]] = c.sets
    BY <1>2, <1>3
  <2>3. [d EXCEPT !.sets = c.sets] = c
    BY <1>2, <1>3
  <2>4. QED
    BY <2>1, <2>2, <2>3
<1>5. Applied(c, there, scope) = d
  <2>1. Applied(c, there, scope) = [c EXCEPT !.sets[x] = d.sets[x]]
    <3>1. there.kind = "ReplaceCreativeState" /\ there.value.sets = d.sets
      BY CreativeSnapshot
    <3>2. QED
      BY <1>1, <3>1 DEF Applied
  <2>2. [c.sets EXCEPT ![x] = d.sets[x]] = d.sets
    BY <1>2, <1>3
  <2>3. [c EXCEPT !.sets = d.sets] = d
    BY <1>2, <1>3
  <2>4. QED
    BY <2>1, <2>2, <2>3
<1>6. QED
  BY <1>4, <1>5

\* The snapshot kept for the scope of a creative set records any change of that set.
LEMMA SetRecorded ==
  ASSUME camp \in Campaigns, NEW next \in Campaigns, NEW x \in DOMAIN camp.sets, NEW v,
         next = [camp EXCEPT !.sets[x] = v],
         CommitSnapshot("ReplaceCreativeState", SetScope(x), next)
  PROVE  Recorded
<1> DEFINE there == Snapshot("ReplaceCreativeState", next)
           back == Snapshot("ReplaceCreativeState", camp)
           entry == Entry(SetScope(x), there, back)
<1>1. there.kind = "ReplaceCreativeState" /\ back.kind = "ReplaceCreativeState"
  BY DEF Snapshot
<1>2. x \in Sets
  BY CampaignParts, PartialFacts
<1>3. Applied(next, back, SetScope(x)) = camp /\ Applied(camp, there, SetScope(x)) = next
  BY SetThereAndBack
<1>4. entry.scope = SetScope(x) /\ entry.forward = there /\ entry.inverse = back
  BY DEF Entry
<1>5. Restores(there) /\ Restores(back)
  BY <1>1 DEF Restores, SnapshotKinds
<1>6. Belongs(there, SetScope(x)) /\ Belongs(back, SetScope(x))
  BY <1>1, <1>2 DEF Belongs, SnapshotKinds
<1>7. Commit(next, entry)
  BY DEF CommitSnapshot
<1> HIDE DEF there, back, entry
<1>8. QED
  BY <1>1, <1>3, <1>4, <1>5, <1>6, <1>7 DEF Recorded, Reverses, EntryOK, ChangedKinds

\* A command about one thing records its old value and its new one.
LEMMA ChangeRecorded ==
  ASSUME NEW next \in Campaigns, NEW scope, NEW kind \in ChangedKinds, NEW on, NEW new, NEW old,
         Restores(Changed(kind, on, new)), Restores(Changed(kind, on, old)),
         Belongs(Changed(kind, on, new), scope), Belongs(Changed(kind, on, old), scope),
         Applied(camp, Changed(kind, on, new), scope) = next,
         Applied(next, Changed(kind, on, old), scope) = camp,
         Commit(next, Entry(scope, Changed(kind, on, new), Changed(kind, on, old)))
  PROVE  Recorded
<1> DEFINE entry == Entry(scope, Changed(kind, on, new), Changed(kind, on, old))
<1>1. /\ entry.scope = scope /\ entry.forward = Changed(kind, on, new)
      /\ entry.inverse = Changed(kind, on, old)
  BY DEF Entry
<1>2. EntryOK(entry) /\ Reverses(next, entry)
  BY <1>1 DEF EntryOK, Reverses, Changed
<1>3. QED
  BY <1>2 DEF Recorded

-----------------------------------------------------------------------------
\* The commands record their entries, those on a scene first.
LEMMA SceneCommands ==
  ASSUME camp \in Campaigns, NEW s \in Scenes
  PROVE  /\ \A name \in {"old", "new"} : RenameScene(s, name) => Recorded
         /\ \A length \in Lengths : EditTimeline(s, length) => Recorded
         /\ \A included \in BOOLEAN : SetSceneInclusion(s, included) => Recorded
<1>1. /\ camp = [f \in ContentFields |-> camp[f]] /\ DOMAIN camp = ContentFields
      /\ camp.name \in [Scenes -> {"old", "new"}] /\ camp.clip \in [Scenes -> Lengths]
      /\ camp.excluded \subseteq Scenes
  BY CampaignShape, CampaignParts
<1>2. ASSUME NEW name \in {"old", "new"}, RenameScene(s, name)
      PROVE  Recorded
  <2> DEFINE next == [camp EXCEPT !.name[s] = name]
             there == Changed("RenameScene", s, name)
             back == Changed("RenameScene", s, camp.name[s])
  <2>1. next \in Campaigns
    <3> DEFINE names == [camp.name EXCEPT ![s] = name]
    <3>1. names \in [Scenes -> {"old", "new"}] /\ next = [camp EXCEPT !.name = names]
      BY <1>1
    <3> HIDE DEF names, next
    <3>2. [camp EXCEPT !.name = names] \in Campaigns
      BY <3>1, CampaignWith, ZenonT(40)
    <3>3. QED
      BY <3>1, <3>2
  <2>2. Restores(there) /\ Restores(back)
    BY <1>1 DEF Restores, Changed
  <2>3. Belongs(there, SceneScope(s)) /\ Belongs(back, SceneScope(s))
    BY DEF Belongs, Changed, SnapshotKinds
  <2>4. Applied(camp, there, SceneScope(s)) = next
    BY DEF Applied, Changed
  <2>5. Applied(next, back, SceneScope(s)) = camp
    <3>1. Applied(next, back, SceneScope(s)) = [next EXCEPT !.name[s] = camp.name[s]]
      BY DEF Applied, Changed
    <3>2. "name" \in ContentFields /\ next.name = [camp.name EXCEPT ![s] = name]
      BY <1>1 DEF ContentFields
    <3>3. [next.name EXCEPT ![s] = camp.name[s]] = camp.name
      BY <1>1, <3>2
    <3>4. [next EXCEPT !.name = camp.name] = camp
      BY <1>1, <3>2
    <3>5. QED
      BY <3>1, <3>3, <3>4
  <2>6. Commit(next, Entry(SceneScope(s), there, back))
    BY <1>2 DEF RenameScene
  <2> HIDE DEF next
  <2>7. QED
    BY <2>1, <2>2, <2>3, <2>4, <2>5, <2>6, ChangeRecorded DEF ChangedKinds
<1>3. ASSUME NEW length \in Lengths, EditTimeline(s, length)
      PROVE  Recorded
  <2> DEFINE next == [camp EXCEPT !.clip[s] = length]
             there == Changed("ApplyTimelinePatch", s, length)
             back == Changed("ApplyTimelinePatch", s, camp.clip[s])
  <2>1. next \in Campaigns
    <3> DEFINE clips == [camp.clip EXCEPT ![s] = length]
    <3>1. clips \in [Scenes -> Lengths] /\ next = [camp EXCEPT !.clip = clips]
      BY <1>1
    <3> HIDE DEF clips, next
    <3>2. [camp EXCEPT !.clip = clips] \in Campaigns
      BY <3>1, CampaignWith, ZenonT(40)
    <3>3. QED
      BY <3>1, <3>2
  <2>2. Restores(there) /\ Restores(back)
    BY <1>1 DEF Restores, Changed
  <2>3. Belongs(there, SceneScope(s)) /\ Belongs(back, SceneScope(s))
    BY DEF Belongs, Changed, SnapshotKinds
  <2>4. Applied(camp, there, SceneScope(s)) = next
    BY DEF Applied, Changed
  <2>5. Applied(next, back, SceneScope(s)) = camp
    <3>1. Applied(next, back, SceneScope(s)) = [next EXCEPT !.clip[s] = camp.clip[s]]
      BY DEF Applied, Changed
    <3>2. "clip" \in ContentFields /\ next.clip = [camp.clip EXCEPT ![s] = length]
      BY <1>1 DEF ContentFields
    <3>3. [next.clip EXCEPT ![s] = camp.clip[s]] = camp.clip
      BY <1>1, <3>2
    <3>4. [next EXCEPT !.clip = camp.clip] = camp
      BY <1>1, <3>2
    <3>5. QED
      BY <3>1, <3>3, <3>4
  <2>6. Commit(next, Entry(SceneScope(s), there, back))
    BY <1>3 DEF EditTimeline
  <2> HIDE DEF next
  <2>7. QED
    BY <2>1, <2>2, <2>3, <2>4, <2>5, <2>6, ChangeRecorded DEF ChangedKinds
<1>4. ASSUME NEW included \in BOOLEAN, SetSceneInclusion(s, included)
      PROVE  Recorded
  <2> DEFINE excluded == IF included THEN camp.excluded \ {s} ELSE camp.excluded \cup {s}
             next == [camp EXCEPT !.excluded = excluded]
  <2>1. CommitSnapshot("ReplaceSceneInclusions", MasterScope, next)
    BY <1>4 DEF SetSceneInclusion
  <2>2. excluded \in SUBSET Scenes
    BY <1>1
  <2> HIDE DEF excluded
  <2>3. next \in Campaigns
    BY <2>2, CampaignWith, ZenonT(40)
  <2>4. \A f \in ContentFields \ SnapshotOf("ReplaceSceneInclusions") : next[f] = camp[f]
    BY <1>1 DEF SnapshotOf
  <2> HIDE DEF next
  <2>5. QED
    BY <2>1, <2>3, <2>4, SnapshotRecorded DEF SnapshotKinds
<1>5. QED
  BY <1>2, <1>3, <1>4

\* The commands that snapshot one part of the campaign record their entries if they
\* change nothing else: those of the variant matrix.
LEMMA MatrixCommands ==
  ASSUME camp \in Campaigns, NEW next \in Campaigns, Matrix(next),
         \A f \in ContentFields \ {"profiles", "cells", "kit"} : next[f] = camp[f]
  PROVE  Recorded
BY SnapshotRecorded DEF Matrix, SnapshotKinds, SnapshotOf, MatrixFields

\* The commands on the creative state.
LEMMA CreativeCommands ==
  ASSUME camp \in Campaigns, NEW next \in Campaigns, Creative(MasterScope, next),
         \A f \in ContentFields \ {"slots", "bindings", "sets", "cells"} : next[f] = camp[f]
  PROVE  Recorded
BY SnapshotRecorded DEF Creative, SnapshotKinds, SnapshotOf, CreativeFields

\* The commands on the slots' bindings.
LEMMA BindingCommands ==
  ASSUME camp \in Campaigns, NEW next \in Campaigns, Binding(next),
         \A f \in ContentFields \ {"bindings"} : next[f] = camp[f]
  PROVE  Recorded
BY SnapshotRecorded DEF Binding, SnapshotKinds, SnapshotOf

\* The commands on captions and locales.
LEMMA CaptionCommands ==
  ASSUME camp \in Campaigns, NEW next \in Campaigns, Caption(next),
         \A f \in ContentFields \ {"captions", "locales", "profiles"} : next[f] = camp[f]
  PROVE  Recorded
BY SnapshotRecorded DEF Caption, SnapshotKinds, SnapshotOf, CaptionFields

\* The commands on profiles, cells and the brand kit.
LEMMA ProfileCommands ==
  ASSUME camp \in Campaigns, NEW p \in Profiles
  PROVE  /\ CreateDeliveryProfile(p) => Recorded
         /\ \A l \in Locales \cup {NoLocale} : AddDeliveryProfiles(p, l) => Recorded
         /\ \A l \in Locales : CreateLocaleProfile(l, p) => Recorded
<1>1. /\ camp = [f \in ContentFields |-> camp[f]] /\ DOMAIN camp = ContentFields
      /\ camp.profiles \in Partial(Profiles, Locales \cup {NoLocale})
      /\ camp.cells \in Partial(Cells, {"inherited", "cropped"})
      /\ camp.locales \subseteq Locales
  BY CampaignShape, CampaignParts
<1>2. ASSUME CreateDeliveryProfile(p)
      PROVE  Recorded
  <2> DEFINE cell == <<Master, p>>
             profiles == Put(camp.profiles, p, NoLocale)
             cells == Put(camp.cells, cell, "inherited")
             next == RestoredBundle(camp, p, TRUE)
             there == Changed("ReplaceDeliveryProfileBundle", p, TRUE)
             back == Changed("ReplaceDeliveryProfileBundle", p, FALSE)
  <2>1. p \notin DOMAIN camp.profiles /\ cell \notin DOMAIN camp.cells
    BY <1>2 DEF CreateDeliveryProfile, FirstProfile
  <2>2. next = [[camp EXCEPT !.profiles = profiles] EXCEPT !.cells = cells]
    BY <1>1 DEF RestoredBundle, ContentFields
  <2>3. /\ profiles \in Partial(Profiles, Locales \cup {NoLocale})
        /\ cells \in Partial(Cells, {"inherited", "cropped"})
    <3>1. cell \in Cells
      BY DEF Cells
    <3> HIDE DEF cell
    <3>2. QED
      BY <1>1, <3>1, PartialFacts
  <2>4. /\ Without(profiles, {p}) = camp.profiles
        /\ Without(cells, {cell}) = camp.cells
    <3> HIDE DEF cell
    <3>1. \A S, T : \A f \in Partial(S, T) : \A x, v :
            x \notin DOMAIN f => Without(Put(f, x, v), {x}) = f
      BY PutBack, ZenonT(40)
    <3>2. QED
      BY <1>1, <2>1, <3>1
  <2>5. /\ DOMAIN next = ContentFields /\ next.profiles = profiles /\ next.cells = cells
        /\ \A f \in ContentFields \ {"profiles", "cells"} : next[f] = camp[f]
    <3> HIDE DEF profiles, cells, next
    <3>1. QED
      BY <1>1, <2>2 DEF ContentFields
  <2>6. next \in Campaigns
    <3> HIDE DEF profiles, cells, next
    <3>1. [camp EXCEPT !.profiles = profiles] \in Campaigns
      BY <2>3, CampaignWith, ZenonT(40)
    <3>2. QED
      BY <2>2, <2>3, <3>1, CampaignWith, ZenonT(40)
  <2>7. Applied(camp, there, ProfileScope(p)) = next
    BY DEF Applied, Changed
  <2>8. Applied(next, back, ProfileScope(p)) = camp
    <3> HIDE DEF next
    <3>1. Applied(next, back, ProfileScope(p)) = RestoredBundle(next, p, FALSE)
      BY DEF Applied, Changed
    <3>2. RestoredBundle(next, p, FALSE) =
            [[next EXCEPT !.profiles = camp.profiles] EXCEPT !.cells = camp.cells]
      <4> HIDE DEF profiles, cells
      <4>1. QED
        BY <2>4, <2>5 DEF RestoredBundle, ContentFields
    <3>3. QED
      BY <1>1, <2>5, <3>1, <3>2 DEF ContentFields
  <2>9. Restores(there) /\ Restores(back)
    BY DEF Restores, Changed
  <2>10. Belongs(there, ProfileScope(p)) /\ Belongs(back, ProfileScope(p))
    BY DEF Belongs, Changed, SnapshotKinds
  <2>11. Commit(next, Entry(ProfileScope(p), there, back))
    BY <1>2 DEF CreateDeliveryProfile
  <2> HIDE DEF next
  <2>12. QED
    BY <2>6, <2>7, <2>8, <2>9, <2>10, <2>11, ChangeRecorded DEF ChangedKinds
<1>3. ASSUME NEW l \in Locales \cup {NoLocale}, AddDeliveryProfiles(p, l)
      PROVE  Recorded
  <2> DEFINE profiles == Put(camp.profiles, p, l)
             next == [camp EXCEPT !.profiles = profiles]
  <2>1. Matrix(next)
    BY <1>3 DEF AddDeliveryProfiles
  <2>2. profiles \in Partial(Profiles, Locales \cup {NoLocale})
    BY <1>1, PartialFacts
  <2> HIDE DEF profiles
  <2>3. next \in Campaigns
    BY <2>2, CampaignWith, ZenonT(40)
  <2>4. \A f \in ContentFields \ {"profiles", "cells", "kit"} : next[f] = camp[f]
    BY <1>1
  <2> HIDE DEF next
  <2>5. QED
    BY <2>1, <2>3, <2>4, MatrixCommands
<1>4. ASSUME NEW l \in Locales, CreateLocaleProfile(l, p)
      PROVE  Recorded
  <2> DEFINE locales == camp.locales \cup {l}
             profiles == [camp.profiles EXCEPT ![p] = l]
             next == [[camp EXCEPT !.locales = locales] EXCEPT !.profiles = profiles]
  <2>1. p \in DOMAIN camp.profiles /\ Caption(next)
    BY <1>1, <1>4 DEF CreateLocaleProfile, ContentFields
  <2>2. locales \in SUBSET Locales /\ profiles \in Partial(Profiles, Locales \cup {NoLocale})
    BY <1>1, <2>1, PartialReplaced
  <2> HIDE DEF profiles, locales
  <2>3. [camp EXCEPT !.locales = locales] \in Campaigns
    BY <2>2, CampaignWith, ZenonT(40)
  <2>4. next \in Campaigns
    BY <2>2, <2>3, CampaignWith, ZenonT(40)
  <2>5. \A f \in ContentFields \ {"captions", "locales", "profiles"} : next[f] = camp[f]
    BY <1>1
  <2> HIDE DEF next
  <2>6. QED
    BY <2>1, <2>4, <2>5, CaptionCommands
<1>5. QED
  BY <1>2, <1>3, <1>4

\* The commands on a cell record their entries.
LEMMA CellCommands ==
  ASSUME camp \in Campaigns, NEW c \in Cells
  PROVE  /\ \A crop \in {"inherited", "cropped"} : SetVariantCrop(c, crop) => Recorded
         /\ EnableVariantCells(c) => Recorded
         /\ DetachVariantCells(c) => Recorded
<1>1. /\ camp = [f \in ContentFields |-> camp[f]] /\ DOMAIN camp = ContentFields
      /\ camp.cells \in Partial(Cells, {"inherited", "cropped"})
  BY CampaignShape, CampaignParts
<1>2. ASSUME NEW crop \in {"inherited", "cropped"}, SetVariantCrop(c, crop)
      PROVE  Recorded
  <2> DEFINE cells == [camp.cells EXCEPT ![c] = crop]
             next == [camp EXCEPT !.cells = cells]
             there == Changed("ReplaceVariantCell", c, crop)
             back == Changed("ReplaceVariantCell", c, camp.cells[c])
  <2>1. c \in DOMAIN camp.cells /\ Commit(next, Entry(CellScope(c), there, back))
    BY <1>2 DEF SetVariantCrop
  <2>2. cells \in Partial(Cells, {"inherited", "cropped"})
    BY <1>1, <2>1, PartialReplaced
  <2>3. /\ Put(camp.cells, c, crop) = cells
        /\ Put(cells, c, camp.cells[c]) = camp.cells
        /\ camp.cells[c] \in {"inherited", "cropped"}
    <3>1. \A S, T : \A f \in Partial(S, T) : \A v : c \in DOMAIN f =>
            /\ Put(f, c, v) = [f EXCEPT ![c] = v]
            /\ Put([f EXCEPT ![c] = v], c, f[c]) = f
      BY PutBack, ZenonT(40)
    <3>2. camp.cells[c] \in {"inherited", "cropped"}
      BY <1>1, <2>1, PartialFacts
    <3>3. QED
      BY <1>1, <2>1, <3>1, <3>2
  <2>4. next \in Campaigns
    <3> HIDE DEF cells
    <3>1. QED
      BY <2>2, CampaignWith, ZenonT(40)
  <2>5. Applied(camp, there, CellScope(c)) = next
    <3>1. Applied(camp, there, CellScope(c)) = [camp EXCEPT !.cells = Put(camp.cells, c, crop)]
      BY DEF Applied, Changed
    <3>2. QED
      BY <2>3, <3>1
  <2>6. Applied(next, back, CellScope(c)) = camp
    <3> HIDE DEF next
    <3>1. Applied(next, back, CellScope(c)) = [next EXCEPT !.cells = Put(next.cells, c, camp.cells[c])]
      BY DEF Applied, Changed
    <3> HIDE DEF cells
    <3>2. /\ DOMAIN next = ContentFields /\ next.cells = cells
          /\ \A f \in ContentFields \ {"cells"} : next[f] = camp[f]
      BY <1>1 DEF next, ContentFields
    <3>3. Applied(next, back, CellScope(c)) = [next EXCEPT !.cells = camp.cells]
      BY <2>3, <3>1, <3>2
    <3>4. QED
      BY <1>1, <2>3, <3>2, <3>3 DEF ContentFields
  <2>7. Restores(there) /\ Restores(back)
    BY <2>3 DEF Restores, Changed
  <2>8. Belongs(there, CellScope(c)) /\ Belongs(back, CellScope(c))
    BY DEF Belongs, Changed, SnapshotKinds
  <2> HIDE DEF next
  <2>9. QED
    BY <2>1, <2>4, <2>5, <2>6, <2>7, <2>8, ChangeRecorded DEF ChangedKinds
<1>3. ASSUME NEW cells \in Partial(Cells, {"inherited", "cropped"}),
             Matrix([camp EXCEPT !.cells = cells])
      PROVE  Recorded
  <2> DEFINE next == [camp EXCEPT !.cells = cells]
  <2>1. next \in Campaigns
    BY CampaignWith, ZenonT(40)
  <2>2. \A f \in ContentFields \ {"profiles", "cells", "kit"} : next[f] = camp[f]
    BY <1>1
  <2> HIDE DEF next
  <2>3. QED
    BY <1>3, <2>1, <2>2, MatrixCommands DEF next
<1>4. ASSUME EnableVariantCells(c)
      PROVE  Recorded
  <2> DEFINE cells == Put(camp.cells, c, "inherited")
  <2>1. cells \in Partial(Cells, {"inherited", "cropped"})
    BY <1>1, PartialFacts
  <2>2. Matrix([camp EXCEPT !.cells = cells])
    BY <1>4 DEF EnableVariantCells
  <2> HIDE DEF cells
  <2>3. QED
    BY <1>3, <2>1, <2>2
<1>5. ASSUME DetachVariantCells(c)
      PROVE  Recorded
  <2> DEFINE cells == [camp.cells EXCEPT ![c] = "cropped"]
  <2>1. c \in DOMAIN camp.cells /\ Matrix([camp EXCEPT !.cells = cells])
    BY <1>5 DEF DetachVariantCells
  <2>2. cells \in Partial(Cells, {"inherited", "cropped"})
    BY <1>1, <2>1, PartialReplaced
  <2> HIDE DEF cells
  <2>3. QED
    BY <1>3, <2>1, <2>2
<1>6. QED
  BY <1>2, <1>4, <1>5

\* The commands without a subject: the brand kit, the transcript and its captions.
LEMMA OtherCommands ==
  ASSUME camp \in Campaigns
  PROVE  /\ SetBrandKit => Recorded
         /\ AttachTranscript => Recorded
         /\ EditCaption => Recorded
<1>1. camp = [f \in ContentFields |-> camp[f]] /\ DOMAIN camp = ContentFields
  BY CampaignShape
<1>2. ASSUME SetBrandKit
      PROVE  Recorded
  <2> DEFINE next == [camp EXCEPT !.kit = "brand"]
  <2>1. Matrix(next)
    BY <1>2 DEF SetBrandKit
  <2>2. next \in Campaigns
    BY CampaignWith, ZenonT(40)
  <2>3. \A f \in ContentFields \ {"profiles", "cells", "kit"} : next[f] = camp[f]
    BY <1>1
  <2> HIDE DEF next
  <2>4. QED
    BY <2>1, <2>2, <2>3, MatrixCommands
<1>3. ASSUME NEW captions \in {"none", "heard", "edited"},
             Caption([camp EXCEPT !.captions = captions])
      PROVE  Recorded
  <2> DEFINE next == [camp EXCEPT !.captions = captions]
  <2>1. next \in Campaigns
    BY CampaignWith, ZenonT(40)
  <2>2. \A f \in ContentFields \ {"captions", "locales", "profiles"} : next[f] = camp[f]
    BY <1>1
  <2> HIDE DEF next
  <2>3. QED
    BY <1>3, <2>1, <2>2, CaptionCommands DEF next
<1>4. QED
  BY <1>2, <1>3 DEF AttachTranscript, EditCaption

\* The commands on slots.
LEMMA SlotCommands ==
  ASSUME camp \in Campaigns, NEW k \in Slots
  PROVE  /\ CreateSlots(k) => Recorded
         /\ \A s \in Scenes : SetSlotBinding(k, s) => Recorded
         /\ ClearSlotBinding(k) => Recorded
         /\ UpdateMasterSlotStyle(k) => Recorded
         /\ DeleteSlot(k) => Recorded
<1>1. /\ camp = [f \in ContentFields |-> camp[f]] /\ DOMAIN camp = ContentFields
      /\ camp.slots \in Partial(Slots, {"plain", "styled"})
      /\ camp.bindings \in Partial(Slots, Scenes)
  BY CampaignShape, CampaignParts
<1>2. ASSUME NEW slots \in Partial(Slots, {"plain", "styled"}),
             Creative(MasterScope, [camp EXCEPT !.slots = slots])
      PROVE  Recorded
  <2> DEFINE next == [camp EXCEPT !.slots = slots]
  <2>1. next \in Campaigns
    BY CampaignWith, ZenonT(40)
  <2>2. \A f \in ContentFields \ {"slots", "bindings", "sets", "cells"} : next[f] = camp[f]
    BY <1>1
  <2> HIDE DEF next
  <2>3. QED
    BY <1>2, <2>1, <2>2, CreativeCommands DEF next
<1>3. ASSUME NEW bindings \in Partial(Slots, Scenes), Binding([camp EXCEPT !.bindings = bindings])
      PROVE  Recorded
  <2> DEFINE next == [camp EXCEPT !.bindings = bindings]
  <2>1. next \in Campaigns
    BY CampaignWith, ZenonT(40)
  <2>2. \A f \in ContentFields \ {"bindings"} : next[f] = camp[f]
    BY <1>1
  <2> HIDE DEF next
  <2>3. QED
    BY <1>3, <2>1, <2>2, BindingCommands DEF next
<1>4. ASSUME CreateSlots(k) PROVE Recorded
  <2> DEFINE slots == Put(camp.slots, k, "plain")
  <2>1. slots \in Partial(Slots, {"plain", "styled"})
    BY <1>1, PartialFacts
  <2>2. Creative(MasterScope, [camp EXCEPT !.slots = slots])
    BY <1>4 DEF CreateSlots
  <2> HIDE DEF slots
  <2>3. QED
    BY <1>2, <2>1, <2>2
<1>5. ASSUME NEW s \in Scenes, SetSlotBinding(k, s) PROVE Recorded
  <2> DEFINE bindings == Put(camp.bindings, k, s)
  <2>1. bindings \in Partial(Slots, Scenes)
    BY <1>1, PartialFacts
  <2>2. Binding([camp EXCEPT !.bindings = bindings])
    BY <1>5 DEF SetSlotBinding
  <2> HIDE DEF bindings
  <2>3. QED
    BY <1>3, <2>1, <2>2
<1>6. ASSUME ClearSlotBinding(k) PROVE Recorded
  <2> DEFINE bindings == Without(camp.bindings, {k})
  <2>1. bindings \in Partial(Slots, Scenes)
    BY <1>1, PartialFacts
  <2>2. Binding([camp EXCEPT !.bindings = bindings])
    BY <1>6 DEF ClearSlotBinding
  <2> HIDE DEF bindings
  <2>3. QED
    BY <1>3, <2>1, <2>2
<1>7. ASSUME UpdateMasterSlotStyle(k) PROVE Recorded
  <2> DEFINE slots == [camp.slots EXCEPT ![k] = "styled"]
  <2>1. k \in DOMAIN camp.slots /\ Creative(MasterScope, [camp EXCEPT !.slots = slots])
    BY <1>7 DEF UpdateMasterSlotStyle
  <2>2. slots \in Partial(Slots, {"plain", "styled"})
    BY <1>1, <2>1, PartialReplaced
  <2> HIDE DEF slots
  <2>3. QED
    BY <1>2, <2>1, <2>2
<1>8. ASSUME DeleteSlot(k) PROVE Recorded
  <2> DEFINE slots == Without(camp.slots, {k})
  <2>1. slots \in Partial(Slots, {"plain", "styled"})
    BY <1>1, PartialFacts
  <2>2. Creative(MasterScope, [camp EXCEPT !.slots = slots])
    BY <1>8 DEF DeleteSlot
  <2> HIDE DEF slots
  <2>3. QED
    BY <1>2, <2>1, <2>2
<1>9. QED
  BY <1>4, <1>5, <1>6, <1>7, <1>8

\* The commands that delete a slot with what refers to it.
LEMMA SlotDeletions ==
  ASSUME camp \in Campaigns, NEW k \in Slots
  PROVE  /\ \A target \in Slots : RemapAndDeleteSlot(k, target) => Recorded
         /\ DropAndDeleteSlot(k) => Recorded
<1> DEFINE Replacements == Partial(Slots, Values)
<1>1. /\ camp = [f \in ContentFields |-> camp[f]] /\ DOMAIN camp = ContentFields
      /\ camp.slots \in Partial(Slots, {"plain", "styled"})
      /\ camp.bindings \in Partial(Slots, Scenes)
      /\ camp.sets \in Partial(Sets, Replacements)
  BY CampaignShape, CampaignParts
<1>2. DOMAIN camp.sets \subseteq Sets /\ \A x \in DOMAIN camp.sets : camp.sets[x] \in Replacements
  <2> HIDE DEF Replacements
  <2>1. QED
    BY <1>1, PartialFacts
<1>3. \A g \in Replacements : Without(g, {k}) \in Replacements
  BY PartialFacts
<1>4. \A g \in Replacements : \A t \in Slots : \A v \in Values : Put(g, t, v) \in Replacements
  BY PartialFacts
<1>5. \A g \in Replacements : k \in DOMAIN g => g[k] \in Values
  BY PartialFacts
<1> DEFINE slots == Without(camp.slots, {k})
<1>6. slots \in Partial(Slots, {"plain", "styled"})
  BY <1>1, PartialFacts
<1>7. ASSUME NEW target \in Slots, RemapAndDeleteSlot(k, target) PROVE Recorded
  <2> DEFINE Transferred(g) == IF k \in DOMAIN g THEN Put(Without(g, {k}), target, g[k]) ELSE g
             sets == [x \in DOMAIN camp.sets |-> Transferred(camp.sets[x])]
             next == [[camp EXCEPT !.slots = slots] EXCEPT !.sets = sets]
  <2>1. Creative(MasterScope, next)
    BY <1>1, <1>7 DEF RemapAndDeleteSlot, ContentFields
  <2>2. \A g \in Replacements : Transferred(g) \in Replacements
    <3> HIDE DEF Replacements
    <3>1. QED
      BY <1>3, <1>4, <1>5
  <2>3. sets \in Partial(Sets, Replacements)
    <3> HIDE DEF Replacements, Transferred
    <3>1. sets \in [DOMAIN camp.sets -> Replacements]
      BY <1>2, <2>2
    <3>2. QED
      BY <1>2, <3>1 DEF Partial
  <2> HIDE DEF slots, sets
  <2>4. [camp EXCEPT !.slots = slots] \in Campaigns
    BY <1>6, CampaignWith, ZenonT(40)
  <2>5. next \in Campaigns
    BY <2>3, <2>4, CampaignWith, ZenonT(40)
  <2>6. \A f \in ContentFields \ {"slots", "bindings", "sets", "cells"} : next[f] = camp[f]
    BY <1>1
  <2> HIDE DEF next
  <2>7. QED
    BY <2>1, <2>5, <2>6, CreativeCommands
<1>8. ASSUME DropAndDeleteSlot(k) PROVE Recorded
  <2> DEFINE bindings == Without(camp.bindings, {k})
             sets == [x \in DOMAIN camp.sets |-> Without(camp.sets[x], {k})]
             next == [[[camp EXCEPT !.slots = slots] EXCEPT !.bindings = bindings] EXCEPT !.sets = sets]
  <2>1. Creative(MasterScope, next)
    BY <1>1, <1>8 DEF DropAndDeleteSlot, ContentFields
  <2>2. bindings \in Partial(Slots, Scenes)
    BY <1>1, PartialFacts
  <2>3. sets \in Partial(Sets, Replacements)
    <3> HIDE DEF Replacements
    <3>1. sets \in [DOMAIN camp.sets -> Replacements]
      BY <1>2, <1>3
    <3>2. QED
      BY <1>2, <3>1 DEF Partial
  <2> HIDE DEF slots, sets, bindings
  <2>4. [camp EXCEPT !.slots = slots] \in Campaigns
    BY <1>6, CampaignWith, ZenonT(40)
  <2>5. [[camp EXCEPT !.slots = slots] EXCEPT !.bindings = bindings] \in Campaigns
    BY <2>2, <2>4, CampaignWith, ZenonT(40)
  <2>6. next \in Campaigns
    BY <2>3, <2>5, CampaignWith, ZenonT(40)
  <2>7. \A f \in ContentFields \ {"slots", "bindings", "sets", "cells"} : next[f] = camp[f]
    BY <1>1
  <2> HIDE DEF next
  <2>8. QED
    BY <2>1, <2>6, <2>7, CreativeCommands
<1>9. QED
  BY <1>7, <1>8

\* The commands on creative sets.
LEMMA SetCommands ==
  ASSUME camp \in Campaigns, NEW x \in Sets
  PROVE  /\ \A full \in BOOLEAN : CreateCreativeSets(x, full) => Recorded
         /\ \A k \in Slots, v \in Values : AssignSlotValues(x, k, v) => Recorded
<1>1. /\ camp = [f \in ContentFields |-> camp[f]] /\ DOMAIN camp = ContentFields
      /\ camp.cells \in Partial(Cells, {"inherited", "cropped"})
      /\ camp.sets \in Partial(Sets, Partial(Slots, Values))
  BY CampaignShape, CampaignParts
<1>2. ASSUME NEW full \in BOOLEAN, CreateCreativeSets(x, full) PROVE Recorded
  <2> DEFINE new == NewCells(camp, x, full)
             sets == Put(camp.sets, x, << >>)
             cells == [c \in DOMAIN camp.cells \cup new |->
                         IF c \in new THEN "inherited" ELSE camp.cells[c]]
             next == [[camp EXCEPT !.sets = sets] EXCEPT !.cells = cells]
  <2>1. Creative(MasterScope, next)
    BY <1>1, <1>2 DEF CreateCreativeSets, ContentFields
  <2>2. sets \in Partial(Sets, Partial(Slots, Values))
    <3>1. << >> \in Partial(Slots, Values)
      BY PartialFacts
    <3>2. QED
      BY <1>1, <3>1, PartialFacts
  <2>3. cells \in Partial(Cells, {"inherited", "cropped"})
    <3>1. new \subseteq Cells
      BY DEF NewCells
    <3>2. /\ DOMAIN camp.cells \subseteq Cells
          /\ \A c \in DOMAIN camp.cells : camp.cells[c] \in {"inherited", "cropped"}
      BY <1>1, PartialFacts
    <3> HIDE DEF new
    <3>3. cells \in [DOMAIN camp.cells \cup new -> {"inherited", "cropped"}]
      BY <3>2
    <3>4. QED
      BY <3>1, <3>2, <3>3 DEF Partial
  <2> HIDE DEF sets, cells
  <2>4. [camp EXCEPT !.sets = sets] \in Campaigns
    BY <2>2, CampaignWith, ZenonT(40)
  <2>5. next \in Campaigns
    BY <2>3, <2>4, CampaignWith, ZenonT(40)
  <2>6. \A f \in ContentFields \ {"slots", "bindings", "sets", "cells"} : next[f] = camp[f]
    BY <1>1
  <2> HIDE DEF next
  <2>7. QED
    BY <2>1, <2>5, <2>6, CreativeCommands
<1>3. ASSUME NEW k \in Slots, NEW v \in Values, AssignSlotValues(x, k, v) PROVE Recorded
  <2> DEFINE put == Put(camp.sets[x], k, v)
             sets == [camp.sets EXCEPT ![x] = put]
             next == [camp EXCEPT !.sets[x] = put]
  <2>1. x \in DOMAIN camp.sets /\ CommitSnapshot("ReplaceCreativeState", SetScope(x), next)
    BY <1>3 DEF AssignSlotValues, Creative
  <2>2. put \in Partial(Slots, Values)
    <3>1. camp.sets[x] \in Partial(Slots, Values)
      BY <1>1, <2>1, PartialFacts
    <3>2. QED
      BY <3>1, PartialFacts
  <2> HIDE DEF put
  <2>3. sets \in Partial(Sets, Partial(Slots, Values))
    BY <1>1, <2>1, <2>2, PartialReplaced
  <2>4. next = [camp EXCEPT !.sets = sets]
    OBVIOUS
  <2>5. next \in Campaigns
    <3> HIDE DEF sets, next
    <3>1. [camp EXCEPT !.sets = sets] \in Campaigns
      BY <2>3, CampaignWith, ZenonT(40)
    <3>2. QED
      BY <2>4, <3>1
  <2>6. QED
    <3> HIDE DEF next
    <3>1. next = [camp EXCEPT !.sets[x] = put]
      BY DEF next
    <3>2. QED
      BY <2>1, <2>5, <3>1, SetRecorded
<1>4. QED
  BY <1>2, <1>3

\* Every command records its entry.
LEMMA CommandRecorded ==
  ASSUME camp \in Campaigns, Command
  PROVE  Recorded
<1>1. CASE \E s \in Scenes : \/ \E name \in {"old", "new"} : RenameScene(s, name)
                             \/ \E length \in Lengths : EditTimeline(s, length)
                             \/ \E included \in BOOLEAN : SetSceneInclusion(s, included)
  BY <1>1, SceneCommands
<1>2. CASE \E p \in Profiles : \/ CreateDeliveryProfile(p)
                               \/ \E l \in Locales \cup {NoLocale} : AddDeliveryProfiles(p, l)
                               \/ \E l \in Locales : CreateLocaleProfile(l, p)
  BY <1>2, ProfileCommands
<1>3. CASE \E c \in Cells : \/ \E crop \in {"inherited", "cropped"} : SetVariantCrop(c, crop)
                            \/ EnableVariantCells(c)
                            \/ DetachVariantCells(c)
  BY <1>3, CellCommands
<1>4. CASE \E k \in Slots : \/ CreateSlots(k)
                            \/ \E s \in Scenes : SetSlotBinding(k, s)
                            \/ ClearSlotBinding(k)
                            \/ UpdateMasterSlotStyle(k)
                            \/ DeleteSlot(k)
                            \/ \E target \in Slots : RemapAndDeleteSlot(k, target)
                            \/ DropAndDeleteSlot(k)
  BY <1>4, SlotCommands, SlotDeletions
<1>5. CASE \E x \in Sets : \/ \E full \in BOOLEAN : CreateCreativeSets(x, full)
                           \/ \E k \in Slots, v \in Values : AssignSlotValues(x, k, v)
  BY <1>5, SetCommands
<1>6. CASE SetBrandKit \/ AttachTranscript \/ EditCaption
  BY <1>6, OtherCommands
<1>7. QED
  BY <1>1, <1>2, <1>3, <1>4, <1>5, <1>6 DEF Command

-----------------------------------------------------------------------------
\* Undo and redo.  An undo keeps the invariant: the entry it takes from the history is
\* well formed, and so is what its inverse makes of the campaign.
LEMMA UndoStep ==
  ASSUME Inv, NEW scope, Undo(scope)
  PROVE  Inv'
<1> DEFINE i == Latest(history, scope)
           entry == history[i]
           next == Applied(camp, entry.inverse, entry.scope)
<1>1. /\ OfScope(history, scope) # {} /\ Applicable(camp, entry.inverse, entry.scope)
      /\ revision < MaxRevision /\ camp' = next
      /\ revision' = revision + 1
      /\ history' = RemoveAt(history, i) /\ redo' = Append(redo, entry)
  BY DEF Undo, Committed
<1>2. i \in 1..Len(history)
  BY <1>1, LatestOfScope DEF Inv, ListOK
<1> HIDE DEF i
<1>3. /\ ListOK(history') /\ EntryOK(entry)
      /\ Len(history) \in Nat /\ Len(history') = Len(history) - 1
  BY <1>1, <1>2, ListRemoved DEF Inv
<1> HIDE DEF entry
<1>4. next \in Campaigns
  BY <1>1, <1>3, AppliedCampaign DEF Inv, TypeOK, EntryOK
<1> HIDE DEF next
<1>5. ListOK(redo') /\ Len(redo) \in Nat /\ Len(redo') = Len(redo) + 1
  BY <1>1, <1>3, ListAppended DEF Inv
<1>6. Len(history') + Len(redo') <= HistoryLimit /\ revision' \in 0..MaxRevision
  BY <1>1, <1>3, <1>5, HistoryAssumption DEF Inv, TypeOK
<1>7. QED
  BY <1>1, <1>3, <1>4, <1>5, <1>6 DEF Inv, TypeOK

\* A redo keeps the invariant.
LEMMA RedoStep ==
  ASSUME Inv, NEW scope, Redo(scope)
  PROVE  Inv'
<1> DEFINE i == Latest(redo, scope)
           entry == redo[i]
           next == Applied(camp, entry.forward, entry.scope)
<1>1. /\ OfScope(redo, scope) # {} /\ Applicable(camp, entry.forward, entry.scope)
      /\ revision < MaxRevision /\ camp' = next
      /\ revision' = revision + 1
      /\ redo' = RemoveAt(redo, i) /\ history' = Append(history, entry)
  BY DEF Redo, Committed
<1>2. i \in 1..Len(redo)
  BY <1>1, LatestOfScope DEF Inv, ListOK
<1> HIDE DEF i
<1>3. /\ ListOK(redo') /\ EntryOK(entry)
      /\ Len(redo) \in Nat /\ Len(redo') = Len(redo) - 1
  BY <1>1, <1>2, ListRemoved DEF Inv
<1> HIDE DEF entry
<1>4. next \in Campaigns
  BY <1>1, <1>3, AppliedCampaign DEF Inv, TypeOK, EntryOK
<1> HIDE DEF next
<1>5. ListOK(history') /\ Len(history) \in Nat /\ Len(history') = Len(history) + 1
  BY <1>1, <1>3, ListAppended DEF Inv
<1>6. Len(history') + Len(redo') <= HistoryLimit /\ revision' \in 0..MaxRevision
  BY <1>1, <1>3, <1>5, HistoryAssumption DEF Inv, TypeOK
<1>7. QED
  BY <1>1, <1>3, <1>4, <1>5, <1>6 DEF Inv, TypeOK

\* The invariant holds at first.
LEMMA InvInit == Init => Inv
<1> SUFFICES ASSUME Init PROVE Inv
  OBVIOUS
<1>1. /\ \A S, T : << >> \in Partial(S, T)
      /\ \A S, T : \A f \in [S -> T] : f \in Partial(S, T)
  BY PartialFacts DEF Partial
<1>2. EmptyCampaign \in Campaigns
  BY <1>1 DEF EmptyCampaign, Campaigns, Lengths
<1>3. FilledCampaign \in Campaigns
  <2> DEFINE profiles == [p \in Profiles |-> NoLocale]
             cells == [c \in Cells |-> "inherited"]
             slots == [k \in Slots |-> "plain"]
             sets == [x \in Sets |-> << >>]
  <2>1. profiles \in Partial(Profiles, Locales \cup {NoLocale})
    BY <1>1
  <2>2. cells \in Partial(Cells, {"inherited", "cropped"})
    BY <1>1
  <2>3. slots \in Partial(Slots, {"plain", "styled"})
    BY <1>1
  <2>4. sets \in Partial(Sets, Partial(Slots, Values))
    <3>1. sets \in [Sets -> Partial(Slots, Values)]
      BY <1>1
    <3>2. QED
      BY <1>1, <3>1
  <2>5. FilledCampaign =
          [[[[[EmptyCampaign EXCEPT !.profiles = profiles] EXCEPT !.cells = cells]
             EXCEPT !.slots = slots] EXCEPT !.sets = sets] EXCEPT !.captions = "heard"]
    BY DEF FilledCampaign, EmptyCampaign
  <2> HIDE DEF profiles, cells, slots, sets
  <2>6. [EmptyCampaign EXCEPT !.profiles = profiles] \in Campaigns
    BY <1>2, <2>1, CampaignWith, ZenonT(40)
  <2>7. [[EmptyCampaign EXCEPT !.profiles = profiles] EXCEPT !.cells = cells] \in Campaigns
    BY <2>2, <2>6, CampaignWith, ZenonT(40)
  <2>8. [[[EmptyCampaign EXCEPT !.profiles = profiles] EXCEPT !.cells = cells]
           EXCEPT !.slots = slots] \in Campaigns
    BY <2>3, <2>7, CampaignWith, ZenonT(40)
  <2>9. [[[[EmptyCampaign EXCEPT !.profiles = profiles] EXCEPT !.cells = cells]
            EXCEPT !.slots = slots] EXCEPT !.sets = sets] \in Campaigns
    BY <2>4, <2>8, CampaignWith, ZenonT(40)
  <2>10. FilledCampaign \in Campaigns
    BY <2>5, <2>9, CampaignWith, ZenonT(40)
  <2>11. QED
    BY <2>10
<1>4. camp \in Campaigns
  BY <1>2, <1>3 DEF Init
<1>5. history = << >> /\ redo = << >> /\ revision = 0
  BY DEF Init
<1>6. /\ ListOK(history) /\ Len(history) = 0
      /\ ListOK(redo) /\ Len(redo) = 0
  <2>1. << >> \in Seq({})
    OBVIOUS
  <2>2. QED
    BY <1>5, <2>1 DEF ListOK
<1>7. QED
  BY <1>4, <1>5, <1>6, HistoryAssumption DEF Inv, TypeOK

\* Every step keeps the invariant.
LEMMA InvNext == Inv /\ [Next]_vars => Inv'
<1> SUFFICES ASSUME Inv, [Next]_vars PROVE Inv'
  OBVIOUS
<1>1. CASE Command
  BY <1>1, CommandRecorded, RecordedStep DEF Inv, TypeOK
<1>2. CASE \E scope \in LocalScopes \cup {MasterScope} : Undo(scope)
  BY <1>2, UndoStep
<1>3. CASE \E scope \in SceneScopes : Redo(scope)
  BY <1>3, RedoStep
<1>4. CASE UNCHANGED vars
  BY <1>4 DEF vars, Inv, TypeOK
<1>5. QED
  BY <1>1, <1>2, <1>3, <1>4 DEF Next

-----------------------------------------------------------------------------
\* The invariant holds in every reachable state: the campaign and the lists of entries
\* stay well formed (prepare_command, edit-engine/src/lib.rs).
THEOREM EditsInvariance == Spec => []Inv
<1>1. Init => Inv
  BY InvInit
<1>2. Inv /\ [Next]_vars => Inv'
  BY InvNext
<1>3. QED
  BY <1>1, <1>2, PTL DEF Spec

\* Every command, undo and redo leaves a well formed campaign, and history and redo
\* together never exceed the limit.
THEOREM EditsTypes == Spec => []TypeOK
<1>1. Inv => TypeOK
  BY DEF Inv
<1>2. QED
  BY <1>1, EditsInvariance, PTL

\* Every command can be taken back whole and done again: the entry it records leads
\* from the campaign it made to the one before, and there again.
THEOREM CommandsReverse == Spec => ReversibleCommands
<1>1. ASSUME Inv, [Next]_vars
      PROVE  [Command =>
                LET entry == history'[Len(history')] IN
                /\ Applied(camp', entry.inverse, entry.scope) = camp
                /\ Applied(camp, entry.forward, entry.scope) = camp']_vars
  <2>1. ASSUME Command
        PROVE  /\ Applied(camp', history'[Len(history')].inverse, history'[Len(history')].scope) = camp
               /\ Applied(camp, history'[Len(history')].forward, history'[Len(history')].scope) = camp'
    BY <1>1, <2>1, CommandRecorded, RecordedStep DEF Inv, TypeOK
  <2>2. QED
    BY <2>1
<1>2. QED
  BY <1>1, EditsInvariance, PTL DEF Spec, ReversibleCommands

-----------------------------------------------------------------------------
\* What a command of one scope can disturb.  A command of a scene's scope changes the
\* name and the clip of that scene only.
LEMMA InsideScene ==
  ASSUME NEW c \in Campaigns, NEW r, Restores(r), NEW s \in Scenes, NEW scope,
         scope = SceneScope(s), Belongs(r, scope), NEW d, d = Applied(c, r, scope)
  PROVE  OutsideOf(d, scope) = OutsideOf(c, scope)
<1>1. scope[1] = "scene" /\ scope[2] = s /\ scope # MasterScope
  BY DEF SceneScope, MasterScope
<1>2. r.kind \in {"RenameScene", "ApplyTimelinePatch"} /\ r.on = s
  BY DEF Restores, Belongs, SceneScope, MasterScope, SetScope, ProfileScope, CellScope, SnapshotKinds
<1>3. /\ c = [f \in ContentFields |-> c[f]] /\ DOMAIN c = ContentFields
      /\ c.name \in [Scenes -> {"old", "new"}] /\ c.clip \in [Scenes -> Lengths]
      /\ "name" \in ContentFields /\ "clip" \in ContentFields
  BY CampaignShape, CampaignParts DEF ContentFields
<1>4. /\ OutsideOf(c, scope) = [c EXCEPT !.name[s] = "old", !.clip[s] = "whole"]
      /\ OutsideOf(d, scope) = [d EXCEPT !.name[s] = "old", !.clip[s] = "whole"]
  BY <1>1 DEF OutsideOf
<1>5. CASE r.kind = "RenameScene"
  <2>1. d = [c EXCEPT !.name[s] = r.value]
    BY <1>2, <1>5 DEF Applied
  <2>2. /\ DOMAIN d = ContentFields /\ \A f \in ContentFields \ {"name"} : d[f] = c[f]
        /\ d.name = [c.name EXCEPT ![s] = r.value] /\ d.clip = c.clip
    BY <1>3, <2>1
  <2>3. [d.name EXCEPT ![s] = "old"] = [c.name EXCEPT ![s] = "old"]
    BY <1>3, <2>2
  <2>4. [d EXCEPT !.name[s] = "old", !.clip[s] = "whole"]
          = [c EXCEPT !.name[s] = "old", !.clip[s] = "whole"]
    BY <1>3, <2>1, <2>2, <2>3
  <2>5. QED
    BY <1>4, <2>4
<1>6. CASE r.kind = "ApplyTimelinePatch"
  <2>1. d = [c EXCEPT !.clip[s] = r.value]
    BY <1>2, <1>6 DEF Applied
  <2>2. /\ DOMAIN d = ContentFields /\ \A f \in ContentFields \ {"clip"} : d[f] = c[f]
        /\ d.clip = [c.clip EXCEPT ![s] = r.value] /\ d.name = c.name
    BY <1>3, <2>1
  <2>3. [d.clip EXCEPT ![s] = "whole"] = [c.clip EXCEPT ![s] = "whole"]
    BY <1>3, <2>2
  <2>4. [d EXCEPT !.name[s] = "old", !.clip[s] = "whole"]
          = [c EXCEPT !.name[s] = "old", !.clip[s] = "whole"]
    BY <1>3, <2>1, <2>2, <2>3
  <2>5. QED
    BY <1>4, <2>4
<1>7. QED
  BY <1>2, <1>5, <1>6

\* A command of a set's scope changes that set only.
LEMMA InsideSet ==
  ASSUME NEW c \in Campaigns, NEW r, Restores(r), NEW x, x \in DOMAIN c.sets, NEW scope,
         scope = SetScope(x), Belongs(r, scope), NEW d, d = Applied(c, r, scope)
  PROVE  OutsideOf(d, scope) = OutsideOf(c, scope)
<1>1. scope[1] = "set" /\ scope[2] = x
  BY DEF SetScope
<1>2. r.kind = "ReplaceCreativeState"
  BY DEF Restores, Belongs, SceneScope, MasterScope, SetScope, ProfileScope, CellScope, SnapshotKinds
<1>3. /\ c = [f \in ContentFields |-> c[f]] /\ DOMAIN c = ContentFields
      /\ c.sets = [y \in DOMAIN c.sets |-> c.sets[y]] /\ "sets" \in ContentFields
  BY CampaignShape, CampaignParts, PartialFacts DEF ContentFields
<1> DEFINE v == r.value.sets[x]
           sets == [c.sets EXCEPT ![x] = v]
<1>4. d = [c EXCEPT !.sets = sets]
  <2>1. d = [c EXCEPT !.sets[x] = v]
    BY <1>1, <1>2 DEF Applied
  <2>2. QED
    BY <2>1
<1>5. Without(sets, {x}) = Without(c.sets, {x})
  <2> HIDE DEF v
  <2>1. QED
    BY <1>3 DEF Without
<1> HIDE DEF sets
<1>6. d.sets = sets
  BY <1>3, <1>4
<1>7. /\ OutsideOf(c, scope) = [c EXCEPT !.sets = Without(c.sets, {x})]
      /\ OutsideOf(d, scope) = [d EXCEPT !.sets = Without(c.sets, {x})]
  BY <1>1, <1>5, <1>6 DEF OutsideOf
<1>8. [d EXCEPT !.sets = Without(c.sets, {x})] = [c EXCEPT !.sets = Without(c.sets, {x})]
  BY <1>3, <1>4
<1>9. QED
  BY <1>7, <1>8

\* A command of a cell's scope changes that cell only.
LEMMA InsideCell ==
  ASSUME NEW c \in Campaigns, NEW r, Restores(r), NEW cell, NEW scope,
         scope = CellScope(cell), Belongs(r, scope), NEW d, d = Applied(c, r, scope)
  PROVE  OutsideOf(d, scope) = OutsideOf(c, scope)
<1>1. scope[1] = "cell" /\ scope[2] = cell
  BY DEF CellScope
<1>2. r.kind = "ReplaceVariantCell" /\ r.on = cell
  BY DEF Restores, Belongs, SceneScope, MasterScope, SetScope, ProfileScope, CellScope, SnapshotKinds
<1>3. /\ c = [f \in ContentFields |-> c[f]] /\ DOMAIN c = ContentFields
      /\ c.cells \in Partial(Cells, {"inherited", "cropped"}) /\ "cells" \in ContentFields
  BY CampaignShape, CampaignParts DEF ContentFields
<1> DEFINE cells == Put(c.cells, cell, r.value)
<1>4. d = [c EXCEPT !.cells = cells]
  BY <1>2 DEF Applied
<1>5. Without(cells, {cell}) = Without(c.cells, {cell})
  <2>1. DOMAIN cells = DOMAIN c.cells \cup {cell}
        /\ \A y \in DOMAIN c.cells \ {cell} : cells[y] = c.cells[y]
    BY DEF Put
  <2> HIDE DEF cells
  <2>2. QED
    BY <2>1 DEF Without
<1> HIDE DEF cells
<1>6. d.cells = cells
  BY <1>3, <1>4
<1>7. /\ OutsideOf(c, scope) = [c EXCEPT !.cells = Without(c.cells, {cell})]
      /\ OutsideOf(d, scope) = [d EXCEPT !.cells = Without(c.cells, {cell})]
  BY <1>1, <1>5, <1>6 DEF OutsideOf
<1>8. [d EXCEPT !.cells = Without(c.cells, {cell})] = [c EXCEPT !.cells = Without(c.cells, {cell})]
  BY <1>3, <1>4
<1>9. QED
  BY <1>7, <1>8

\* An undo in the scope of a scene, a set or a cell changes nothing else, whatever was
\* done in other scopes since (undo_scoped takes the latest entry of its scope).
THEOREM UndoLeavesTheRest == Spec => UndoStaysInScope
<1>1. ASSUME Inv, NEW scope \in LocalScopes, Undo(scope)
      PROVE  OutsideOf(camp', scope) = OutsideOf(camp, scope)
  <2> DEFINE i == Latest(history, scope)
             r == history[i].inverse
  <2>1. OfScope(history, scope) # {} /\ camp' = Applied(camp, r, history[i].scope)
    BY <1>1 DEF Undo, Committed
  <2>2. i \in 1..Len(history) /\ history[i].scope = scope
    BY <1>1, <2>1, LatestOfScope DEF Inv, ListOK
  <2> HIDE DEF i
  <2>3. EntryOK(history[i])
    BY <1>1, <2>2, ListRemoved DEF Inv
  <2>4. camp \in Campaigns /\ Restores(r) /\ Belongs(r, scope) /\ camp' = Applied(camp, r, scope)
    BY <1>1, <2>1, <2>2, <2>3 DEF EntryOK, Inv, TypeOK
  <2> HIDE DEF r
  <2>5. CASE \E s \in Scenes : scope = SceneScope(s)
    BY <2>4, <2>5, InsideScene
  <2>6. CASE \E x \in DOMAIN camp.sets : scope = SetScope(x)
    BY <2>4, <2>6, InsideSet
  <2>7. CASE \E cell \in DOMAIN camp.cells : scope = CellScope(cell)
    BY <2>4, <2>7, InsideCell
  <2>8. QED
    BY <1>1, <2>5, <2>6, <2>7 DEF LocalScopes, SceneScopes
<1>2. Inv /\ [Next]_vars =>
        [\A scope \in LocalScopes : Undo(scope) => OutsideOf(camp', scope) = OutsideOf(camp, scope)]_vars
  BY <1>1
<1>3. QED
  BY <1>2, EditsInvariance, PTL DEF Spec, UndoStaysInScope

-----------------------------------------------------------------------------
(* The entries of a scene *)

\* A list without one of its entries holds the others in their order.
LEMMA RemovedEntries ==
  ASSUME NEW S, NEW list \in Seq(S), NEW i \in 1..Len(list), NEW rest, rest = RemoveAt(list, i)
  PROVE  /\ Len(list) \in Nat /\ rest \in Seq(S) /\ Len(rest) = Len(list) - 1
         /\ \A k \in 1..Len(rest) : rest[k] = IF k < i THEN list[k] ELSE list[k + 1]
<1> DEFINE front == SubSeq(list, 1, i - 1)
           back == SubSeq(list, i + 1, Len(list))
           n == Len(list)
<1>1. n \in Nat /\ \A j \in 1..n : list[j] \in S
  BY LenProperties, ElementOfSeq
<1>2. i \in 1..n
  OBVIOUS
<1> HIDE DEF n
<1>3. /\ front \in Seq(S) /\ Len(front) = IF 1 <= i - 1 THEN i - 1 - 1 + 1 ELSE 0
      /\ \A k \in 1..(i - 1 - 1 + 1) : front[k] = list[1 + k - 1]
  <2>1. 1 \in Int /\ i - 1 \in Int /\ \A j \in 1..(i - 1) : list[j] \in S
    BY <1>1, <1>2
  <2>2. QED
    BY <2>1, SubSeqProperties
<1>4. /\ back \in Seq(S) /\ Len(back) = IF i + 1 <= n THEN n - (i + 1) + 1 ELSE 0
      /\ \A k \in 1..(n - (i + 1) + 1) : back[k] = list[i + 1 + k - 1]
  <2>1. i + 1 \in Int /\ n \in Int /\ \A j \in (i + 1)..n : list[j] \in S
    BY <1>1, <1>2
  <2>2. QED
    BY <2>1, SubSeqProperties DEF n
<1>5. /\ rest \in Seq(S) /\ Len(rest) = Len(front) + Len(back)
      /\ \A k \in 1..(Len(front) + Len(back)) :
           rest[k] = IF k <= Len(front) THEN front[k] ELSE back[k - Len(front)]
  <2>1. rest = front \o back
    BY DEF RemoveAt
  <2> HIDE DEF front, back
  <2>2. front \in Seq(S) /\ back \in Seq(S)
    BY <1>3, <1>4
  <2>3. /\ front \o back \in Seq(S) /\ Len(front \o back) = Len(front) + Len(back)
        /\ \A k \in 1..(Len(front) + Len(back)) :
             (front \o back)[k] = IF k <= Len(front) THEN front[k] ELSE back[k - Len(front)]
    BY <2>2, ConcatProperties
  <2>4. QED
    BY <2>1, <2>3
<1> HIDE DEF front, back
<1>6. Len(front) = i - 1 /\ Len(back) = n - i /\ Len(rest) = n - 1
  BY <1>1, <1>2, <1>3, <1>4, <1>5
<1>7. ASSUME NEW k \in 1..(n - 1) PROVE rest[k] = IF k < i THEN list[k] ELSE list[k + 1]
  <2>1. CASE k < i
    <3>1. k \in 1..(i - 1 - 1 + 1) /\ 1 + k - 1 = k /\ k <= i - 1
      BY <1>1, <1>2, <2>1
    <3>2. k \in 1..(Len(front) + Len(back))
      BY <1>1, <1>2, <1>6
    <3>3. QED
      BY <1>3, <1>5, <1>6, <2>1, <3>1, <3>2
  <2>2. CASE ~(k < i)
    <3> DEFINE m == k - (i - 1)
    <3>1. m \in 1..(n - (i + 1) + 1) /\ i + 1 + m - 1 = k + 1 /\ ~(k <= i - 1)
      BY <1>1, <1>2, <2>2
    <3>2. k \in 1..(Len(front) + Len(back))
      BY <1>1, <1>2, <1>6
    <3>3. rest[k] = back[m]
      BY <1>5, <1>6, <3>1, <3>2
    <3>4. QED
      BY <1>4, <2>2, <3>1, <3>3
  <2>3. QED
    BY <2>1, <2>2
<1>8. QED
  BY <1>1, <1>5, <1>6, <1>7 DEF n

\* The newest entry of a scope is the newest one about the thing it is about.
LEMMA NewestOfScope ==
  ASSUME NEW list, ListOK(list), NEW scope, OfScope(list, scope) # {},
         NEW i, i = Latest(list, scope), list[i].forward.kind \in SceneKinds
  PROVE  IsNewest(list, i)
<1>1. /\ i \in 1..Len(list) /\ list[i].scope = scope /\ Len(list) \in Nat
      /\ DOMAIN list = 1..Len(list)
      /\ \A k \in DOMAIN list : list[k].scope = scope => k <= i
  BY LatestOfScope, LenProperties DEF ListOK
<1>2. ASSUME NEW k \in (i + 1)..Len(list), SameThing(list[k], list[i]) PROVE FALSE
  <2>1. k \in 1..Len(list) /\ ~(k <= i)
    BY <1>1
  <2>2. EntryOK(list[k]) /\ EntryOK(list[i])
    BY <1>1, <2>1, ListRemoved
  <2>3. list[k].scope = SceneScope(list[k].forward.on) /\ list[i].scope = SceneScope(list[i].forward.on)
    BY <1>2, <2>2 DEF EntryOK, Belongs, SameThing, SceneKinds
  <2>4. list[k].scope = scope
    BY <1>1, <1>2, <2>3 DEF SameThing
  <2>5. QED
    BY <1>1, <2>1, <2>4
<1>3. QED
  BY <1>2 DEF IsNewest

\* What an applied command shows of its own thing, and that it shows no other scene's
\* thing differently.
LEMMA AppliedShown ==
  ASSUME NEW c \in Campaigns, NEW e, EntryOK(e), NEW r, r = e.forward \/ r = e.inverse,
         NEW d, d = Applied(c, r, e.scope)
  PROVE  /\ e.forward.kind \in SceneKinds => Shown(d, e) = r.value
         /\ \A f : EntryOK(f) /\ f.forward.kind \in SceneKinds /\ ~SameThing(f, e) =>
              Shown(d, f) = Shown(c, f)
<1>1. /\ r.kind = e.forward.kind /\ Restores(r) /\ Belongs(r, e.scope)
      /\ e.forward.kind \in ChangedKinds => r.on = e.forward.on
  BY DEF EntryOK
<1>2. /\ c = [f \in ContentFields |-> c[f]] /\ DOMAIN c = ContentFields
      /\ c.name \in [Scenes -> {"old", "new"}] /\ c.clip \in [Scenes -> Lengths]
      /\ "name" \in ContentFields /\ "clip" \in ContentFields
  BY CampaignShape, CampaignParts DEF ContentFields
<1>3. ASSUME NEW f, EntryOK(f), f.forward.kind \in SceneKinds
      PROVE  f.forward.on \in Scenes /\ f.forward.kind \in {"RenameScene", "ApplyTimelinePatch"}
  BY <1>3 DEF EntryOK, Restores, SceneKinds, SnapshotKinds
<1>4. CASE r.kind = "RenameScene"
  <2> DEFINE s == r.on
  <2>1. s \in Scenes /\ s = e.forward.on /\ e.forward.kind = "RenameScene"
    BY <1>1, <1>4 DEF Restores, SnapshotKinds, ChangedKinds
  <2>2. d = [c EXCEPT !.name[s] = r.value]
    BY <1>4 DEF Applied
  <2> HIDE DEF s
  <2>3. d.name = [c.name EXCEPT ![s] = r.value] /\ d.clip = c.clip
    BY <1>2, <2>2
  <2>4. Shown(d, e) = r.value
    BY <1>2, <2>1, <2>3 DEF Shown
  <2>5. ASSUME NEW f, EntryOK(f), f.forward.kind \in SceneKinds, ~SameThing(f, e)
        PROVE  Shown(d, f) = Shown(c, f)
    BY <1>2, <1>3, <2>1, <2>3, <2>5 DEF Shown, SameThing
  <2>6. QED
    BY <2>4, <2>5
<1>5. CASE r.kind = "ApplyTimelinePatch"
  <2> DEFINE s == r.on
  <2>1. s \in Scenes /\ s = e.forward.on /\ e.forward.kind = "ApplyTimelinePatch"
    BY <1>1, <1>5 DEF Restores, SnapshotKinds, ChangedKinds
  <2>2. d = [c EXCEPT !.clip[s] = r.value]
    BY <1>5 DEF Applied
  <2> HIDE DEF s
  <2>3. d.clip = [c.clip EXCEPT ![s] = r.value] /\ d.name = c.name
    BY <1>2, <2>2
  <2>4. Shown(d, e) = r.value
    BY <1>2, <2>1, <2>3 DEF Shown
  <2>5. ASSUME NEW f, EntryOK(f), f.forward.kind \in SceneKinds, ~SameThing(f, e)
        PROVE  Shown(d, f) = Shown(c, f)
    BY <1>2, <1>3, <2>1, <2>3, <2>5 DEF Shown, SameThing
  <2>6. QED
    BY <2>4, <2>5
<1>6. CASE r.kind \notin SceneKinds
  <2>1. d.name = c.name /\ d.clip = c.clip
    <3>1. CASE r.kind = "ReplaceCreativeState" /\ e.scope[1] = "set"
      <4>1. d = [c EXCEPT !.sets[e.scope[2]] = r.value.sets[e.scope[2]]]
        BY <3>1 DEF Applied
      <4>2. QED
        BY <1>2, <4>1
    <3>2. CASE r.kind \in SnapshotKinds /\ ~(r.kind = "ReplaceCreativeState" /\ e.scope[1] = "set")
      <4>1. PICK b \in Campaigns : r = Snapshot(r.kind, b)
        BY <1>1, <3>2 DEF Restores, SnapshotKinds
      <4>2. d = [f \in DOMAIN c |-> IF f \in SnapshotOf(r.kind) THEN b[f] ELSE c[f]]
        BY <3>2, <4>1, AppliedSnapshot
      <4>3. "name" \notin SnapshotOf(r.kind) /\ "clip" \notin SnapshotOf(r.kind)
        BY <3>2 DEF SnapshotOf, SnapshotKinds, CreativeFields, CaptionFields, MatrixFields
      <4>4. QED
        BY <1>2, <4>2, <4>3
    <3>3. CASE r.kind = "ReplaceVariantCell"
      BY <1>2, <3>3 DEF Applied
    <3>4. CASE r.kind = "ReplaceDeliveryProfileBundle"
      BY <1>2, <3>4 DEF Applied, RestoredBundle
    <3>5. QED
      BY <1>1, <1>6, <3>1, <3>2, <3>3, <3>4 DEF Restores, SceneKinds, SnapshotKinds
  <2>2. QED
    BY <1>1, <1>6, <2>1 DEF Shown
<1>7. QED
  BY <1>4, <1>5, <1>6 DEF SceneKinds

\* The oldest entry is dropped without a trace.
LEMMA LinkedTrimmed ==
  ASSUME NEW S, NEW list \in Seq(S), NEW c, NEW left, NEW found, Linked(list, c, left, found)
  PROVE  Linked(Trimmed(list), c, left, found)
<1>1. CASE Len(list) > HistoryLimit
  <2> DEFINE rest == Tail(list)
  <2>1. Len(list) \in Nat /\ Len(list) # 0 /\ list # << >>
    BY <1>1, HistoryAssumption, LenProperties, EmptySeq
  <2>2. /\ rest \in Seq(S) /\ Len(rest) = Len(list) - 1
        /\ \A k \in 1..Len(rest) : rest[k] = list[k + 1]
    BY <2>1, HeadTailProperties
  <2>3. DOMAIN rest = 1..Len(rest) /\ DOMAIN list = 1..Len(list)
    BY <2>2, LenProperties
  <2>4. rest = Trimmed(list)
    BY <1>1 DEF Trimmed
  <2> HIDE DEF rest
  <2>5. ASSUME NEW i \in DOMAIN rest, rest[i].forward.kind \in SceneKinds
        PROVE  /\ IsNewest(rest, i) => rest[i][left].value = Shown(c, rest[i])
               /\ \A j \in DOMAIN rest : Consecutive(rest, i, j) =>
                    rest[i][left].value = rest[j][found].value
    <3>1. i + 1 \in DOMAIN list /\ rest[i] = list[i + 1] /\ i \in Nat
      BY <2>1, <2>2, <2>3
    <3>2. ASSUME IsNewest(rest, i) PROVE IsNewest(list, i + 1)
      <4>1. SUFFICES ASSUME NEW k \in (i + 1 + 1)..Len(list)
                     PROVE  ~SameThing(list[k], list[i + 1])
        BY DEF IsNewest
      <4>2. k - 1 \in (i + 1)..Len(rest) /\ k - 1 \in 1..Len(rest) /\ k - 1 + 1 = k
        BY <2>1, <2>2, <3>1
      <4>3. QED
        BY <2>2, <3>1, <3>2, <4>2 DEF IsNewest
    <3>3. ASSUME NEW j \in DOMAIN rest, Consecutive(rest, i, j)
          PROVE  Consecutive(list, i + 1, j + 1) /\ j + 1 \in DOMAIN list /\ rest[j] = list[j + 1]
      <4>1. j \in (i + 1)..Len(rest) /\ SameThing(rest[j], rest[i])
            /\ \A k \in (i + 1)..(j - 1) : ~SameThing(rest[k], rest[i])
        BY <3>3 DEF Consecutive
      <4>2. j + 1 \in (i + 1 + 1)..Len(list) /\ j + 1 \in DOMAIN list /\ rest[j] = list[j + 1]
        BY <2>1, <2>2, <2>3, <3>1, <4>1
      <4>3. ASSUME NEW k \in (i + 1 + 1)..(j + 1 - 1) PROVE ~SameThing(list[k], list[i + 1])
        <5>1. k - 1 \in (i + 1)..(j - 1) /\ k - 1 \in 1..Len(rest) /\ k - 1 + 1 = k
          BY <2>1, <2>2, <2>3, <3>1, <4>1
        <5>2. QED
          BY <2>2, <3>1, <4>1, <5>1
      <4>4. QED
        BY <3>1, <4>1, <4>2, <4>3 DEF Consecutive
    <3>4. QED
      BY <3>1, <3>2, <3>3, <2>5 DEF Linked
  <2>6. QED
    BY <2>4, <2>5 DEF Linked
<1>2. CASE ~(Len(list) > HistoryLimit)
  BY <1>2 DEF Trimmed
<1>3. QED
  BY <1>1, <1>2

\* An entry is added whose command found what the campaign showed and left what it
\* shows now.
LEMMA LinkedAppended ==
  ASSUME NEW S, NEW list \in Seq(S), NEW e \in S, NEW c, NEW d, NEW left, NEW found,
         Linked(list, c, left, found),
         e.forward.kind \in SceneKinds =>
           e[found].value = Shown(c, e) /\ e[left].value = Shown(d, e),
         \A f \in S : f.forward.kind \in SceneKinds /\ ~SameThing(f, e) => Shown(d, f) = Shown(c, f)
  PROVE  Linked(Append(list, e), d, left, found)
<1> DEFINE n == Len(list)
           more == Append(list, e)
<1>1. /\ n \in Nat /\ more \in Seq(S) /\ Len(more) = n + 1 /\ more[n + 1] = e
      /\ DOMAIN list = 1..n /\ DOMAIN more = 1..(n + 1)
      /\ \A k \in 1..n : more[k] = list[k] /\ list[k] \in S
  BY AppendProperties, LenProperties, ElementOfSeq
<1>2. n = Len(list)
  OBVIOUS
<1> HIDE DEF n, more
<1>3. ASSUME NEW i \in 1..n, list[i].forward.kind \in SceneKinds
      PROVE  /\ IsNewest(more, i) => list[i][left].value = Shown(d, list[i])
             /\ \A j \in 1..(n + 1) : Consecutive(more, i, j) =>
                  list[i][left].value = more[j][found].value
  <2>1. ASSUME IsNewest(more, i) PROVE list[i][left].value = Shown(d, list[i])
    <3>1. ~SameThing(e, list[i]) /\ IsNewest(list, i)
      <4>1. /\ n + 1 \in (i + 1)..(n + 1)
            /\ \A k \in (i + 1)..n : k \in (i + 1)..(n + 1) /\ k \in 1..n
        BY <1>1
      <4>2. QED
        BY <1>1, <1>2, <2>1, <4>1 DEF IsNewest
    <3>2. ~SameThing(list[i], e)
      BY <3>1 DEF SameThing
    <3>3. list[i][left].value = Shown(c, list[i])
      BY <1>1, <1>3, <3>1 DEF Linked
    <3>4. QED
      BY <1>1, <1>3, <3>2, <3>3
  <2>2. ASSUME NEW j \in 1..n, Consecutive(more, i, j)
        PROVE  list[i][left].value = more[j][found].value
    <3>1. Consecutive(list, i, j)
      <4>1. /\ j \in (i + 1)..n /\ \A k \in (i + 1)..(j - 1) : k \in 1..n
            /\ SameThing(more[j], more[i]) /\ \A k \in (i + 1)..(j - 1) : ~SameThing(more[k], more[i])
        BY <1>1, <2>2 DEF Consecutive
      <4>2. QED
        BY <1>1, <1>2, <4>1 DEF Consecutive
    <3>2. QED
      BY <1>1, <1>3, <3>1 DEF Linked
  <2>3. ASSUME Consecutive(more, i, n + 1)
        PROVE  list[i][left].value = e[found].value
    <3>1. SameThing(e, list[i]) /\ IsNewest(list, i)
      <4>1. /\ SameThing(more[n + 1], more[i])
            /\ \A k \in (i + 1)..((n + 1) - 1) : ~SameThing(more[k], more[i])
        BY <2>3 DEF Consecutive
      <4>2. \A k \in (i + 1)..n : k \in (i + 1)..((n + 1) - 1) /\ k \in 1..n
        BY <1>1
      <4>3. QED
        BY <1>1, <1>2, <4>1, <4>2 DEF IsNewest
    <3>2. list[i][left].value = Shown(c, list[i])
      BY <1>1, <1>3, <3>1 DEF Linked
    <3>3. Shown(c, list[i]) = Shown(c, e) /\ e.forward.kind \in SceneKinds
      BY <1>3, <3>1 DEF SameThing, Shown
    <3>4. QED
      BY <3>2, <3>3
  <2>4. QED
    BY <1>1, <2>1, <2>2, <2>3
<1>4. ASSUME e.forward.kind \in SceneKinds
      PROVE  /\ e[left].value = Shown(d, e)
             /\ \A j \in 1..(n + 1) : ~Consecutive(more, n + 1, j)
  BY <1>1, <1>4 DEF Consecutive
<1>5. QED
  BY <1>1, <1>3, <1>4 DEF Linked, more

\* The newest entry about a thing is taken out, and the campaign shows again what that
\* entry's command found.
LEMMA LinkedRemoved ==
  ASSUME NEW S, NEW list \in Seq(S), NEW p \in 1..Len(list), NEW c, NEW d, NEW left, NEW found,
         Linked(list, c, left, found),
         list[p].forward.kind \in SceneKinds =>
           IsNewest(list, p) /\ Shown(d, list[p]) = list[p][found].value,
         \A f \in S : f.forward.kind \in SceneKinds /\ ~SameThing(f, list[p]) =>
           Shown(d, f) = Shown(c, f)
  PROVE  Linked(RemoveAt(list, p), d, left, found)
<1> DEFINE n == Len(list)
           rest == RemoveAt(list, p)
           Was(k) == IF k < p THEN k ELSE k + 1
<1>1. /\ n \in Nat /\ rest \in Seq(S) /\ Len(rest) = n - 1
      /\ \A k \in 1..(n - 1) : rest[k] = list[Was(k)]
  BY RemovedEntries
<1>2. /\ n = Len(list) /\ p \in 1..n /\ DOMAIN list = 1..n /\ DOMAIN rest = 1..(n - 1)
      /\ \A k \in 1..n : list[k] \in S
  BY <1>1, LenProperties, ElementOfSeq
<1> HIDE DEF n, rest
<1>3. \A k \in 1..(n - 1) : Was(k) \in 1..n /\ Was(k) # p
  BY <1>1, <1>2
<1>4. \A k \in 1..n : k # p => \E m \in 1..(n - 1) : Was(m) = k
  <2>1. ASSUME NEW k \in 1..n, k # p PROVE \E m \in 1..(n - 1) : Was(m) = k
    <3>1. CASE k < p
      <4>1. k \in 1..(n - 1) /\ Was(k) = k
        BY <1>1, <1>2, <3>1
      <4>2. QED
        BY <4>1
    <3>2. CASE ~(k < p)
      <4>1. k - 1 \in 1..(n - 1) /\ Was(k - 1) = k
        BY <1>1, <1>2, <2>1, <3>2
      <4>2. QED
        BY <4>1
    <3>3. QED
      BY <3>1, <3>2
  <2>2. QED
    BY <2>1
<1>5. \A k, m \in 1..(n - 1) : k < m <=> Was(k) < Was(m)
  BY <1>1, <1>2
<1> HIDE DEF Was
<1>6. ASSUME NEW i \in 1..(n - 1), rest[i].forward.kind \in SceneKinds
      PROVE  /\ IsNewest(rest, i) => rest[i][left].value = Shown(d, rest[i])
             /\ \A j \in 1..(n - 1) : Consecutive(rest, i, j) =>
                  rest[i][left].value = rest[j][found].value
  <2> DEFINE a == Was(i)
  <2>1. a \in 1..n /\ a # p /\ rest[i] = list[a] /\ list[a] \in S
    BY <1>1, <1>2, <1>3
  <2>2. a = Was(i)
    OBVIOUS
  <2> HIDE DEF a
  <2>3. ASSUME IsNewest(rest, i) PROVE list[a][left].value = Shown(d, list[a])
    <3>1. ASSUME NEW k \in (a + 1)..n, k # p PROVE ~SameThing(list[k], list[a])
      <4>1. k \in 1..n /\ a < k
        BY <1>1, <2>1
      <4>2. PICK m \in 1..(n - 1) : Was(m) = k
        BY <1>4, <3>1, <4>1
      <4>3. i < m
        BY <1>5, <2>2, <4>1, <4>2
      <4>4. m \in (i + 1)..Len(rest)
        BY <1>1, <4>3
      <4>5. QED
        BY <1>1, <2>1, <2>3, <4>2, <4>4 DEF IsNewest
    <3>2. CASE SameThing(list[a], list[p])
      <4>1. list[p].forward.kind \in SceneKinds
        BY <1>6, <2>1, <3>2 DEF SameThing
      <4>2. a < p
        <5>1. SUFFICES ASSUME p < a PROVE FALSE
          BY <1>2, <2>1
        <5>2. a \in (p + 1)..Len(list)
          BY <1>1, <1>2, <2>1, <5>1
        <5>3. QED
          BY <3>2, <4>1, <5>2 DEF IsNewest
      <4>3. Consecutive(list, a, p)
        <5>1. p \in (a + 1)..Len(list) /\ SameThing(list[p], list[a])
          BY <1>1, <1>2, <2>1, <3>2, <4>2 DEF SameThing
        <5>2. ASSUME NEW k \in (a + 1)..(p - 1) PROVE ~SameThing(list[k], list[a])
          <6>1. k \in (a + 1)..n /\ k # p
            BY <1>1, <1>2, <2>1
          <6>2. QED
            BY <3>1, <6>1
        <5>3. QED
          BY <5>1, <5>2 DEF Consecutive
      <4>4. list[a][left].value = list[p][found].value
        BY <1>2, <1>6, <2>1, <4>3 DEF Linked
      <4>5. Shown(d, list[a]) = Shown(d, list[p])
        BY <3>2 DEF SameThing, Shown
      <4>6. QED
        BY <4>1, <4>4, <4>5
    <3>3. CASE ~SameThing(list[a], list[p])
      <4>1. ~SameThing(list[p], list[a])
        BY <3>3 DEF SameThing
      <4>2. IsNewest(list, a)
        BY <1>2, <3>1, <4>1 DEF IsNewest
      <4>3. list[a][left].value = Shown(c, list[a])
        BY <1>2, <1>6, <2>1, <4>2 DEF Linked
      <4>4. QED
        BY <1>6, <2>1, <3>3, <4>3
    <3>4. QED
      BY <3>2, <3>3
  <2>4. ASSUME NEW j \in 1..(n - 1), Consecutive(rest, i, j)
        PROVE  list[a][left].value = rest[j][found].value
    <3> DEFINE b == Was(j)
    <3>1. b \in 1..n /\ b # p /\ rest[j] = list[b]
      BY <1>1, <1>3
    <3>2. b = Was(j)
      OBVIOUS
    <3> HIDE DEF b
    <3>3. /\ j \in (i + 1)..Len(rest) /\ SameThing(list[b], list[a])
          /\ \A k \in (i + 1)..(j - 1) : ~SameThing(rest[k], list[a])
      BY <2>1, <2>4, <3>1 DEF Consecutive
    <3>4. a < b
      <4>1. i < j
        BY <1>1, <3>3
      <4>2. QED
        BY <1>5, <2>2, <3>2, <4>1
    <3>5. ASSUME NEW k \in (a + 1)..(b - 1), k # p PROVE ~SameThing(list[k], list[a])
      <4>1. k \in 1..n /\ a < k /\ k < b
        BY <1>1, <2>1, <3>1
      <4>2. PICK m \in 1..(n - 1) : Was(m) = k
        BY <1>4, <3>5, <4>1
      <4>3. i < m /\ m < j
        BY <1>5, <2>2, <3>2, <4>1, <4>2
      <4>4. m \in (i + 1)..(j - 1)
        BY <1>1, <4>3
      <4>5. QED
        BY <1>1, <3>3, <4>2, <4>4
    <3>6. ASSUME p \in (a + 1)..(b - 1) PROVE ~SameThing(list[p], list[a])
      <4>1. SUFFICES ASSUME SameThing(list[p], list[a]) PROVE FALSE
        OBVIOUS
      <4>2. list[p].forward.kind \in SceneKinds /\ SameThing(list[b], list[p])
        BY <1>6, <2>1, <3>3, <4>1 DEF SameThing
      <4>3. b \in (p + 1)..Len(list)
        BY <1>1, <1>2, <2>1, <3>1, <3>6
      <4>4. QED
        BY <4>2, <4>3 DEF IsNewest
    <3>7. Consecutive(list, a, b)
      <4>1. b \in (a + 1)..Len(list)
        BY <1>1, <1>2, <2>1, <3>1, <3>4
      <4>2. QED
        BY <3>3, <3>5, <3>6, <4>1 DEF Consecutive
    <3>8. QED
      BY <1>2, <1>6, <2>1, <3>1, <3>7 DEF Linked
  <2>5. QED
    BY <2>1, <2>3, <2>4
<1>7. QED
  BY <1>1, <1>2, <1>6 DEF Linked, rest

\* A command links its entry to the ones before it.
LEMMA RecordedLinks ==
  ASSUME Inv, SceneHistoryRetraces, Recorded
  PROVE  SceneHistoryRetraces'
<1>1. PICK next \in Campaigns :
             \E entry : EntryOK(entry) /\ Reverses(next, entry) /\ Commit(next, entry)
  BY DEF Recorded
<1>2. PICK entry : EntryOK(entry) /\ Reverses(next, entry) /\ Commit(next, entry)
  BY <1>1
<1>3. camp' = next /\ history' = Trimmed(Append(history, entry)) /\ redo' = << >>
  BY <1>2 DEF Commit, Committed, Cleared
<1>4. PICK T : history \in Seq(T) /\ entry \in T /\ \A f \in T : EntryOK(f)
  <2>1. PICK S : history \in Seq(S) /\ \A f \in S : EntryOK(f)
    BY DEF Inv, ListOK
  <2>2. history \in Seq(S \cup {entry})
    BY <2>1
  <2>3. QED
    BY <1>2, <2>1, <2>2
<1>5. /\ camp \in Campaigns /\ next = Applied(camp, entry.forward, entry.scope)
      /\ camp = Applied(next, entry.inverse, entry.scope)
  BY <1>2 DEF Inv, TypeOK, Reverses
<1>6. /\ entry.forward.kind \in SceneKinds => Shown(next, entry) = entry.forward.value
      /\ \A f : EntryOK(f) /\ f.forward.kind \in SceneKinds /\ ~SameThing(f, entry) =>
           Shown(next, f) = Shown(camp, f)
  BY <1>2, <1>5, AppliedShown
<1>7. entry.forward.kind \in SceneKinds => Shown(camp, entry) = entry.inverse.value
  BY <1>2, <1>5, AppliedShown
<1>8. Linked(Append(history, entry), next, "forward", "inverse")
  <2>1. entry.forward.kind \in SceneKinds =>
          entry["inverse"].value = Shown(camp, entry) /\ entry["forward"].value = Shown(next, entry)
    BY <1>6, <1>7
  <2>2. Linked(history, camp, "forward", "inverse")
    BY DEF SceneHistoryRetraces
  <2>3. \A f \in T : f.forward.kind \in SceneKinds /\ ~SameThing(f, entry) =>
                       Shown(next, f) = Shown(camp, f)
    BY <1>4, <1>6
  <2>4. QED
    BY <1>4, <2>1, <2>2, <2>3, LinkedAppended
<1>9. Linked(history', camp', "forward", "inverse")
  <2>1. Append(history, entry) \in Seq(T)
    BY <1>4, AppendProperties
  <2>2. QED
    BY <1>3, <1>8, <2>1, LinkedTrimmed
<1>10. Linked(redo', camp', "inverse", "forward")
  <2>1. DOMAIN << >> = {}
    OBVIOUS
  <2>2. QED
    BY <1>3, <2>1 DEF Linked
<1>11. QED
  BY <1>9, <1>10 DEF SceneHistoryRetraces

\* An entry that is undone, or redone, goes from the end of one list's chain of its
\* thing to the end of the other's.
LEMMA TransferLinks ==
  ASSUME NEW from, ListOK(from), NEW to, ListOK(to), NEW scope, OfScope(from, scope) # {},
         NEW i, i = Latest(from, scope), NEW e, e = from[i],
         NEW c \in Campaigns, NEW d, NEW left, NEW found,
         <<left, found>> \in {<<"forward", "inverse">>, <<"inverse", "forward">>},
         d = Applied(c, e[found], e.scope),
         Linked(from, c, left, found), Linked(to, c, found, left)
  PROVE  /\ Linked(RemoveAt(from, i), d, left, found)
         /\ Linked(Append(to, e), d, found, left)
<1>1. PICK S : from \in Seq(S) /\ \A f \in S : EntryOK(f)
  BY DEF ListOK
<1>2. /\ i \in 1..Len(from) /\ DOMAIN from = 1..Len(from) /\ EntryOK(e)
      /\ e.forward.kind \in SceneKinds => IsNewest(from, i)
  BY <1>1, LatestOfScope, LenProperties, ListRemoved, NewestOfScope
<1>3. PICK T : to \in Seq(T) /\ e \in T /\ \A f \in T : EntryOK(f)
  <2>1. PICK R : to \in Seq(R) /\ \A f \in R : EntryOK(f)
    BY DEF ListOK
  <2>2. to \in Seq(R \cup {e})
    BY <2>1
  <2>3. QED
    BY <1>2, <2>1, <2>2
<1>4. /\ e.forward.kind \in SceneKinds => Shown(d, e) = e[found].value
      /\ \A f : EntryOK(f) /\ f.forward.kind \in SceneKinds /\ ~SameThing(f, e) =>
           Shown(d, f) = Shown(c, f)
  <2>1. e[found] = e.forward \/ e[found] = e.inverse
    OBVIOUS
  <2> DEFINE r == e[found]
  <2>2. r = e.forward \/ r = e.inverse
    BY <2>1
  <2>3. d = Applied(c, r, e.scope)
    OBVIOUS
  <2> HIDE DEF r
  <2>4. /\ e.forward.kind \in SceneKinds => Shown(d, e) = r.value
        /\ \A f : EntryOK(f) /\ f.forward.kind \in SceneKinds /\ ~SameThing(f, e) =>
             Shown(d, f) = Shown(c, f)
    BY <1>2, <2>2, <2>3, AppliedShown
  <2>5. QED
    BY <2>4 DEF r
<1>5. e.forward.kind \in SceneKinds => Shown(c, e) = e[left].value
  BY <1>2 DEF Linked
<1>6. Linked(RemoveAt(from, i), d, left, found)
  BY <1>1, <1>2, <1>4, LinkedRemoved
<1>7. Linked(Append(to, e), d, found, left)
  BY <1>3, <1>4, <1>5, LinkedAppended
<1>8. QED
  BY <1>6, <1>7

\* Every step keeps the chains.
LEMMA NextLinks == Inv /\ SceneHistoryRetraces /\ [Next]_vars => SceneHistoryRetraces'
<1> SUFFICES ASSUME Inv, SceneHistoryRetraces, [Next]_vars PROVE SceneHistoryRetraces'
  OBVIOUS
<1>1. CASE Command
  BY <1>1, CommandRecorded, RecordedLinks DEF Inv, TypeOK
<1>2. ASSUME NEW scope, Undo(scope) PROVE SceneHistoryRetraces'
  <2> DEFINE i == Latest(history, scope)
             e == history[i]
  <2>1. /\ OfScope(history, scope) # {} /\ camp' = Applied(camp, e["inverse"], e.scope)
        /\ history' = RemoveAt(history, i) /\ redo' = Append(redo, e)
    BY <1>2 DEF Undo, Committed
  <2> HIDE DEF i
  <2>2. /\ i = Latest(history, scope) /\ e = history[i] /\ camp \in Campaigns
        /\ ListOK(history) /\ ListOK(redo)
    BY DEF Inv, TypeOK, i
  <2> HIDE DEF e
  <2>3. /\ Linked(RemoveAt(history, i), camp', "forward", "inverse")
        /\ Linked(Append(redo, e), camp', "inverse", "forward")
    <3>1. Linked(history, camp, "forward", "inverse") /\ Linked(redo, camp, "inverse", "forward")
      BY DEF SceneHistoryRetraces
    <3>2. QED
      BY <2>1, <2>2, <3>1, TransferLinks
  <2>4. QED
    BY <2>1, <2>3 DEF SceneHistoryRetraces
<1>3. ASSUME NEW scope, Redo(scope) PROVE SceneHistoryRetraces'
  <2> DEFINE i == Latest(redo, scope)
             e == redo[i]
  <2>1. /\ OfScope(redo, scope) # {} /\ camp' = Applied(camp, e["forward"], e.scope)
        /\ redo' = RemoveAt(redo, i) /\ history' = Append(history, e)
    BY <1>3 DEF Redo, Committed
  <2> HIDE DEF i
  <2>2. /\ i = Latest(redo, scope) /\ e = redo[i] /\ camp \in Campaigns
        /\ ListOK(history) /\ ListOK(redo)
    BY DEF Inv, TypeOK, i
  <2> HIDE DEF e
  <2>3. /\ Linked(RemoveAt(redo, i), camp', "inverse", "forward")
        /\ Linked(Append(history, e), camp', "forward", "inverse")
    <3>1. Linked(redo, camp, "inverse", "forward") /\ Linked(history, camp, "forward", "inverse")
      BY DEF SceneHistoryRetraces
    <3>2. QED
      BY <2>1, <2>2, <3>1, TransferLinks
  <2>4. QED
    BY <2>1, <2>3 DEF SceneHistoryRetraces
<1>4. CASE UNCHANGED vars
  BY <1>4 DEF vars, SceneHistoryRetraces, Linked, IsNewest, Consecutive
<1>5. QED
  BY <1>1, <1>2, <1>3, <1>4 DEF Next

\* Undo and redo of a scene retrace what was done to it: every entry starts from the very
\* state it was recorded in, whatever other scopes did, undid or lost to the limit since.
THEOREM HistoryRetraces == Spec => []SceneHistoryRetraces
<1>1. Init => Inv /\ SceneHistoryRetraces
  <2>1. Init => history = << >> /\ redo = << >>
    BY DEF Init
  <2>2. DOMAIN << >> = {}
    OBVIOUS
  <2>3. QED
    BY <2>1, <2>2, InvInit DEF SceneHistoryRetraces, Linked
<1>2. Inv /\ SceneHistoryRetraces /\ [Next]_vars => (Inv /\ SceneHistoryRetraces)'
  BY InvNext, NextLinks
<1>3. QED
  BY <1>1, <1>2, PTL DEF Spec

-----------------------------------------------------------------------------
(* The timeline engine *)

\* The least of a set of numbers.
LEMMA LeastOf ==
  ASSUME NEW T \in SUBSET Nat, T # {}
  PROVE  Min(T) \in T /\ \A n \in T : Min(T) <= n
BY LeastNatural DEF Min

\* One that has a bound has a greatest.
LEMMA GreatestOf ==
  ASSUME NEW T \in SUBSET Nat, T # {}, NEW b \in Nat, \A n \in T : n <= b
  PROVE  Max(T) \in T /\ \A n \in T : n <= Max(T)
<1>1. \E n \in T : \A m \in T : n >= m
  <2>1. PICK n \in T : \A m \in T : m <= n
    BY GreatestNatural
  <2>2. QED
    BY <2>1
<1>2. Max(T) \in T /\ \A n \in T : Max(T) >= n
  BY <1>1 DEF Max
<1>3. QED
  BY <1>2

\* A finite set of numbers has a bound.
LEMMA FiniteIsBounded ==
  ASSUME NEW T \in SUBSET Nat, IsFiniteSet(T)
  PROVE  \E b \in Nat : \A n \in T : n <= b
<1>1. PICK k \in Nat : ExistsBijection(1..k, T)
  BY FS_NatBijection
<1>2. PICK f \in [1..k -> T] : \A n \in T : \E i \in 1..k : f[i] = n
  BY <1>1 DEF ExistsBijection, Bijection, Surjection
<1> DEFINE Bounded(m) == \E b \in Nat : \A i \in 1..m : f[i] <= b
           M == {m \in 0..k : Bounded(m)}
<1>3. 0 \in M /\ M \in SUBSET Nat /\ \A m \in M : m <= k
  OBVIOUS
<1>4. PICK m \in M : \A j \in M : j <= m
  <2> HIDE DEF M
  <2>1. QED
    BY <1>3, GreatestNatural
<1>5. ASSUME m # k PROVE FALSE
  <2>1. PICK b \in Nat : \A i \in 1..m : f[i] <= b
    OBVIOUS
  <2>2. m \in 0..k /\ m # k
    BY <1>5
  <2>3. m + 1 \in 1..k /\ m \in Nat /\ k \in Nat /\ 1..(m + 1) \subseteq 1..k
    BY <2>2
  <2>8. \A i \in 1..k : f[i] \in Nat
    OBVIOUS
  <2>9. f[m + 1] \in Nat /\ \A i \in 1..(m + 1) : i \in 1..m \/ i = m + 1
    BY <2>3, <2>8
  <2>4. \A i \in 1..(m + 1) : f[i] <= b + f[m + 1]
    BY <2>1, <2>3, <2>8, <2>9
  <2>5. b + f[m + 1] \in Nat
    BY <2>9
  <2>6. m + 1 \in M
    BY <2>3, <2>4, <2>5
  <2>7. QED
    BY <1>4, <2>3, <2>6
<1>6. QED
  BY <1>2, <1>5

\* A clip that is in order, but may end later than timelines do.
LooseClips == [track : Tracks, start : Nat, duration : Nat, offset : Nat, source : Nat, audio : BOOLEAN]
Playable(c) ==
  /\ c.duration > 0 /\ c.offset + c.duration <= c.source
  /\ Accepts(c.track, c)
LooseClip(c) == c \in LooseClips /\ Playable(c) /\ (c.source <= MaxTick \/ c.source = c.duration)
Loose(t) ==
  /\ DOMAIN t \subseteq Ids /\ t = [i \in DOMAIN t |-> t[i]]
  /\ \A i \in DOMAIN t : LooseClip(t[i])

\* A timeline that is in order.
Sound(t) ==
  /\ DOMAIN t \subseteq Ids /\ t \in [DOMAIN t -> Clips]
  /\ \A i \in DOMAIN t : Playable(t[i])
TimelineInv == Sound(timeline) /\ edits \in 0..MaxEdits

\* What is known of a clip of a sound timeline.
LEMMA ClipFields ==
  ASSUME NEW t, Sound(t), NEW i \in DOMAIN t
  PROVE  /\ t[i] \in Clips /\ t[i] \in LooseClips
         /\ t[i].track \in Tracks /\ t[i].start \in Nat /\ t[i].duration \in Nat
         /\ t[i].offset \in Nat /\ t[i].source \in Nat /\ t[i].audio \in BOOLEAN
         /\ t[i].start <= MaxTick /\ t[i].duration <= MaxTick /\ t[i].source <= MaxTick
         /\ t[i].duration > 0 /\ t[i].offset + t[i].duration <= t[i].source
         /\ Accepts(t[i].track, t[i])
         /\ ClipEnd(t[i]) = t[i].start + t[i].duration /\ ClipEnd(t[i]) \in Nat
<1>1. MaxTick \in Nat
  BY TimelineAssumption
<1>2. Ticks \subseteq Nat /\ \A n \in Ticks : n <= MaxTick
  BY <1>1 DEF Ticks
<1>3. t[i] \in Clips /\ Playable(t[i])
  BY DEF Sound
<1>4. /\ t[i].track \in Tracks /\ t[i].start \in Ticks /\ t[i].duration \in Ticks
      /\ t[i].offset \in Ticks /\ t[i].source \in Ticks /\ t[i].audio \in BOOLEAN
  BY <1>3 DEF Clips
<1>5. t[i] \in LooseClips
  BY <1>2, <1>3 DEF Clips, LooseClips
<1>6. ClipEnd(t[i]) = t[i].start + t[i].duration /\ ClipEnd(t[i]) \in Nat
  <2>1. t[i].start \in Nat /\ t[i].duration \in Nat
    BY <1>2, <1>4
  <2>2. QED
    BY <2>1 DEF ClipEnd
<1>7. QED
  BY <1>2, <1>3, <1>4, <1>5, <1>6 DEF Playable

\* A sound timeline is a loose one.
LEMMA SoundIsLoose ==
  ASSUME NEW t, Sound(t)
  PROVE  Loose(t)
BY ClipFields DEF Loose, LooseClip, Sound

\* Every clip ends before the timeline does.
LEMMA DurationCovers ==
  ASSUME NEW t, Loose(t)
  PROVE  Duration(t) \in Nat /\ \A i \in DOMAIN t : ClipEnd(t[i]) <= Duration(t)
<1> DEFINE E == {ClipEnd(t[i]) : i \in DOMAIN t}
           T == {0} \cup E
<1>1. IsFiniteSet(DOMAIN t)
  BY FS_Subset, TimelineAssumption DEF Loose
<1>2. IsFiniteSet(E)
  <2> DEFINE f == [i \in DOMAIN t |-> ClipEnd(t[i])]
  <2>1. f \in Surjection(DOMAIN t, E)
    BY DEF Surjection
  <2>2. QED
    BY <1>1, <2>1, FS_Surjection
<1>3. \A i \in DOMAIN t : ClipEnd(t[i]) \in Nat
  BY DEF Loose, LooseClip, LooseClips, ClipEnd
<1>4. T \in SUBSET Nat /\ T # {} /\ E \in SUBSET Nat
  BY <1>3
<1>5. PICK b \in Nat : \A n \in E : n <= b
  <2> HIDE DEF E
  <2>1. QED
    BY <1>2, <1>4, FiniteIsBounded
<1>6. \A n \in T : n <= b
  BY <1>5
<1>7. Max(T) \in T /\ \A n \in T : n <= Max(T)
  <2> HIDE DEF T
  <2>1. QED
    BY <1>4, <1>6, GreatestOf
<1>8. Duration(t) = Max(T)
  BY DEF Duration
<1>9. QED
  BY <1>4, <1>7, <1>8

\* A loose timeline that ends in time is sound.
LEMMA LooseFits ==
  ASSUME NEW t, Loose(t), Duration(t) <= MaxTick
  PROVE  Sound(t)
<1>1. MaxTick \in Nat
  BY TimelineAssumption
<1>2. ASSUME NEW i \in DOMAIN t PROVE t[i] \in Clips
  <2>1. t[i] \in LooseClips /\ Playable(t[i]) /\ (t[i].source <= MaxTick \/ t[i].source = t[i].duration)
    BY DEF Loose, LooseClip
  <2>2. /\ t[i].track \in Tracks /\ t[i].start \in Nat /\ t[i].duration \in Nat
        /\ t[i].offset \in Nat /\ t[i].source \in Nat /\ t[i].audio \in BOOLEAN
    BY <2>1 DEF LooseClips
  <2>3. t[i].start + t[i].duration <= MaxTick
    BY <1>1, <2>2, DurationCovers DEF ClipEnd
  <2>4. /\ t[i].start \in Ticks /\ t[i].duration \in Ticks
        /\ t[i].offset \in Ticks /\ t[i].source \in Ticks
    BY <1>1, <2>1, <2>2, <2>3 DEF Playable, Ticks
  <2>5. QED
    BY <2>1, <2>2, <2>4 DEF LooseClips, Clips
<1>3. t = [i \in DOMAIN t |-> t[i]] /\ DOMAIN t \subseteq Ids /\ \A i \in DOMAIN t : Playable(t[i])
  BY DEF Loose, LooseClip
<1>4. t \in [DOMAIN t -> Clips]
  BY <1>2, <1>3
<1>5. QED
  BY <1>3, <1>4 DEF Sound

\* An edit keeps a timeline sound if what it yields is loose.
LEMMA DoKeeps ==
  ASSUME TimelineInv, NEW os, \A o \in os : Loose(o.timeline), Do(os)
  PROVE  TimelineInv'
<1>1. PICK o \in os : Duration(o.timeline) <= MaxTick /\ timeline' = o.timeline
  BY DEF Do, Changing
<1>2. Sound(o.timeline)
  BY <1>1, LooseFits
<1>3. edits' \in 0..MaxEdits
  BY TimelineAssumption DEF Do, TimelineInv
<1>4. QED
  BY <1>1, <1>2, <1>3 DEF TimelineInv, Sound


\* What is known of a clip of a loose one.
LEMMA LooseFields ==
  ASSUME NEW t, Loose(t), NEW i \in DOMAIN t
  PROVE  /\ t[i] \in LooseClips /\ Playable(t[i])
         /\ t[i].track \in Tracks /\ t[i].start \in Nat /\ t[i].duration \in Nat
         /\ t[i].offset \in Nat /\ t[i].source \in Nat /\ t[i].audio \in BOOLEAN
         /\ ClipEnd(t[i]) = t[i].start + t[i].duration /\ ClipEnd(t[i]) \in Nat
<1>1. t[i] \in LooseClips /\ Playable(t[i])
  BY DEF Loose, LooseClip
<1>2. /\ t[i].track \in Tracks /\ t[i].start \in Nat /\ t[i].duration \in Nat
      /\ t[i].offset \in Nat /\ t[i].source \in Nat /\ t[i].audio \in BOOLEAN
  BY <1>1 DEF LooseClips
<1>3. ClipEnd(t[i]) = t[i].start + t[i].duration /\ ClipEnd(t[i]) \in Nat
  BY <1>2 DEF ClipEnd
<1>4. QED
  BY <1>1, <1>2, <1>3

\* Where a selection starts, and where it ends.
LEMMA SelectionEnds ==
  ASSUME NEW t, Loose(t), NEW is \in SUBSET (DOMAIN t), is # {}
  PROVE  /\ FirstStart(t, is) \in Nat /\ LastEnd(t, is) \in Nat
         /\ FirstStart(t, is) <= LastEnd(t, is)
         /\ \A i \in is : FirstStart(t, is) <= t[i].start
         /\ \A i \in is : ClipEnd(t[i]) <= LastEnd(t, is)
         /\ \E i \in is : FirstStart(t, is) = t[i].start
         /\ \E i \in is : LastEnd(t, is) = ClipEnd(t[i])
<1> DEFINE S == {t[i].start : i \in is}
           E == {ClipEnd(t[i]) : i \in is}
<1>1. \A i \in is : t[i].start \in Nat /\ ClipEnd(t[i]) \in Nat /\ t[i].start <= ClipEnd(t[i])
  <2>1. TAKE i \in is
  <2>2. t[i].start \in Nat /\ t[i].duration \in Nat /\ ClipEnd(t[i]) = t[i].start + t[i].duration
    BY LooseFields
  <2>3. QED
    BY <2>2
<1>2. S \in SUBSET Nat /\ S # {} /\ E \in SUBSET Nat /\ E # {}
  BY <1>1
<1>3. Duration(t) \in Nat /\ \A n \in E : n <= Duration(t)
  BY DurationCovers
<1>4. Min(S) \in S /\ \A n \in S : Min(S) <= n
  <2> HIDE DEF S
  <2>1. QED
    BY <1>2, LeastOf
<1>5. Max(E) \in E /\ \A n \in E : n <= Max(E)
  <2> HIDE DEF E
  <2>1. QED
    BY <1>2, <1>3, GreatestOf
<1>6. FirstStart(t, is) = Min(S) /\ LastEnd(t, is) = Max(E)
  BY DEF FirstStart, LastEnd
<1>7. /\ \A i \in is : FirstStart(t, is) <= t[i].start
      /\ \A i \in is : ClipEnd(t[i]) <= LastEnd(t, is)
      /\ \E i \in is : FirstStart(t, is) = t[i].start
      /\ \E i \in is : LastEnd(t, is) = ClipEnd(t[i])
  <2>1. /\ \A i \in is : FirstStart(t, is) <= t[i].start
        /\ \E i \in is : FirstStart(t, is) = t[i].start
    <3> HIDE DEF E
    <3>1. QED
      BY <1>4, <1>6
  <2>2. /\ \A i \in is : ClipEnd(t[i]) <= LastEnd(t, is)
        /\ \E i \in is : LastEnd(t, is) = ClipEnd(t[i])
    <3> HIDE DEF S
    <3>1. QED
      BY <1>5, <1>6
  <2>3. QED
    BY <2>1, <2>2
<1>8. FirstStart(t, is) \in Nat /\ LastEnd(t, is) \in Nat
  BY <1>1, <1>7
<1>9. FirstStart(t, is) <= LastEnd(t, is)
  <2>1. PICK i \in is : FirstStart(t, is) = t[i].start
    BY <1>7
  <2>2. ClipEnd(t[i]) <= LastEnd(t, is) /\ t[i].start <= ClipEnd(t[i]) /\ ClipEnd(t[i]) \in Nat
    BY <1>1, <1>7
  <2>3. QED
    BY <1>8, <2>1, <2>2
<1>10. QED
  BY <1>7, <1>8, <1>9

-----------------------------------------------------------------------------
(* What the editor may ask for *)

\* The playhead stands at a tick.
LEMMA SnapFacts ==
  ASSUME NEW t, NEW s \in Snaps(t)
  PROVE  s.playhead \in Nat /\ s.snapping \in BOOLEAN
<1>1. CASE s \in [playhead : Here(t), snapping : {TRUE}]
  <2>1. s.playhead \in Here(t) /\ s.snapping \in {TRUE}
    BY <1>1
  <2>2. s.playhead \in Nat
    BY <2>1, TimelineAssumption DEF Here
  <2>3. QED
    BY <2>1, <2>2, Zenon
<1>2. CASE s \in [playhead : {0}, snapping : {FALSE}]
  <2>1. s.playhead \in {0} /\ s.snapping \in {FALSE}
    BY <1>2
  <2>2. s.playhead \in Nat
    BY <2>1
  <2>3. QED
    BY <2>1, <2>2, Zenon
<1>3. QED
  BY <1>1, <1>2 DEF Snaps

\* A move is of clips that are there, by a number of ticks.
LEMMA MoveFacts ==
  ASSUME NEW t, Loose(t), NEW e \in Moves(t)
  PROVE  /\ e.ids \in SUBSET (DOMAIN t) /\ e.ids # {} /\ e.delta \in Int
         /\ e.target \in Tracks \cup {NoTrack} /\ e.playhead \in Nat
         /\ e.snapping \in BOOLEAN /\ e.ripple \in BOOLEAN
<1>1. Frame \in Nat /\ MaxDrag \in Nat /\ Playheads \subseteq Nat
  BY TimelineAssumption
<1>2. \A s \in Snaps(t) : s.playhead \in Nat /\ s.snapping \in BOOLEAN
  BY SnapFacts
<1>3. CASE e \in Drags(t)
  <2>1. PICK is \in Selections(t), n \in -MaxDrag..MaxDrag, k \in Tracks, s \in Snaps(t), r \in BOOLEAN :
          e = MoveOf(is, n, k, s, r)
    BY <1>3 DEF Drags
  <2>2. n \in Int
    BY <1>1
  <2>3. /\ e.ids = is /\ e.delta = n /\ e.target = k /\ e.playhead = s.playhead
        /\ e.snapping = s.snapping /\ e.ripple = r
    BY <2>1, Zenon DEF MoveOf
  <2>4. is \in SUBSET (DOMAIN t) /\ is # {}
    BY DEF Selections
  <2>5. QED
    BY <1>2, <2>2, <2>3, <2>4
<1>4. CASE e \in Keys(t)
  <2>1. PICK is \in Selections(t), n \in {-Frame, Frame}, r \in BOOLEAN :
          e = MoveOf(is, n, NoTrack, [playhead |-> 0, snapping |-> FALSE], r)
    BY <1>4 DEF Keys
  <2>2. n \in Int
    BY <1>1
  <2>3. /\ e.ids = is /\ e.delta = n /\ e.target = NoTrack /\ e.playhead = 0
        /\ e.snapping = FALSE /\ e.ripple = r
    BY <2>1, Zenon DEF MoveOf
  <2>4. is \in SUBSET (DOMAIN t) /\ is # {}
    BY DEF Selections
  <2>5. e.snapping \in BOOLEAN /\ e.ripple \in BOOLEAN
    BY <2>3, Zenon
  <2>6. QED
    BY <2>2, <2>3, <2>4, <2>5
<1>5. QED
  BY <1>3, <1>4 DEF Moves

\* A trim is of a clip that is there, to a tick of the timeline.
LEMMA TrimFacts ==
  ASSUME NEW t, Loose(t), NEW e \in Trims(t)
  PROVE  /\ e.id \in DOMAIN t /\ e.edge \in {"start", "end"} /\ e.to \in Nat
         /\ e.playhead \in Nat /\ e.snapping \in BOOLEAN /\ e.ripple \in BOOLEAN
<1>1. MaxTick \in Nat /\ Playheads \subseteq Nat
  BY TimelineAssumption
<1>2. \A s \in Snaps(t) : s.playhead \in Nat /\ s.snapping \in BOOLEAN
  BY SnapFacts
<1>3. PICK i \in DOMAIN t, g \in {"start", "end"}, n \in Ticks, s \in Snaps(t), r \in BOOLEAN :
        e = [id |-> i, edge |-> g, to |-> n, playhead |-> s.playhead, snapping |-> s.snapping, ripple |-> r]
  BY DEF Trims
<1>4. n \in Nat
  BY <1>1 DEF Ticks
<1>5. QED
  BY <1>2, <1>3, <1>4

\* The first of the moved clips is one of them, so they go to a track.
LEMMA DestinationIsTrack ==
  ASSUME NEW t, Loose(t), NEW e \in Moves(t)
  PROVE  Destination(t, e) \in Tracks
<1>1. /\ e.ids \in SUBSET (DOMAIN t) /\ e.ids # {} /\ e.target \in Tracks \cup {NoTrack}
  BY MoveFacts
<1>2. CASE e.target # NoTrack
  BY <1>1, <1>2 DEF Destination
<1>3. CASE e.target = NoTrack
  <2> DEFINE first == FirstStart(t, e.ids)
             S == {i \in e.ids : t[i].start = first}
  <2>1. S # {} /\ S \in SUBSET Nat
    BY <1>1, SelectionEnds, TimelineAssumption DEF Loose
  <2>2. PICK i \in S : \A j \in S : i <= j
    <3> HIDE DEF S
    <3>1. QED
      BY <2>1, LeastNatural
  <2>3. ASSUME NEW j \in e.ids PROVE t[i].start < t[j].start \/ (t[i].start = t[j].start /\ i <= j)
    <3>1. first <= t[j].start /\ first \in Nat /\ t[j].start \in Nat
      BY <1>1, SelectionEnds, LooseFields
    <3>2. CASE t[j].start = first
      BY <2>2, <3>2
    <3>3. CASE t[j].start # first
      BY <3>1, <3>3
    <3>4. QED
      BY <3>2, <3>3
  <2>4. Leader(t, e.ids) \in e.ids
    BY <2>2, <2>3 DEF Leader
  <2>5. t[Leader(t, e.ids)].track \in Tracks
    BY <1>1, <2>4, LooseFields
  <2>6. QED
    BY <1>3, <2>5 DEF Destination
<1>4. QED
  BY <1>2, <1>3

-----------------------------------------------------------------------------
(* Snapping *)

\* The nearest target is one of them within the tolerance, and there is none only
\* when none is.
LEMMA NearestIs ==
  ASSUME NEW v \in Int, NEW T \in SUBSET Nat
  PROVE  \/ Nearest(v, T) = {} /\ \A y \in T : Distance(y, v) > Tolerance
         \/ \E x \in T : /\ Nearest(v, T) = {x} /\ Distance(x, v) <= Tolerance
                         /\ \A y \in T : Distance(x, v) <= Distance(y, v)
<1> DEFINE near == {x \in T : Distance(x, v) <= Tolerance}
           D == {Distance(x, v) : x \in near}
           least == Min(D)
           N == {x \in near : Distance(x, v) = least}
<1>1. \A x \in T : Distance(x, v) \in Nat
  BY DEF Distance
<1>2. Tolerance \in Nat
  BY TimelineAssumption
<1>3. Nearest(v, T) = IF near = {} THEN {} ELSE {Min(N)}
  BY DEF Nearest
<1>4. CASE near = {}
  BY <1>1, <1>2, <1>3, <1>4
<1>5. CASE near # {}
  <2>1. D \in SUBSET Nat /\ D # {}
    BY <1>1, <1>5
  <2>2. least \in D /\ \A n \in D : least <= n
    <3> HIDE DEF D
    <3>1. QED
      BY <2>1, LeastOf
  <2>3. N \in SUBSET Nat /\ N # {}
    BY <2>2
  <2>4. Min(N) \in N
    <3> HIDE DEF N
    <3>1. QED
      BY <2>3, LeastOf
  <2>5. Min(N) \in T /\ Distance(Min(N), v) = least /\ least <= Tolerance
    BY <2>4
  <2>6. \A y \in T : least <= Distance(y, v)
    <3>1. TAKE y \in T
    <3>2. CASE y \in near
      BY <2>2, <3>2
    <3>3. CASE y \notin near
      <4>1. least \in Nat /\ Distance(y, v) \in Nat /\ ~(Distance(y, v) <= Tolerance)
        BY <1>1, <2>1, <2>2, <3>3
      <4> HIDE DEF least
      <4>2. QED
        BY <1>2, <2>5, <4>1
    <3>4. QED
      BY <3>2, <3>3
  <2>7. Nearest(v, T) = {Min(N)}
    BY <1>3, <1>5
  <2>8. QED
    <3> HIDE DEF N, least
    <3>1. QED
      BY <2>5, <2>6, <2>7
<1>6. QED
  BY <1>4, <1>5

\* A group that snaps stays on the timeline, and an edge of it is at the target.
LEMMA SnapGroupIs ==
  ASSUME NEW first \in Nat, NEW last \in Nat, first <= last,
         NEW delta \in Int, first + delta >= 0, NEW T \in SUBSET Nat, 0 \in T
  PROVE  LET r == SnapGroup(first, last, delta, T)
         IN  /\ r.delta \in Int /\ first + r.delta >= 0
             /\ \A x \in r.snapped : x \in {first + r.delta, last + r.delta}
<1> DEFINE r == SnapGroup(first, last, delta, T)
           a(x) == [edge |-> first + delta, to |-> x]
           b(x) == [edge |-> last + delta, to |-> x]
           left == {a(x) : x \in Nearest(first + delta, T)}
           right == {b(x) : x \in Nearest(last + delta, T)}
           best == IF left = {} THEN right ELSE IF right = {} THEN left
                   ELSE {Closer(l, m) : l \in left, m \in right}
           At(c) == /\ c.to \in Nat /\ c.edge \in {first + delta, last + delta}
                    /\ c.to - c.edge + delta >= -first
<1>1. /\ first + delta \in Int /\ last + delta \in Int
      /\ Distance(0, first + delta) = first + delta /\ Tolerance \in Nat
  BY TimelineAssumption DEF Distance
<1>2. /\ r = IF best = {} THEN [delta |-> delta, snapped |-> {}]
             ELSE LET c == CHOOSE c \in best : TRUE IN
                  [delta |-> NotBefore(-first, delta + c.to - c.edge), snapped |-> {c.to}]
  BY DEF SnapGroup
<1>3. \A x \in Nat : At(a(x))
  OBVIOUS
<1>4. ASSUME NEW x \in Nat, Distance(x, last + delta) <= first + delta PROVE At(b(x))
  BY <1>1, <1>4 DEF Distance
<1>5. \A c \in best : At(c)
  <2>1. CASE Nearest(first + delta, T) = {}
    <3>1. first + delta > Tolerance
      BY <1>1, <2>1, NearestIs
    <3>2. ASSUME NEW x \in Nearest(last + delta, T) PROVE At(b(x))
      <4>1. x \in Nat /\ Distance(x, last + delta) <= Tolerance
        BY <1>1, NearestIs
      <4>2. Distance(x, last + delta) \in Nat
        BY <1>1, <4>1 DEF Distance
      <4>3. QED
        BY <1>1, <1>4, <3>1, <4>1, <4>2
    <3>3. best = right
      BY <2>1
    <3>4. QED
      BY <3>2, <3>3
  <2>2. CASE Nearest(first + delta, T) # {}
    <3>1. PICK x \in T : /\ Nearest(first + delta, T) = {x}
                         /\ Distance(x, first + delta) <= first + delta
      BY <1>1, <2>2, NearestIs
    <3>2. left = {a(x)} /\ At(a(x)) /\ x \in Nat
      BY <1>3, <3>1
    <3>3. CASE Nearest(last + delta, T) = {}
      BY <3>2, <3>3
    <3>4. CASE Nearest(last + delta, T) # {}
      <4>1. PICK y \in T : Nearest(last + delta, T) = {y}
        BY <1>1, <3>4, NearestIs
      <4>2. right = {b(y)} /\ y \in Nat
        BY <4>1
      <4>3. best = {Closer(a(x), b(y))}
        BY <3>2, <4>2
      <4>4. At(Closer(a(x), b(y)))
        <5>1. CASE Closer(a(x), b(y)) = a(x)
          BY <3>2, <5>1
        <5>2. CASE Closer(a(x), b(y)) # a(x)
          <6>1. /\ Closer(a(x), b(y)) = b(y)
                /\ ~(Distance(x, first + delta) < Distance(y, last + delta))
            BY <5>2 DEF Closer
          <6>2. Distance(x, first + delta) \in Nat /\ Distance(y, last + delta) \in Nat
            BY <1>1, <3>2, <4>2 DEF Distance
          <6>3. Distance(y, last + delta) <= first + delta
            BY <1>1, <3>1, <6>1, <6>2
          <6>4. At(b(y))
            BY <1>4, <4>2, <6>3
          <6>5. QED
            BY <6>1, <6>4
        <5>3. QED
          BY <5>1, <5>2
      <4>5. QED
        BY <4>3, <4>4
    <3>5. QED
      BY <3>3, <3>4
  <2>3. QED
    BY <2>1, <2>2
<1>6. CASE best = {}
  BY <1>2, <1>6
<1>7. CASE best # {}
  <2> HIDE DEF best
  <2>1. PICK c \in best : r = [delta |-> NotBefore(-first, delta + c.to - c.edge), snapped |-> {c.to}]
    BY <1>2, <1>7
  <2>2. At(c)
    BY <1>5
  <2>3. r.delta = delta + c.to - c.edge /\ r.snapped = {c.to}
    BY <1>1, <2>1, <2>2 DEF NotBefore
  <2>4. QED
    BY <1>1, <2>2, <2>3
<1>8. QED
  BY <1>6, <1>7

\* Clips begin and end at ticks.
LEMMA TargetsAreTicks ==
  ASSUME NEW t, Loose(t), NEW but, NEW playhead \in Nat
  PROVE  SnapTargets(t, but, playhead) \in SUBSET Nat /\ 0 \in SnapTargets(t, but, playhead)
<1>1. \A i \in DOMAIN t : t[i].start \in Nat /\ ClipEnd(t[i]) \in Nat
  BY LooseFields
<1>2. QED
  BY <1>1 DEF SnapTargets

\* How far a move goes: the group stays on the timeline, and what it reports as its
\* snap is where one of its edges comes to be.
LEMMA MoveDeltaIs ==
  ASSUME NEW t, Loose(t), NEW e \in Moves(t)
  PROVE  LET d == MoveDelta(t, e)
         IN  /\ d.delta \in Int /\ FirstStart(t, e.ids) + d.delta >= 0
             /\ \A x \in d.snapped : x \in {FirstStart(t, e.ids) + d.delta, LastEnd(t, e.ids) + d.delta}
<1> DEFINE d == MoveDelta(t, e)
           first == FirstStart(t, e.ids)
           last == LastEnd(t, e.ids)
           delta == NotBefore(-first, e.delta)
           T == SnapTargets(t, e.ids, e.playhead)
<1>1. e.delta \in Int /\ e.playhead \in Nat
  BY MoveFacts
<1>2. first \in Nat /\ last \in Nat /\ first <= last
  BY MoveFacts, SelectionEnds
<1>3. delta \in Int /\ first + delta >= 0
  BY <1>1, <1>2 DEF NotBefore
<1>4. T \in SUBSET Nat /\ 0 \in T
  BY <1>1, TargetsAreTicks
<1>5. d = IF ~e.snapping THEN [delta |-> delta, snapped |-> {}] ELSE SnapGroup(first, last, delta, T)
  BY DEF MoveDelta
<1>6. CASE ~e.snapping
  BY <1>3, <1>5, <1>6
<1>7. CASE e.snapping
  <2> HIDE DEF first, last, delta, T
  <2>1. /\ SnapGroup(first, last, delta, T).delta \in Int
        /\ first + SnapGroup(first, last, delta, T).delta >= 0
        /\ \A x \in SnapGroup(first, last, delta, T).snapped :
             x \in {first + SnapGroup(first, last, delta, T).delta,
                    last + SnapGroup(first, last, delta, T).delta}
    BY <1>2, <1>3, <1>4, SnapGroupIs
  <2>2. d = SnapGroup(first, last, delta, T)
    BY <1>5, <1>7
  <2>3. QED
    BY <2>1, <2>2 DEF first, last
<1>8. QED
  BY <1>6, <1>7

-----------------------------------------------------------------------------
(* Clips that are moved and cut *)

\* A clip that differs in nothing but its place, on a track that takes it.
LEMMA PlacedClip ==
  ASSUME NEW c, LooseClip(c), NEW d \in LooseClips, d.duration = c.duration, d.offset = c.offset,
         d.source = c.source, d.audio = c.audio, Accepts(d.track, c)
  PROVE  LooseClip(d) /\ ClipEnd(d) = d.start + c.duration
BY DEF LooseClip, Playable, Accepts, ClipEnd

\* A clip that starts elsewhere on its track.
LEMMA ShiftedClip ==
  ASSUME NEW c, LooseClip(c), NEW n \in Nat
  PROVE  LET d == [c EXCEPT !.start = n]
         IN  /\ LooseClip(d) /\ d.start = n /\ d.track = c.track /\ d.duration = c.duration
             /\ ClipEnd(d) = n + c.duration
<1> DEFINE d == [c EXCEPT !.start = n]
<1>1. c \in LooseClips
  BY DEF LooseClip
<1>2. /\ d \in LooseClips /\ d.start = n /\ d.track = c.track /\ d.duration = c.duration
      /\ d.offset = c.offset /\ d.source = c.source /\ d.audio = c.audio
  BY <1>1 DEF LooseClips
<1>3. /\ LooseClip(d) /\ d.start = n /\ d.track = c.track /\ d.duration = c.duration
      /\ ClipEnd(d) = n + c.duration
  <2> HIDE DEF d
  <2>1. QED
    BY <1>1, <1>2 DEF LooseClip, Playable, Accepts, ClipEnd
<1>4. QED
  BY <1>3

\* What is left of a clip after a cut within it.
LEMMA StartCut ==
  ASSUME NEW c, LooseClip(c), c.source <= MaxTick, NEW n \in Nat, c.start <= n, n < ClipEnd(c)
  PROVE  LET d == Cut(c, "start", n)
         IN  LooseClip(d) /\ d.start = n /\ d.track = c.track /\ ClipEnd(d) = ClipEnd(c)
<1> DEFINE d == Cut(c, "start", n)
<1>1. c \in LooseClips /\ Playable(c)
  BY DEF LooseClip
<1>2. /\ c.start \in Nat /\ c.duration \in Nat /\ c.offset \in Nat
      /\ n - c.start \in Nat /\ n - c.start < c.duration
  BY <1>1 DEF LooseClips, ClipEnd
<1>3. /\ d = [c EXCEPT !.start = n, !.offset = c.offset + n - c.start, !.duration = c.duration - (n - c.start)]
      /\ c.offset + n - c.start \in Nat /\ c.duration - (n - c.start) \in Nat
  <2>1. d = [c EXCEPT !.start = n, !.offset = c.offset + n - c.start, !.duration = c.duration - (n - c.start)]
    BY <1>1, Zenon DEF Cut, LooseClips
  <2>2. QED
    BY <1>2, <2>1
<1>4. /\ d \in LooseClips /\ d.start = n /\ d.track = c.track /\ d.duration = c.duration - (n - c.start)
      /\ d.offset = c.offset + n - c.start /\ d.source = c.source /\ d.audio = c.audio
  BY <1>1, <1>3 DEF LooseClips
<1>5. LooseClip(d) /\ d.start = n /\ d.track = c.track /\ ClipEnd(d) = ClipEnd(c)
  <2> HIDE DEF d
  <2>1. QED
    BY <1>1, <1>2, <1>4 DEF LooseClip, Playable, Accepts, ClipEnd
<1>6. QED
  BY <1>5

\* The same at its end.
LEMMA EndCut ==
  ASSUME NEW c, LooseClip(c), c.source <= MaxTick, NEW n \in Nat, c.start < n,
         n <= c.start + c.source - c.offset
  PROVE  LET d == Cut(c, "end", n)
         IN  LooseClip(d) /\ d.start = c.start /\ d.track = c.track /\ ClipEnd(d) = n
<1> DEFINE d == Cut(c, "end", n)
<1>1. c \in LooseClips /\ Playable(c)
  BY DEF LooseClip
<1>2. /\ c.start \in Nat /\ c.duration \in Nat /\ c.offset \in Nat /\ c.source \in Nat
      /\ n - c.start \in Nat
  BY <1>1 DEF LooseClips
<1>3. d = [c EXCEPT !.duration = n - c.start]
  BY DEF Cut
<1>4. /\ d \in LooseClips /\ d.start = c.start /\ d.track = c.track /\ d.duration = n - c.start
      /\ d.offset = c.offset /\ d.source = c.source /\ d.audio = c.audio
  BY <1>1, <1>2, <1>3 DEF LooseClips
<1>5. LooseClip(d) /\ d.start = c.start /\ d.track = c.track /\ ClipEnd(d) = n
  <2> HIDE DEF d
  <2>1. QED
    BY <1>1, <1>2, <1>4 DEF LooseClip, Playable, Accepts, ClipEnd
<1>6. QED
  BY <1>5

\* Loose clips over a loose timeline.
LEMMA WithLoose ==
  ASSUME NEW t, Loose(t), NEW p, Loose(p)
  PROVE  Loose(With(t, p))
BY DEF Loose, With

-----------------------------------------------------------------------------
(* Room and gaps *)

ClipTicks(t, is) == UNION {{i} \X (1..t[i].duration) : i \in is}

\* The clips of a sound timeline have finitely many ticks.
LEMMA TicksAreFinite ==
  ASSUME NEW t, Sound(t), NEW is \in SUBSET (DOMAIN t)
  PROVE  /\ IsFiniteSet(ClipTicks(t, is)) /\ DurationOf(t, is) = Cardinality(ClipTicks(t, is))
         /\ DurationOf(t, is) \in Nat
<1>1. MaxTick \in Nat /\ IsFiniteSet(is)
  BY FS_Subset, TimelineAssumption DEF Sound
<1>2. IsFiniteSet(is \X (1..MaxTick))
  <2>1. IsFiniteSet(1..MaxTick)
    BY <1>1, FS_Interval
  <2>2. QED
    BY <1>1, <2>1, FS_Product
<1>3. ClipTicks(t, is) \subseteq is \X (1..MaxTick)
  <2>1. ASSUME NEW i \in is, NEW n \in 1..t[i].duration PROVE <<i, n>> \in is \X (1..MaxTick)
    BY <1>1, <2>1, ClipFields
  <2>2. QED
    BY <2>1 DEF ClipTicks
<1>4. IsFiniteSet(ClipTicks(t, is))
  BY <1>2, <1>3, FS_Subset
<1>5. DurationOf(t, is) = Cardinality(ClipTicks(t, is))
  BY DEF DurationOf, ClipTicks
<1>6. QED
  BY <1>4, <1>5, FS_CardinalityType

\* Closing the gaps changes the starts of clips only.
LEMMA GapsClosedIs ==
  ASSUME NEW t, Sound(t), NEW sel \in SUBSET (DOMAIN t)
  PROVE  /\ Loose(GapsClosed(t, sel)) /\ DOMAIN GapsClosed(t, sel) = DOMAIN t
         /\ \A i \in sel : GapsClosed(t, sel)[i] = t[i]
         /\ \A i \in DOMAIN t \ sel :
              /\ GapsClosed(t, sel)[i].start =
                   NotBefore(0, t[i].start - DurationOf(t, Gone(t, sel, i)))
              /\ GapsClosed(t, sel)[i].track = t[i].track
              /\ GapsClosed(t, sel)[i].duration = t[i].duration
<1> DEFINE g == GapsClosed(t, sel)
<1>1. Loose(t)
  BY SoundIsLoose
<1>2. /\ DOMAIN g = DOMAIN t /\ g = [i \in DOMAIN g |-> g[i]]
      /\ \A i \in sel : g[i] = t[i]
  BY DEF GapsClosed
<1>3. ASSUME NEW i \in DOMAIN t \ sel
      PROVE  /\ LooseClip(g[i])
             /\ g[i].start = NotBefore(0, t[i].start - DurationOf(t, Gone(t, sel, i)))
             /\ g[i].track = t[i].track /\ g[i].duration = t[i].duration
  <2> DEFINE n == NotBefore(0, t[i].start - DurationOf(t, Gone(t, sel, i)))
  <2>1. DurationOf(t, Gone(t, sel, i)) \in Nat
    BY TicksAreFinite DEF Gone
  <2>2. n \in Nat /\ LooseClip(t[i])
    BY <1>1, <2>1, ClipFields DEF NotBefore, Loose
  <2>3. g[i] = [t[i] EXCEPT !.start = n]
    BY <1>3, ClipFields DEF GapsClosed, Clips
  <2> HIDE DEF n
  <2>4. /\ LooseClip([t[i] EXCEPT !.start = n]) /\ [t[i] EXCEPT !.start = n].start = n
        /\ [t[i] EXCEPT !.start = n].track = t[i].track
        /\ [t[i] EXCEPT !.start = n].duration = t[i].duration
    BY <2>2, ShiftedClip
  <2>5. QED
    BY <2>3, <2>4 DEF n
<1>4. \A i \in DOMAIN g : LooseClip(g[i])
  BY <1>1, <1>2, <1>3 DEF Loose
<1>5. Loose(g)
  BY <1>1, <1>2, <1>4 DEF Loose
<1>6. QED
  BY <1>2, <1>3, <1>5

-----------------------------------------------------------------------------
(* Moves *)

\* What is moved keeps its place in the group, on the track it goes to.
LEMMA PlacedIs ==
  ASSUME NEW t, Loose(t), NEW e \in Moves(t), Allowed(t, e),
         NEW n \in Int, FirstStart(t, e.ids) + n >= 0
  PROVE  /\ Loose(Placed(t, e, n)) /\ DOMAIN Placed(t, e, n) = e.ids
         /\ \A i \in e.ids : /\ Placed(t, e, n)[i].start = t[i].start + n
                             /\ Placed(t, e, n)[i].track = Destination(t, e)
                             /\ ClipEnd(Placed(t, e, n)[i]) = ClipEnd(t[i]) + n
<1> DEFINE p == Placed(t, e, n)
           k == Destination(t, e)
<1>1. e.ids \in SUBSET (DOMAIN t) /\ e.ids # {} /\ k \in Tracks
  BY MoveFacts, DestinationIsTrack
<1>2. DOMAIN p = e.ids /\ p = [i \in DOMAIN p |-> p[i]]
  BY DEF Placed
<1>3. ASSUME NEW i \in e.ids
      PROVE  /\ LooseClip(p[i]) /\ p[i].start = t[i].start + n /\ p[i].track = k
             /\ ClipEnd(p[i]) = ClipEnd(t[i]) + n
  <2> DEFINE m == t[i].start + n
  <2>1. /\ t[i].start \in Nat /\ t[i].duration \in Nat /\ LooseClip(t[i])
        /\ ClipEnd(t[i]) = t[i].start + t[i].duration /\ t[i] \in LooseClips
    BY <1>1, LooseFields DEF Loose
  <2>2. FirstStart(t, e.ids) <= t[i].start /\ FirstStart(t, e.ids) \in Nat
    BY <1>1, SelectionEnds
  <2>3. m \in Nat
    BY <2>1, <2>2
  <2>4. p[i] = [t[i] EXCEPT !.track = k, !.start = NotBefore(0, t[i].start + n)]
    BY <2>1, Zenon DEF Placed, LooseClips
  <2>5. NotBefore(0, t[i].start + n) = m
    BY <2>3 DEF NotBefore
  <2>6. p[i] = [t[i] EXCEPT !.track = k, !.start = m]
    BY <2>4, <2>5
  <2>7. Accepts(k, t[i])
    BY DEF Allowed
  <2> HIDE DEF m, k, p
  <2>8. /\ LooseClip(p[i]) /\ p[i].start = m /\ p[i].track = k /\ ClipEnd(p[i]) = m + t[i].duration
    <3> DEFINE d == [t[i] EXCEPT !.track = k, !.start = m]
    <3>1. /\ d \in LooseClips /\ d.start = m /\ d.track = k /\ d.duration = t[i].duration
          /\ d.offset = t[i].offset /\ d.source = t[i].source /\ d.audio = t[i].audio
      BY <1>1, <2>1, <2>3 DEF LooseClips
    <3>2. p[i] = d
      BY <2>6
    <3> HIDE DEF d
    <3>3. LooseClip(d) /\ ClipEnd(d) = d.start + t[i].duration
      BY <2>1, <2>7, <3>1, PlacedClip
    <3>4. QED
      BY <3>1, <3>2, <3>3
  <2>9. QED
    BY <2>1, <2>8 DEF m
<1>4. Loose(p)
  BY <1>1, <1>2, <1>3 DEF Loose
<1>5. QED
  BY <1>2, <1>3, <1>4

\* Room is made by changing the starts of other clips.
LEMMA RoomMadeIs ==
  ASSUME NEW t, Sound(t), NEW e \in Moves(t), NEW n \in Int
  PROVE  Loose(RoomMade(t, e, n)) /\ DOMAIN RoomMade(t, e, n) = DOMAIN t
<1> DEFINE r == RoomMade(t, e, n)
           closed == GapsClosed(t, e.ids)
           span == LastEnd(t, e.ids) - FirstStart(t, e.ids)
<1>1. Loose(t) /\ e.ids \in SUBSET (DOMAIN t) /\ e.ids # {}
  BY SoundIsLoose, MoveFacts
<1>2. Loose(closed) /\ DOMAIN closed = DOMAIN t
  BY <1>1, GapsClosedIs
<1>3. span \in Nat
  BY <1>1, SelectionEnds
<1>4. DOMAIN r = DOMAIN t /\ r = [i \in DOMAIN r |-> r[i]]
  BY DEF RoomMade
<1>5. ASSUME NEW i \in DOMAIN t PROVE LooseClip(r[i])
  <2>1. closed[i] \in LooseClips /\ LooseClip(closed[i]) /\ closed[i].start \in Nat
    <3> HIDE DEF closed
    <3>1. QED
      BY <1>2, LooseFields DEF Loose
  <2> DEFINE m == closed[i].start + span
  <2>2. m \in Nat
    BY <1>3, <2>1
  <2>3. r[i] = [closed[i] EXCEPT !.start = m] \/ r[i] = closed[i]
    <3>1. r[i] = [closed[i] EXCEPT !.start = @ + span] \/ r[i] = closed[i]
      BY Zenon DEF RoomMade
    <3>2. [closed[i] EXCEPT !.start = @ + span] = [closed[i] EXCEPT !.start = m]
      BY <2>1, Zenon DEF LooseClips
    <3>3. QED
      BY <3>1, <3>2
  <2> HIDE DEF m, closed, r
  <2>4. QED
    BY <2>1, <2>2, <2>3, ShiftedClip
<1>6. QED
  BY <1>1, <1>4, <1>5 DEF Loose

\* What a move makes of a timeline.
LEMMA MovedIs ==
  ASSUME NEW t, Sound(t), NEW e \in Moves(t), NEW o \in Moved(t, e)
  PROVE  /\ Loose(o.timeline) /\ DOMAIN o.timeline = DOMAIN t
         /\ Allowed(t, e) /\ o.snapped = MoveDelta(t, e).snapped
         /\ \A i \in e.ids : o.timeline[i] = Placed(t, e, MoveDelta(t, e).delta)[i]
<1> DEFINE n == MoveDelta(t, e).delta
           p == Placed(t, e, n)
           rest == IF e.ripple THEN RoomMade(t, e, n) ELSE t
<1>1. Allowed(t, e) /\ o = Outcome(With(rest, p), MoveDelta(t, e).snapped)
  BY DEF Moved
<1>2. o.timeline = With(rest, p) /\ o.snapped = MoveDelta(t, e).snapped
  BY <1>1 DEF Outcome
<1>3. Loose(t) /\ e.ids \in SUBSET (DOMAIN t)
  BY SoundIsLoose, MoveFacts
<1>4. n \in Int /\ FirstStart(t, e.ids) + n >= 0
  BY <1>3, MoveDeltaIs
<1>5. Loose(rest) /\ DOMAIN rest = DOMAIN t
  BY <1>3, <1>4, RoomMadeIs
<1>6. Loose(p) /\ DOMAIN p = e.ids
  <2> HIDE DEF n
  <2>1. QED
    BY <1>1, <1>3, <1>4, PlacedIs
<1>7. /\ Loose(With(rest, p)) /\ DOMAIN With(rest, p) = DOMAIN t
      /\ \A i \in e.ids : With(rest, p)[i] = p[i]
  <2> HIDE DEF rest, p, n
  <2>1. /\ Loose(With(rest, p)) /\ DOMAIN With(rest, p) = DOMAIN rest \cup DOMAIN p
        /\ \A i \in DOMAIN p : With(rest, p)[i] = p[i]
    <3>1. Loose(With(rest, p))
      <4>1. Loose(rest) /\ Loose(p)
        BY <1>5, <1>6
      <4>2. QED
        BY <4>1, WithLoose
    <3>2. QED
      BY <3>1 DEF With
  <2>2. DOMAIN t \cup e.ids = DOMAIN t
    BY <1>3
  <2>3. QED
    BY <1>5, <1>6, <2>1, <2>2
<1>8. QED
  BY <1>1, <1>2, <1>7

\* What a move reports as its snap is where the group begins or ends.
LEMMA MoveLands ==
  ASSUME NEW t, Sound(t), NEW e \in Moves(t), NEW o \in Moved(t, e),
         NEW x \in o.snapped
  PROVE  x \in {FirstStart(o.timeline, e.ids), LastEnd(o.timeline, e.ids)}
<1> DEFINE d == MoveDelta(t, e)
           u == o.timeline
<1>1. Loose(t) /\ e.ids \in SUBSET (DOMAIN t) /\ e.ids # {}
  BY SoundIsLoose, MoveFacts
<1>2. /\ d.delta \in Int /\ FirstStart(t, e.ids) + d.delta >= 0
      /\ \A y \in d.snapped : y \in {FirstStart(t, e.ids) + d.delta, LastEnd(t, e.ids) + d.delta}
  BY <1>1, MoveDeltaIs
<1>3. /\ Loose(u) /\ DOMAIN u = DOMAIN t /\ Allowed(t, e) /\ o.snapped = d.snapped
      /\ \A i \in e.ids : u[i] = Placed(t, e, d.delta)[i]
  BY MovedIs
<1>4. \A i \in e.ids : u[i].start = t[i].start + d.delta /\ ClipEnd(u[i]) = ClipEnd(t[i]) + d.delta
  <2> HIDE DEF d, u
  <2>1. \A i \in e.ids : /\ Placed(t, e, d.delta)[i].start = t[i].start + d.delta
                         /\ ClipEnd(Placed(t, e, d.delta)[i]) = ClipEnd(t[i]) + d.delta
    BY <1>1, <1>2, <1>3, PlacedIs
  <2>2. QED
    BY <1>3, <2>1
<1>5. \A i \in e.ids : t[i].start \in Nat /\ ClipEnd(t[i]) \in Nat
  BY <1>1, LooseFields
<1>6. /\ FirstStart(t, e.ids) \in Nat /\ LastEnd(t, e.ids) \in Nat
      /\ \A i \in e.ids : FirstStart(t, e.ids) <= t[i].start
      /\ \A i \in e.ids : ClipEnd(t[i]) <= LastEnd(t, e.ids)
      /\ \E i \in e.ids : FirstStart(t, e.ids) = t[i].start
      /\ \E i \in e.ids : LastEnd(t, e.ids) = ClipEnd(t[i])
  BY <1>1, SelectionEnds
<1>7. /\ FirstStart(u, e.ids) \in Nat /\ LastEnd(u, e.ids) \in Nat
      /\ \A i \in e.ids : FirstStart(u, e.ids) <= u[i].start
      /\ \A i \in e.ids : ClipEnd(u[i]) <= LastEnd(u, e.ids)
      /\ \E i \in e.ids : FirstStart(u, e.ids) = u[i].start
      /\ \E i \in e.ids : LastEnd(u, e.ids) = ClipEnd(u[i])
  <2> HIDE DEF u
  <2>1. QED
    BY <1>1, <1>3, SelectionEnds
<1> HIDE DEF d, u
<1>8. FirstStart(u, e.ids) = FirstStart(t, e.ids) + d.delta
  BY <1>2, <1>4, <1>5, <1>6, <1>7
<1>9. LastEnd(u, e.ids) = LastEnd(t, e.ids) + d.delta
  BY <1>2, <1>4, <1>5, <1>6, <1>7
<1>10. QED
  BY <1>2, <1>3, <1>8, <1>9 DEF u

-----------------------------------------------------------------------------
(* Trims *)

\* A tick is clamped into a range.
LEMMA ClampIs ==
  ASSUME NEW R \in SUBSET Nat, R # {}, NEW b \in Nat, \A m \in R : m <= b, NEW n \in Nat
  PROVE  Clamp(n, R) \in R
<1>1. Min(R) \in R
  BY LeastOf
<1>2. Max(R) \in R
  BY GreatestOf
<1>3. QED
  BY <1>1, <1>2, Zenon DEF Clamp

\* A trim goes to a tick of its range, which is the one it reports if it snaps.
LEMMA SnappedIs ==
  ASSUME NEW t, Loose(t), NEW e \in Trims(t),
         NEW R \in SUBSET Nat, R # {}, NEW b \in Nat, \A m \in R : m <= b
  PROVE  Snapped(t, e, R).to \in R /\ \A x \in Snapped(t, e, R).snapped : x = Snapped(t, e, R).to
<1> DEFINE target == Clamp(e.to, R)
           T == SnapTargets(t, {e.id}, e.playhead)
           near == IF e.snapping THEN Nearest(target, T) ELSE {}
           to == Clamp(CHOOSE x \in near : TRUE, R)
<1>1. e.to \in Nat /\ e.playhead \in Nat
  BY TrimFacts
<1>2. target \in R
  BY <1>1, ClampIs
<1>3. T \in SUBSET Nat
  BY <1>1, TargetsAreTicks
<1>4. Snapped(t, e, R) = IF near = {} THEN [to |-> target, snapped |-> {}] ELSE [to |-> to, snapped |-> {to}]
  BY DEF Snapped
<1>5. CASE near = {}
  BY <1>2, <1>4, <1>5
<1>6. CASE near # {}
  <2>1. near = Nearest(target, T)
    BY <1>6
  <2>2. target \in Int
    <3> HIDE DEF target
    <3>1. QED
      BY <1>2
  <2>3. near \subseteq Nat
    <3> HIDE DEF target, T, near
    <3>1. QED
      BY <1>3, <2>1, <2>2, NearestIs
  <2>4. (CHOOSE x \in near : TRUE) \in Nat
    <3> HIDE DEF near
    <3>1. QED
      BY <1>6, <2>3
  <2>5. to \in R
    <3> DEFINE n == CHOOSE x \in near : TRUE
    <3>1. n \in Nat
      BY <2>4
    <3> HIDE DEF n
    <3>2. Clamp(n, R) \in R
      BY <3>1, ClampIs
    <3>3. QED
      BY <3>2 DEF n
  <2>6. Snapped(t, e, R) = [to |-> to, snapped |-> {to}]
    BY <1>4, <1>6
  <2> HIDE DEF to
  <2>7. QED
    BY <2>5, <2>6
<1>7. QED
  BY <1>5, <1>6

\* The range of a trim is bounded, and cuts the clip within its source.
LEMMA RangeIs ==
  ASSUME NEW t, Sound(t), NEW e \in Trims(t)
  PROVE  /\ TrimRange(t[e.id], e.edge) \in SUBSET Nat
         /\ \A m \in TrimRange(t[e.id], e.edge) : m <= t[e.id].start + t[e.id].source
<1> DEFINE c == t[e.id]
<1>1. /\ c.start \in Nat /\ c.duration \in Nat /\ c.offset \in Nat /\ c.source \in Nat
      /\ c.offset + c.duration <= c.source /\ ClipEnd(c) = c.start + c.duration
  <2>1. e.id \in DOMAIN t
    BY SoundIsLoose, TrimFacts
  <2>2. QED
    BY <2>1, ClipFields
<1>2. Frame \in Nat
  BY TimelineAssumption
<1> HIDE DEF c
<1>3. TrimRange(c, e.edge) \in SUBSET Nat /\ \A m \in TrimRange(c, e.edge) : m <= c.start + c.source
  BY <1>1, <1>2 DEF TrimRange
<1>4. QED
  BY <1>3 DEF c

\* What is left of a trimmed clip: the start moves and the end stays, or the other
\* way round.
LEMMA CutIs ==
  ASSUME NEW t, Sound(t), NEW e \in Trims(t), NEW n \in TrimRange(t[e.id], e.edge)
  PROVE  LET cut == Cut(t[e.id], e.edge, n)
         IN  /\ LooseClip(cut) /\ cut.track = t[e.id].track
             /\ cut.start \in Nat /\ ClipEnd(cut) \in Nat
             /\ t[e.id].start <= cut.start /\ cut.start < ClipEnd(cut)
             /\ e.edge = "start" => cut.start = n /\ ClipEnd(cut) = ClipEnd(t[e.id])
             /\ e.edge # "start" => cut.start = t[e.id].start /\ ClipEnd(cut) = n
<1> DEFINE c == t[e.id]
<1>1. /\ c.start \in Nat /\ c.duration \in Nat /\ c.offset \in Nat /\ c.source \in Nat
      /\ ClipEnd(c) = c.start + c.duration /\ c.source <= MaxTick
  <2>1. e.id \in DOMAIN t
    BY SoundIsLoose, TrimFacts
  <2>2. QED
    BY <2>1, ClipFields
<1>2. Frame \in Nat \ {0} /\ e.edge \in {"start", "end"} /\ LooseClip(c)
  BY SoundIsLoose, TrimFacts, TimelineAssumption DEF Loose
<1>3. n \in Nat
  BY RangeIs
<1>4. n \in TrimRange(c, e.edge)
  OBVIOUS
<1> HIDE DEF c
<1>5. CASE e.edge = "start"
  <2> DEFINE cut == Cut(c, "start", n)
  <2>1. c.start <= n /\ n < ClipEnd(c)
    BY <1>1, <1>2, <1>3, <1>4, <1>5 DEF TrimRange
  <2>2. LooseClip(cut) /\ cut.start = n /\ cut.track = c.track /\ ClipEnd(cut) = ClipEnd(c)
    BY <1>1, <1>2, <1>3, <2>1, StartCut
  <2>3. Cut(t[e.id], e.edge, n) = cut
    BY <1>5 DEF c
  <2> HIDE DEF cut
  <2>4. QED
    BY <1>1, <1>3, <1>5, <2>1, <2>2, <2>3 DEF c
<1>6. CASE e.edge = "end"
  <2> DEFINE cut == Cut(c, "end", n)
  <2>1. c.start < n /\ n <= c.start + c.source - c.offset
    BY <1>1, <1>2, <1>3, <1>4, <1>6 DEF TrimRange
  <2>2. LooseClip(cut) /\ cut.start = c.start /\ cut.track = c.track /\ ClipEnd(cut) = n
    BY <1>1, <1>2, <1>3, <2>1, EndCut
  <2>3. Cut(t[e.id], e.edge, n) = cut /\ e.edge # "start"
    BY <1>6 DEF c
  <2> HIDE DEF cut
  <2>4. QED
    BY <1>1, <1>3, <2>1, <2>2, <2>3 DEF c
<1>7. QED
  BY <1>2, <1>5, <1>6

\* What a trim makes of a timeline: with ripple, what follows on the track moves as
\* far as the end of the clip.
LEMMA TrimmedIs ==
  ASSUME NEW t, Sound(t), NEW e \in Trims(t), NEW o \in ClipTrimmed(t, e)
  PROVE  /\ Loose(o.timeline) /\ DOMAIN o.timeline = DOMAIN t /\ e.id \in DOMAIN t
         /\ o.timeline[e.id].track = t[e.id].track
         /\ o.timeline[e.id].start \in Nat /\ ClipEnd(o.timeline[e.id]) \in Nat
         /\ t[e.id].start <= o.timeline[e.id].start
         /\ o.timeline[e.id].start < ClipEnd(o.timeline[e.id])
         /\ \A x \in o.snapped : x \in {o.timeline[e.id].start, ClipEnd(o.timeline[e.id])}
         /\ \A i \in DOMAIN t \ {e.id} :
              /\ o.timeline[i].track = t[i].track /\ o.timeline[i].duration = t[i].duration
              /\ o.timeline[i].start =
                   IF e.ripple /\ t[i].track = t[e.id].track /\ t[i].start >= ClipEnd(t[e.id])
                   THEN t[i].start + ClipEnd(o.timeline[e.id]) - ClipEnd(t[e.id]) ELSE t[i].start
<1> DEFINE c == t[e.id]
           R == TrimRange(c, e.edge)
           s == Snapped(t, e, R)
           cut == Cut(c, e.edge, s.to)
           shift == IF e.ripple THEN ClipEnd(cut) - ClipEnd(c) ELSE 0
           u == [i \in DOMAIN t |->
                   IF i = e.id THEN cut
                   ELSE IF t[i].track = c.track /\ Follows(t[i], ClipEnd(c))
                        THEN [t[i] EXCEPT !.start = NotBefore(0, @ + shift)] ELSE t[i]]
<1>1. Loose(t) /\ e.id \in DOMAIN t
  BY SoundIsLoose, TrimFacts
<1>2. R # {} /\ o = Outcome(u, s.snapped)
  BY DEF ClipTrimmed
<1>3. o.timeline = u /\ o.snapped = s.snapped
  <2> HIDE DEF u, s
  <2>1. QED
    BY <1>2 DEF Outcome
<1>4. s.to \in R /\ \A x \in s.snapped : x = s.to
  <2>1. R \in SUBSET Nat /\ (\A m \in R : m <= c.start + c.source) /\ c.start + c.source \in Nat
    BY <1>1, RangeIs, ClipFields
  <2> HIDE DEF R, c
  <2>2. QED
    BY <1>1, <1>2, <2>1, SnappedIs
<1>5. /\ LooseClip(cut) /\ cut.track = c.track
      /\ cut.start \in Nat /\ ClipEnd(cut) \in Nat
      /\ c.start <= cut.start /\ cut.start < ClipEnd(cut)
      /\ e.edge = "start" => cut.start = s.to /\ ClipEnd(cut) = ClipEnd(c)
      /\ e.edge # "start" => cut.start = c.start /\ ClipEnd(cut) = s.to
  <2> DEFINE n == s.to
  <2>1. n \in TrimRange(t[e.id], e.edge)
    BY <1>4
  <2> HIDE DEF n
  <2>2. /\ LooseClip(Cut(t[e.id], e.edge, n)) /\ Cut(t[e.id], e.edge, n).track = t[e.id].track
        /\ Cut(t[e.id], e.edge, n).start \in Nat /\ ClipEnd(Cut(t[e.id], e.edge, n)) \in Nat
        /\ t[e.id].start <= Cut(t[e.id], e.edge, n).start
        /\ Cut(t[e.id], e.edge, n).start < ClipEnd(Cut(t[e.id], e.edge, n))
        /\ e.edge = "start" => /\ Cut(t[e.id], e.edge, n).start = n
                               /\ ClipEnd(Cut(t[e.id], e.edge, n)) = ClipEnd(t[e.id])
        /\ e.edge # "start" => /\ Cut(t[e.id], e.edge, n).start = t[e.id].start
                               /\ ClipEnd(Cut(t[e.id], e.edge, n)) = n
    BY <2>1, CutIs
  <2>3. QED
    BY <2>2 DEF n
<1>6. \A x \in s.snapped : x \in {cut.start, ClipEnd(cut)}
  <2> HIDE DEF s, cut
  <2>1. QED
    BY <1>4, <1>5
<1>7. DOMAIN u = DOMAIN t /\ u = [i \in DOMAIN u |-> u[i]] /\ u[e.id] = cut
  <2> HIDE DEF cut, shift
  <2>1. QED
    BY <1>1
<1>8. c \in LooseClips /\ c.start \in Nat /\ ClipEnd(c) \in Nat
  BY <1>1, LooseFields
<1>9. ASSUME NEW i \in DOMAIN t \ {e.id}
      PROVE  /\ LooseClip(u[i]) /\ u[i].track = t[i].track /\ u[i].duration = t[i].duration
             /\ u[i].start = IF e.ripple /\ t[i].track = c.track /\ t[i].start >= ClipEnd(c)
                             THEN t[i].start + ClipEnd(cut) - ClipEnd(c) ELSE t[i].start
  <2>1. LooseClip(t[i]) /\ t[i] \in LooseClips /\ t[i].start \in Nat
    BY <1>1, LooseFields DEF Loose
  <2>2. CASE t[i].track = c.track /\ t[i].start >= ClipEnd(c)
    <3> DEFINE n == t[i].start + shift
               d == [t[i] EXCEPT !.start = n]
    <3>1. n \in Nat
      <4> HIDE DEF c, cut
      <4>1. CASE e.ripple
        BY <1>5, <1>8, <2>1, <2>2, <4>1
      <4>2. CASE ~e.ripple
        BY <2>1, <4>2
      <4>3. QED
        BY <4>1, <4>2
    <3>2. u[i] = [t[i] EXCEPT !.start = NotBefore(0, @ + shift)]
      <4> HIDE DEF c, cut, shift
      <4>1. QED
        BY <2>2, Zenon DEF Follows
    <3>3. [t[i] EXCEPT !.start = NotBefore(0, @ + shift)] = [t[i] EXCEPT !.start = NotBefore(0, n)]
      <4> HIDE DEF shift
      <4>1. QED
        BY <2>1, Zenon DEF LooseClips
    <3>4. NotBefore(0, n) = n
      <4> HIDE DEF n
      <4>1. QED
        BY <3>1 DEF NotBefore
    <3>5. u[i] = d
      <4> HIDE DEF n, u, shift
      <4>1. QED
        BY <3>2, <3>3, <3>4
    <3>6. LooseClip(d) /\ d.start = n /\ d.track = t[i].track /\ d.duration = t[i].duration
      <4> HIDE DEF n
      <4>1. QED
        BY <2>1, <3>1, ShiftedClip
    <3> HIDE DEF d, u
    <3>7. n = IF e.ripple THEN t[i].start + ClipEnd(cut) - ClipEnd(c) ELSE t[i].start
      <4> HIDE DEF cut, c
      <4>1. QED
        BY <1>5, <1>8, <2>1
    <3>8. QED
      <4> HIDE DEF n, cut, c
      <4>1. QED
        BY <2>2, <3>5, <3>6, <3>7
  <2>3. CASE ~(t[i].track = c.track /\ t[i].start >= ClipEnd(c))
    <3>1. u[i] = t[i]
      <4> HIDE DEF c, cut, shift
      <4>1. QED
        BY <2>3, Zenon DEF Follows
    <3> HIDE DEF u, cut, c
    <3>2. QED
      BY <2>1, <2>3, <3>1
  <2>4. QED
    BY <2>2, <2>3
<1>10. Loose(u)
  <2> HIDE DEF u, cut
  <2>1. \A i \in DOMAIN u : LooseClip(u[i])
    BY <1>5, <1>7, <1>9
  <2>2. QED
    BY <1>1, <1>7, <2>1 DEF Loose
<1>11. u[e.id].track = c.track /\ c.start <= u[e.id].start
  <2> HIDE DEF u, cut
  <2>1. QED
    BY <1>5, <1>7
<1> HIDE DEF u, cut, s
<1>12. QED
  BY <1>1, <1>3, <1>5, <1>6, <1>7, <1>9, <1>10, <1>11

-----------------------------------------------------------------------------
(* Splits, deletions and insertions *)

\* Both parts of a clip that is split within it are clips.
LEMMA PartsAreLoose ==
  ASSUME NEW t, Sound(t), NEW at \in Nat, NEW i \in Inside(t, at)
  PROVE  LooseClip(Cut(t[i], "end", at)) /\ LooseClip(Cut(t[i], "start", at))
<1>1. i \in DOMAIN t /\ t[i].start < at /\ at < ClipEnd(t[i])
  BY DEF Inside
<1>2. /\ t[i].start \in Nat /\ t[i].duration \in Nat /\ t[i].offset \in Nat /\ t[i].source \in Nat
      /\ t[i].offset + t[i].duration <= t[i].source /\ ClipEnd(t[i]) = t[i].start + t[i].duration
      /\ t[i].source <= MaxTick
  BY <1>1, ClipFields
<1>3. LooseClip(t[i])
  BY <1>1, SoundIsLoose DEF Loose
<1>4. t[i].start <= at /\ at <= t[i].start + t[i].source - t[i].offset
  BY <1>1, <1>2
<1>5. LooseClip(Cut(t[i], "end", at))
  BY <1>1, <1>2, <1>3, <1>4, EndCut
<1>6. LooseClip(Cut(t[i], "start", at))
  BY <1>1, <1>2, <1>3, <1>4, StartCut
<1>7. QED
  BY <1>5, <1>6

\* A split yields clips, the right parts under ids that were free.
LEMMA SplitIs ==
  ASSUME NEW t, Sound(t), NEW e \in Splits(t),
         DOMAIN e.right \subseteq Inside(t, e.at), NEW o \in Split(t, e)
  PROVE  Loose(o.timeline)
<1> DEFINE D == DOMAIN e.right
           N == {e.right[i] : i \in D}
           inverse == [n \in N |-> CHOOSE i \in D : e.right[i] = n]
           left == [i \in D |-> Cut(t[i], "end", e.at)]
           right == [n \in N |-> Cut(t[inverse[n]], "start", e.at)]
<1>1. e.at \in Nat /\ \A i \in D : e.right[i] \in Free(t)
  <2>1. PICK at \in 0..Duration(t), is \in Selections(t) :
          e \in {[at |-> at, right |-> f] :
                  f \in {g \in [is -> Free(t)] : \A i, j \in is : g[i] = g[j] => i = j}}
    BY DEF Splits
  <2>2. PICK f \in [is -> Free(t)] : e = [at |-> at, right |-> f]
    BY <2>1
  <2>3. at \in Nat
    BY SoundIsLoose, DurationCovers
  <2>4. e.at = at /\ e.right = f
    BY <2>2
  <2>5. QED
    BY <2>3, <2>4
<1>2. o.timeline = With(With(t, left), right)
  BY DEF Split, Outcome
<1>3. Loose(t) /\ D \subseteq DOMAIN t
  BY SoundIsLoose DEF Inside
<1>4. \A i \in D : LooseClip(Cut(t[i], "end", e.at)) /\ LooseClip(Cut(t[i], "start", e.at))
  BY <1>1, PartsAreLoose
<1>5. Loose(left)
  BY <1>3, <1>4 DEF Loose
<1>6. \A n \in N : inverse[n] \in D
  OBVIOUS
<1>7. N \subseteq Ids
  BY <1>1 DEF Free
<1>8. Loose(right)
  <2> HIDE DEF N, inverse, D
  <2>1. QED
    BY <1>4, <1>6, <1>7 DEF Loose
<1>9. QED
  <2> HIDE DEF left, right
  <2>1. Loose(With(t, left))
    BY <1>3, <1>5, WithLoose
  <2> DEFINE u == With(t, left)
  <2> HIDE DEF u
  <2>2. Loose(With(u, right))
    BY <1>8, <2>1, WithLoose DEF u
  <2>3. QED
    BY <1>2, <2>2 DEF u

\* What a deletion leaves: with ripple, the others where the gaps are closed.
LEMMA DeletedIs ==
  ASSUME NEW t, Sound(t), NEW e \in Deletions(t), NEW o \in Deleted(t, e)
  PROVE  /\ Loose(o.timeline) /\ DOMAIN o.timeline = DOMAIN t \ e.ids /\ e.ids \in SUBSET (DOMAIN t)
         /\ e.ripple => \A i \in DOMAIN t \ e.ids : o.timeline[i] = GapsClosed(t, e.ids)[i]
<1> DEFINE r == IF e.ripple THEN GapsClosed(t, e.ids) ELSE t
<1>1. e.ids \in SUBSET (DOMAIN t)
  BY DEF Deletions, Selections
<1>2. Loose(r) /\ DOMAIN r = DOMAIN t
  BY <1>1, SoundIsLoose, GapsClosedIs
<1>3. o.timeline = Removed(r, e.ids)
  BY DEF Deleted, Outcome
<1>4. e.ripple => r = GapsClosed(t, e.ids)
  OBVIOUS
<1> HIDE DEF r
<1>5. DOMAIN o.timeline = DOMAIN t \ e.ids /\ \A i \in DOMAIN t \ e.ids : o.timeline[i] = r[i]
  BY <1>2, <1>3 DEF Removed
<1>6. o.timeline = [i \in DOMAIN o.timeline |-> o.timeline[i]]
  BY <1>3 DEF Removed
<1>7. Loose(o.timeline)
  BY <1>2, <1>5, <1>6 DEF Loose
<1>8. QED
  BY <1>1, <1>4, <1>5, <1>7

\* An import puts a clip behind the others, on a track for its kind.
LEMMA InsertKeeps ==
  ASSUME TimelineInv, NEW i \in Ids, NEW s \in Sources, NEW k \in Tracks, Insert(i, s, k)
  PROVE  TimelineInv'
<1> DEFINE c == [track |-> k, start |-> Duration(timeline), duration |-> s.duration, offset |-> 0,
                 source |-> s.duration, audio |-> s.audio]
           p == [n \in {i} |-> c]
           os == {Outcome(With(timeline, p), {})}
<1>1. Accepts(k, c) /\ Do(os)
  BY DEF Insert
<1>2. Loose(timeline)
  BY SoundIsLoose DEF TimelineInv
<1>3. s.duration \in Nat \ {0} /\ s.audio \in BOOLEAN /\ Duration(timeline) \in Nat
  BY <1>2, DurationCovers, TimelineAssumption
<1>4. LooseClip(c)
  <2>1. c \in LooseClips
    BY <1>3 DEF LooseClips
  <2>2. c.duration = s.duration /\ c.offset = 0 /\ c.source = s.duration /\ c.track = k
    OBVIOUS
  <2> HIDE DEF c
  <2>3. QED
    BY <1>1, <1>3, <2>1, <2>2 DEF LooseClip, Playable
<1>5. Loose(p)
  <2> HIDE DEF c
  <2>1. QED
    BY <1>4 DEF Loose
<1>6. \A o \in os : Loose(o.timeline)
  <2> HIDE DEF p
  <2>1. Loose(With(timeline, p))
    BY <1>2, <1>5, WithLoose
  <2>2. QED
    BY <2>1 DEF Outcome
<1> HIDE DEF os
<1>7. QED
  BY <1>1, <1>6, DoKeeps

-----------------------------------------------------------------------------
(* Ripple *)

\* A tick of a clip.
LEMMA TickOfClip ==
  ASSUME NEW t, Sound(t), NEW is \in SUBSET (DOMAIN t), NEW c \in ClipTicks(t, is)
  PROVE  /\ c[1] \in is /\ c[2] \in Nat /\ 1 <= c[2] /\ c[2] <= t[c[1]].duration /\ c = <<c[1], c[2]>>
<1>1. PICK i \in is : c \in {i} \X (1..t[i].duration)
  BY DEF ClipTicks
<1>2. t[i].duration \in Nat
  BY ClipFields
<1>3. QED
  BY <1>1, <1>2

\* Clips that do not overlap last together no longer than the time they lie in.
LEMMA PackedDuration ==
  ASSUME NEW t, Sound(t), NEW is \in SUBSET (DOMAIN t),
         NEW a \in Nat, NEW b \in Nat, a <= b,
         \A i \in is : a <= t[i].start /\ ClipEnd(t[i]) <= b,
         \A i, j \in is : i # j => ClipEnd(t[i]) <= t[j].start \/ ClipEnd(t[j]) <= t[i].start
  PROVE  DurationOf(t, is) <= b - a
<1> DEFINE C == ClipTicks(t, is)
           I == (a + 1)..b
           f == [c \in C |-> t[c[1]].start + c[2]]
<1>1. \A c \in C : c[1] \in is /\ c[2] \in Nat /\ 1 <= c[2] /\ c[2] <= t[c[1]].duration /\ c = <<c[1], c[2]>>
  BY TickOfClip
<1>2. \A i \in is : /\ t[i].start \in Nat /\ t[i].duration \in Nat
                    /\ ClipEnd(t[i]) = t[i].start + t[i].duration
  BY ClipFields
<1>3. \A c \in C : f[c] \in I
  <2>1. TAKE c \in C
  <2>2. f[c] = t[c[1]].start + c[2]
    OBVIOUS
  <2>3. a <= t[c[1]].start /\ ClipEnd(t[c[1]]) <= b
    BY <1>1
  <2> HIDE DEF f
  <2>4. QED
    BY <1>1, <1>2, <2>2, <2>3
<1>4. ASSUME NEW c \in C, NEW d \in C, f[c] = f[d] PROVE c = d
  <2>1. t[c[1]].start + c[2] = t[d[1]].start + d[2]
    BY <1>4
  <2>2. c[1] = d[1]
    <3>1. SUFFICES ASSUME c[1] # d[1] PROVE FALSE
      OBVIOUS
    <3>2. c[1] \in is /\ d[1] \in is
      BY <1>1
    <3>3. ClipEnd(t[c[1]]) <= t[d[1]].start \/ ClipEnd(t[d[1]]) <= t[c[1]].start
      BY <3>1, <3>2
    <3> HIDE DEF f, C
    <3>4. QED
      BY <1>1, <1>2, <2>1, <3>2, <3>3
  <2>3. c[2] = d[2]
    <3> HIDE DEF f, C
    <3>1. QED
      BY <1>1, <1>2, <2>1, <2>2
  <2>4. QED
    BY <1>1, <2>2, <2>3
<1>5. f \in Injection(C, I)
  <2>1. f \in [C -> I]
    BY <1>3
  <2> HIDE DEF f, C, I
  <2>2. QED
    BY <1>4, <2>1 DEF Injection, IsInjective
<1>6. IsFiniteSet(I) /\ Cardinality(I) = b - a
  <2>1. a + 1 \in Int /\ b \in Int /\ (a + 1 > b => b - a = 0) /\ b - (a + 1) + 1 = b - a
    OBVIOUS
  <2> DEFINE l == a + 1
  <2>2. IsFiniteSet(l..b) /\ Cardinality(l..b) = IF l > b THEN 0 ELSE b - l + 1
    <3> HIDE DEF l
    <3>1. QED
      BY <2>1, FS_Interval DEF l
  <2>3. QED
    BY <2>1, <2>2
<1>7. Cardinality(C) <= Cardinality(I)
  <2> HIDE DEF f, C, I
  <2>1. QED
    BY <1>5, <1>6, FS_Injection
<1>8. QED
  BY <1>6, <1>7, TicksAreFinite

\* Durations add up.
LEMMA DurationsAdd ==
  ASSUME NEW t, Sound(t), NEW is \in SUBSET (DOMAIN t), NEW js \in SUBSET is
  PROVE  DurationOf(t, is) = DurationOf(t, js) + DurationOf(t, is \ js)
<1> DEFINE A == ClipTicks(t, js)
           B == ClipTicks(t, is \ js)
<1>1. ClipTicks(t, is) = A \cup B
  BY DEF ClipTicks
<1>2. A \cap B = {}
  <2>1. \A c \in A : c[1] \in js
    BY TickOfClip
  <2>2. \A c \in B : c[1] \in is \ js
    BY TickOfClip
  <2>3. QED
    BY <2>1, <2>2
<1>3. IsFiniteSet(A) /\ DurationOf(t, js) = Cardinality(A) /\ DurationOf(t, js) \in Nat
  BY TicksAreFinite
<1>4. IsFiniteSet(B) /\ DurationOf(t, is \ js) = Cardinality(B) /\ DurationOf(t, is \ js) \in Nat
  BY TicksAreFinite
<1>5. DurationOf(t, is) = Cardinality(A \cup B)
  BY <1>1, TicksAreFinite
<1> HIDE DEF A, B
<1>6. Cardinality(A \cup B) = Cardinality(A) + Cardinality(B)
  <2>1. Cardinality(A \cup B) = Cardinality(A) + Cardinality(B) - Cardinality(A \cap B)
    BY <1>3, <1>4, FS_Union
  <2>2. Cardinality(A \cap B) = 0
    BY <1>2, FS_EmptySet
  <2>3. QED
    BY <1>3, <1>4, <2>1, <2>2
<1>7. QED
  BY <1>3, <1>4, <1>5, <1>6

\* Of two clips that stay, the later one stays behind the other: what is taken away
\* between them fits between them.
LEMMA GapsKeepOrder ==
  ASSUME NEW t, Sound(t), Clear(t), NEW sel \in SUBSET (DOMAIN t),
         NEW i \in DOMAIN t \ sel, NEW j \in DOMAIN t \ sel, i # j, t[i].track = t[j].track,
         ClipEnd(t[i]) <= t[j].start
  PROVE  ClipEnd(GapsClosed(t, sel)[i]) <= GapsClosed(t, sel)[j].start
<1> DEFINE G == Gone(t, sel, i)
           H == Gone(t, sel, j)
           g == GapsClosed(t, sel)
<1>1. /\ t[i].start \in Nat /\ t[i].duration \in Nat /\ ClipEnd(t[i]) = t[i].start + t[i].duration
      /\ t[j].start \in Nat /\ ClipEnd(t[i]) \in Nat
  BY ClipFields
<1>2. G \in SUBSET H /\ H \in SUBSET (DOMAIN t) /\ G \in SUBSET (DOMAIN t)
  <2>1. ASSUME NEW k \in G PROVE k \in H
    <3>1. ClipEnd(t[k]) <= t[i].start /\ k \in sel /\ t[k].track = t[i].track /\ ClipEnd(t[k]) \in Nat
      BY ClipFields DEF Gone
    <3>2. QED
      BY <1>1, <3>1 DEF Gone
  <2>2. QED
    BY <2>1 DEF Gone
<1>3. \A k, l \in H : k # l => ClipEnd(t[k]) <= t[l].start \/ ClipEnd(t[l]) <= t[k].start
  BY DEF Gone, Clear
<1>4. DurationOf(t, G) <= t[i].start
  <2>1. \A k \in G : 0 <= t[k].start /\ ClipEnd(t[k]) <= t[i].start
    BY ClipFields DEF Gone
  <2>2. \A k, l \in G : k # l => ClipEnd(t[k]) <= t[l].start \/ ClipEnd(t[l]) <= t[k].start
    BY <1>2, <1>3
  <2> HIDE DEF G
  <2>3. DurationOf(t, G) <= t[i].start - 0
    BY <1>1, <1>2, <2>1, <2>2, PackedDuration
  <2>4. QED
    BY <1>1, <2>3
<1>5. DurationOf(t, H \ G) <= t[j].start - ClipEnd(t[i])
  <2>1. ASSUME NEW k \in H \ G PROVE ClipEnd(t[i]) <= t[k].start /\ ClipEnd(t[k]) <= t[j].start
    <3>1. /\ k \in sel /\ k \in DOMAIN t /\ k # i /\ t[k].track = t[i].track /\ ClipEnd(t[k]) <= t[j].start
          /\ ~(ClipEnd(t[k]) <= t[i].start)
      BY DEF Gone
    <3>2. ClipEnd(t[i]) <= t[k].start \/ ClipEnd(t[k]) <= t[i].start
      BY <3>1 DEF Clear
    <3>3. QED
      BY <3>1, <3>2
  <2>2. \A k, l \in H \ G : k # l => ClipEnd(t[k]) <= t[l].start \/ ClipEnd(t[l]) <= t[k].start
    BY <1>3
  <2> DEFINE K == H \ G
  <2>3. K \in SUBSET (DOMAIN t)
    BY <1>2
  <2> HIDE DEF K, G, H
  <2>4. DurationOf(t, K) <= t[j].start - ClipEnd(t[i])
    BY <1>1, <2>1, <2>2, <2>3, PackedDuration DEF K
  <2>5. QED
    BY <2>4 DEF K
<1>6. DurationOf(t, H) = DurationOf(t, G) + DurationOf(t, H \ G)
  <2> HIDE DEF G, H
  <2>1. QED
    BY <1>2, DurationsAdd
<1>7. DurationOf(t, G) \in Nat /\ DurationOf(t, H) \in Nat /\ DurationOf(t, H \ G) \in Nat
  <2>1. H \ G \in SUBSET (DOMAIN t)
    BY <1>2
  <2> HIDE DEF G, H
  <2>2. QED
    BY <1>2, <2>1, TicksAreFinite
<1>8. /\ g[i].start = NotBefore(0, t[i].start - DurationOf(t, G)) /\ g[i].duration = t[i].duration
      /\ g[j].start = NotBefore(0, t[j].start - DurationOf(t, H))
  BY GapsClosedIs
<1>9. ClipEnd(g[i]) = g[i].start + g[i].duration
  BY DEF ClipEnd
<1> HIDE DEF G, H, g
<1>10. ClipEnd(g[i]) <= g[j].start
  BY <1>1, <1>4, <1>5, <1>6, <1>7, <1>8, <1>9 DEF NotBefore
<1>11. QED
  BY <1>10 DEF g

\* A ripple deletion keeps clips apart.
LEMMA DeletionKeepsClear ==
  ASSUME NEW t, Sound(t), Clear(t), NEW e \in Deletions(t), e.ripple,
         NEW o \in Deleted(t, e)
  PROVE  Clear(o.timeline)
<1> DEFINE g == GapsClosed(t, e.ids)
           u == o.timeline
<1>1. /\ e.ids \in SUBSET (DOMAIN t) /\ DOMAIN u = DOMAIN t \ e.ids
      /\ \A i \in DOMAIN t \ e.ids : u[i] = g[i]
  BY DeletedIs
<1>2. \A i \in DOMAIN t \ e.ids : g[i].track = t[i].track
  BY <1>1, GapsClosedIs
<1>3. ASSUME NEW i \in DOMAIN u, NEW j \in DOMAIN u, i # j, u[i].track = u[j].track,
             ClipEnd(t[i]) <= t[j].start
      PROVE  ClipEnd(u[i]) <= u[j].start
  <2>1. i \in DOMAIN t \ e.ids /\ j \in DOMAIN t \ e.ids /\ t[i].track = t[j].track
    BY <1>1, <1>2, <1>3
  <2>2. ClipEnd(g[i]) <= g[j].start
    BY <1>1, <1>3, <2>1, GapsKeepOrder
  <2>3. QED
    BY <1>1, <2>1, <2>2
<1>4. ASSUME NEW i \in DOMAIN u, NEW j \in DOMAIN u, i # j, u[i].track = u[j].track
      PROVE  ClipEnd(t[i]) <= t[j].start \/ ClipEnd(t[j]) <= t[i].start
  BY <1>1, <1>2, <1>4 DEF Clear
<1> HIDE DEF u
<1>5. Clear(u)
  BY <1>3, <1>4 DEF Clear
<1>6. QED
  BY <1>5 DEF u

\* A ripple trim keeps clips apart.
LEMMA TrimKeepsClear ==
  ASSUME NEW t, Sound(t), Clear(t), NEW e \in Trims(t), e.ripple,
         NEW o \in ClipTrimmed(t, e)
  PROVE  Clear(o.timeline)
<1> DEFINE u == o.timeline
           d == e.id
<1>1. /\ DOMAIN u = DOMAIN t /\ d \in DOMAIN t /\ Loose(u) /\ Loose(t)
      /\ u[d].track = t[d].track /\ u[d].start \in Nat /\ ClipEnd(u[d]) \in Nat
      /\ t[d].start <= u[d].start /\ u[d].start < ClipEnd(u[d])
  BY TrimmedIs, SoundIsLoose
<1>2. \A i \in DOMAIN t \ {d} :
        /\ u[i].track = t[i].track /\ u[i].duration = t[i].duration
        /\ u[i].start = IF t[i].track = t[d].track /\ t[i].start >= ClipEnd(t[d])
                        THEN t[i].start + ClipEnd(u[d]) - ClipEnd(t[d]) ELSE t[i].start
  BY TrimmedIs
<1>3. \A i \in DOMAIN t : /\ t[i].start \in Nat /\ ClipEnd(t[i]) \in Nat /\ t[i].duration \in Nat
                          /\ t[i].start < ClipEnd(t[i]) /\ ClipEnd(t[i]) = t[i].start + t[i].duration
  <2>1. TAKE i \in DOMAIN t
  <2>2. /\ t[i].start \in Nat /\ t[i].duration \in Nat /\ t[i].duration > 0 /\ ClipEnd(t[i]) \in Nat
        /\ ClipEnd(t[i]) = t[i].start + t[i].duration
    BY ClipFields
  <2>3. QED
    BY <2>2
<1>4. \A i \in DOMAIN t : u[i].start \in Nat /\ ClipEnd(u[i]) = u[i].start + u[i].duration
  <2> HIDE DEF u
  <2>1. QED
    BY <1>1, LooseFields
<1> HIDE DEF u, d
<1>5. ASSUME NEW i \in DOMAIN t, NEW j \in DOMAIN t, i # j, t[i].track = t[j].track,
             ClipEnd(t[i]) <= t[j].start
      PROVE  ClipEnd(u[i]) <= u[j].start
  <2>1. CASE i = d
    <3>1. t[j].start >= ClipEnd(t[d])
      BY <1>1, <1>3, <1>5, <2>1
    <3>2. u[j].start = t[j].start + ClipEnd(u[d]) - ClipEnd(t[d])
      BY <1>2, <1>5, <2>1, <3>1
    <3>3. QED
      BY <1>1, <1>3, <2>1, <3>1, <3>2
  <2>2. CASE j = d
    <3>1. ~(t[i].start >= ClipEnd(t[d]))
      BY <1>1, <1>3, <1>5, <2>2
    <3>2. u[i].start = t[i].start /\ u[i].duration = t[i].duration
      BY <1>2, <1>5, <2>2, <3>1
    <3>3. ClipEnd(u[i]) = ClipEnd(t[i])
      BY <1>3, <1>4, <3>2
    <3>4. QED
      BY <1>1, <1>3, <1>5, <2>2, <3>3
  <2>3. CASE i # d /\ j # d
    <3>1. /\ u[i].duration = t[i].duration /\ ClipEnd(u[i]) = u[i].start + t[i].duration
          /\ u[i].start = IF t[i].track = t[d].track /\ t[i].start >= ClipEnd(t[d])
                          THEN t[i].start + ClipEnd(u[d]) - ClipEnd(t[d]) ELSE t[i].start
          /\ u[j].start = IF t[j].track = t[d].track /\ t[j].start >= ClipEnd(t[d])
                          THEN t[j].start + ClipEnd(u[d]) - ClipEnd(t[d]) ELSE t[j].start
      BY <1>2, <1>4, <2>3
    <3>2. CASE t[i].track # t[d].track
      BY <1>3, <1>5, <3>1, <3>2
    <3>3. CASE t[i].track = t[d].track /\ t[i].start >= ClipEnd(t[d])
      <4>1. t[j].start >= ClipEnd(t[d])
        BY <1>1, <1>3, <1>5, <3>3
      <4>2. QED
        BY <1>1, <1>3, <1>5, <3>1, <3>3, <4>1
    <3>4. CASE t[i].track = t[d].track /\ ~(t[i].start >= ClipEnd(t[d]))
      <4>1. ClipEnd(t[i]) <= t[d].start
        BY <1>1, <1>3, <2>3, <3>4 DEF Clear
      <4>2. ClipEnd(u[i]) = ClipEnd(t[i])
        BY <1>3, <3>1, <3>4
      <4>3. \/ u[j].start = t[j].start
            \/ /\ u[j].start = t[j].start + ClipEnd(u[d]) - ClipEnd(t[d])
               /\ t[j].start >= ClipEnd(t[d])
        BY <3>1
      <4>4. QED
        BY <1>1, <1>3, <1>5, <4>1, <4>2, <4>3
    <3>5. QED
      BY <3>2, <3>3, <3>4
  <2>4. QED
    BY <2>1, <2>2, <2>3
<1>6. \A i \in DOMAIN t : u[i].track = t[i].track
  BY <1>1, <1>2
<1>7. Clear(u)
  BY <1>1, <1>5, <1>6 DEF Clear
<1>8. QED
  BY <1>7 DEF u

-----------------------------------------------------------------------------
(* The preview *)

\* A move changes nothing exactly when it goes nowhere.
LEMMA MoveOfNothing ==
  ASSUME NEW t, Sound(t), NEW e \in Moves(t), Allowed(t, e)
  PROVE  With(t, Placed(t, e, MoveDelta(t, e).delta)) = t
         <=> MoveDelta(t, e).delta = 0 /\ \A i \in e.ids : t[i].track = Destination(t, e)
<1> DEFINE n == MoveDelta(t, e).delta
           p == Placed(t, e, n)
<1>1. Loose(t) /\ e.ids \in SUBSET (DOMAIN t) /\ e.ids # {}
  BY SoundIsLoose, MoveFacts
<1>2. n \in Int /\ FirstStart(t, e.ids) + n >= 0
  BY <1>1, MoveDeltaIs
<1>3. \A i \in e.ids : t[i].start \in Nat /\ t[i] \in LooseClips
  BY <1>1, LooseFields
<1>4. /\ DOMAIN p = e.ids /\ Loose(p)
      /\ \A i \in e.ids : p[i].start = t[i].start + n /\ p[i].track = Destination(t, e)
  <2> HIDE DEF n
  <2>1. QED
    BY <1>1, <1>2, PlacedIs
<1>5. ASSUME With(t, p) = t PROVE n = 0 /\ \A i \in e.ids : t[i].track = Destination(t, e)
  <2> HIDE DEF n, p
  <2>1. \A i \in e.ids : p[i] = t[i]
    BY <1>1, <1>4, <1>5 DEF With
  <2>2. PICK i \in e.ids : TRUE
    BY <1>1
  <2>3. n = 0
    BY <1>2, <1>3, <1>4, <2>1, <2>2
  <2>4. QED
    BY <1>4, <2>1, <2>3
<1>6. ASSUME n = 0, \A i \in e.ids : t[i].track = Destination(t, e) PROVE With(t, p) = t
  <2>1. ASSUME NEW i \in e.ids PROVE p[i] = t[i]
    <3> HIDE DEF n
    <3>1. NotBefore(0, t[i].start + n) = t[i].start
      BY <1>3, <1>6 DEF NotBefore
    <3>2. p[i] = [t[i] EXCEPT !.track = Destination(t, e), !.start = NotBefore(0, t[i].start + n)]
      BY <1>3, Zenon DEF Placed, LooseClips
    <3>3. p[i] = [t[i] EXCEPT !.track = t[i].track, !.start = t[i].start]
      BY <1>6, <3>1, <3>2
    <3>4. QED
      BY <1>3, <3>3 DEF LooseClips
  <2> HIDE DEF n, p
  <2>2. With(t, p) = [i \in DOMAIN t |-> t[i]]
    BY <1>1, <1>4, <2>1 DEF With
  <2>3. QED
    BY <1>1, <2>2 DEF Loose
<1>7. QED
  BY <1>5, <1>6

\* The preview of a move is the move.
LEMMA MovesAreShown ==
  ASSUME NEW t, Sound(t), NEW e \in Moves(t), ~e.ripple
  PROVE  {Outcome(With(t, p.placed), p.snapped) : p \in PreviewMove(t, e)}
           = Changing(t, Moved(t, e))
<1> DEFINE d == MoveDelta(t, e)
           placed == Placed(t, e, d.delta)
           still == d.delta = 0 /\ \A i \in e.ids : t[i].track = Destination(t, e)
           o == Outcome(With(t, placed), d.snapped)
<1>1. CASE ~Allowed(t, e)
  BY <1>1 DEF PreviewMove, Moved, Changing
<1>2. CASE Allowed(t, e)
  <2>1. Moved(t, e) = {o}
    BY <1>2 DEF Moved
  <2>2. PreviewMove(t, e) = IF still THEN {} ELSE {[placed |-> placed, snapped |-> d.snapped]}
    BY <1>2 DEF PreviewMove
  <2>3. With(t, placed) = t <=> still
    BY <1>2, MoveOfNothing
  <2>4. o.timeline = With(t, placed)
    BY DEF Outcome
  <2> HIDE DEF d, placed, still
  <2>5. CASE still
    BY <2>1, <2>2, <2>3, <2>4, <2>5 DEF Changing
  <2>6. CASE ~still
    BY <2>1, <2>2, <2>3, <2>4, <2>6 DEF Changing
  <2>7. QED
    BY <2>5, <2>6
<1>3. QED
  BY <1>1, <1>2

\* The preview of a trim is the trim.
LEMMA TrimsAreShown ==
  ASSUME NEW t, Sound(t), NEW e \in Trims(t), ~e.ripple
  PROVE  {Outcome(With(t, p.placed), p.snapped) : p \in PreviewTrim(t, e)}
           = Changing(t, ClipTrimmed(t, e))
<1> DEFINE c == t[e.id]
           R == TrimRange(c, e.edge)
           s == Snapped(t, e, R)
           cut == Cut(c, e.edge, s.to)
           placed == [i \in {e.id} |-> cut]
           u == [i \in DOMAIN t |->
                   IF i = e.id THEN cut
                   ELSE IF t[i].track = c.track /\ Follows(t[i], ClipEnd(c))
                        THEN [t[i] EXCEPT !.start = NotBefore(0, @ + 0)] ELSE t[i]]
<1>1. Loose(t) /\ e.id \in DOMAIN t
  BY SoundIsLoose, TrimFacts
<1>2. PreviewRange(c, e.edge) = R
  BY DEF PreviewRange, TrimRange
<1>3. CASE R = {}
  BY <1>2, <1>3 DEF PreviewTrim, ClipTrimmed, Changing
<1>4. CASE R # {}
  <2>1. ClipTrimmed(t, e) = {Outcome(u, s.snapped)}
    BY <1>4 DEF ClipTrimmed
  <2>2. PreviewTrim(t, e) = IF cut = c THEN {} ELSE {[placed |-> placed, snapped |-> s.snapped]}
    BY <1>2, <1>4 DEF PreviewTrim
  <2>3. ASSUME NEW i \in DOMAIN t PROVE [t[i] EXCEPT !.start = NotBefore(0, @ + 0)] = t[i]
    <3>1. t[i] \in LooseClips /\ t[i].start \in Nat
      BY <1>1, LooseFields
    <3>2. NotBefore(0, t[i].start + 0) = t[i].start
      BY <3>1 DEF NotBefore
    <3>3. [t[i] EXCEPT !.start = NotBefore(0, @ + 0)]
          = [t[i] EXCEPT !.start = NotBefore(0, t[i].start + 0)]
      BY <3>1, Zenon DEF LooseClips
    <3>4. QED
      BY <3>1, <3>2, <3>3 DEF LooseClips
  <2>4. u = With(t, placed)
    <3> HIDE DEF cut, c
    <3>1. u = [i \in DOMAIN t |-> IF i = e.id THEN cut ELSE t[i]]
      BY <2>3
    <3>2. With(t, placed) = [i \in DOMAIN t |-> IF i = e.id THEN cut ELSE t[i]]
      BY <1>1 DEF With
    <3>3. QED
      BY <3>1, <3>2
  <2>5. With(t, placed) = t <=> cut = c
    <3>1. With(t, placed)[e.id] = cut
      <4> HIDE DEF cut
      <4>1. QED
        BY <1>1 DEF With
    <3>2. ASSUME cut = c PROVE With(t, placed) = t
      <4> HIDE DEF cut
      <4>1. With(t, placed) = [i \in DOMAIN t |-> t[i]]
        BY <1>1, <3>2 DEF With
      <4>2. QED
        BY <1>1, <4>1 DEF Loose
    <3>3. QED
      BY <3>1, <3>2
  <2> DEFINE w == With(t, placed)
             o == Outcome(w, s.snapped)
  <2>6. o.timeline = w
    BY DEF Outcome
  <2>7. ClipTrimmed(t, e) = {o}
    BY <2>1, <2>4
  <2>8. {Outcome(With(t, p.placed), p.snapped) : p \in PreviewTrim(t, e)} = IF cut = c THEN {} ELSE {o}
    <3> HIDE DEF placed, s, cut, c, R, u
    <3>1. CASE cut = c
      <4>1. PreviewTrim(t, e) = {}
        BY <2>2, <3>1
      <4>2. QED
        BY <3>1, <4>1
    <3>2. CASE cut # c
      <4> DEFINE q == [placed |-> placed, snapped |-> s.snapped]
      <4>1. PreviewTrim(t, e) = {q}
        BY <2>2, <3>2
      <4>2. q.placed = placed /\ q.snapped = s.snapped
        OBVIOUS
      <4> HIDE DEF q
      <4>3. QED
        BY <3>2, <4>1, <4>2
    <3>3. QED
      BY <3>1, <3>2
  <2> HIDE DEF w, cut, c, s
  <2>9. QED
    BY <2>5, <2>6, <2>7, <2>8 DEF Changing, w
<1>5. QED
  BY <1>3, <1>4

-----------------------------------------------------------------------------
(* The theorems *)

\* What a trim reports as its snap is where an edge of the clip comes to be, and what
\* a move reports is where the group begins or ends.
LEMMA SnapsLand ==
  ASSUME TimelineInv
  PROVE  SnapLands
<1>1. Sound(timeline)
  BY DEF TimelineInv
<1>2. \A e \in Moves(timeline) : \A o \in Moved(timeline, e) : \A x \in o.snapped :
        x \in {FirstStart(o.timeline, e.ids), LastEnd(o.timeline, e.ids)}
  BY <1>1, MoveLands
<1>3. \A e \in Trims(timeline) : \A o \in ClipTrimmed(timeline, e) : \A x \in o.snapped :
        x \in {o.timeline[e.id].start, ClipEnd(o.timeline[e.id])}
  BY <1>1, TrimmedIs
<1>4. QED
  BY <1>2, <1>3 DEF SnapLands

\* Every edit leaves a sound timeline.
LEMMA EditKeeps ==
  ASSUME TimelineInv, [TimelineNext]_timelineVars
  PROVE  TimelineInv'
<1>1. Sound(timeline)
  BY DEF TimelineInv
<1>2. ASSUME NEW i \in Ids, NEW s \in Sources, NEW k \in Tracks, Insert(i, s, k) PROVE TimelineInv'
  BY <1>2, InsertKeeps
<1>3. ASSUME NEW e \in Moves(timeline), MoveClips(e) PROVE TimelineInv'
  <2>1. \A o \in Moved(timeline, e) : Loose(o.timeline)
    BY <1>1, MovedIs
  <2>2. QED
    BY <1>3, <2>1, DoKeeps DEF MoveClips
<1>4. ASSUME NEW e \in Trims(timeline), TrimClip(e) PROVE TimelineInv'
  <2>1. \A o \in ClipTrimmed(timeline, e) : Loose(o.timeline)
    BY <1>1, TrimmedIs
  <2>2. QED
    BY <1>4, <2>1, DoKeeps DEF TrimClip
<1>5. ASSUME NEW e \in Splits(timeline), SplitClips(e) PROVE TimelineInv'
  <2>1. DOMAIN e.right \subseteq Inside(timeline, e.at) /\ Do(Split(timeline, e))
    BY <1>5 DEF SplitClips
  <2>2. \A o \in Split(timeline, e) : Loose(o.timeline)
    BY <1>1, <2>1, SplitIs
  <2>3. QED
    BY <2>1, <2>2, DoKeeps
<1>6. ASSUME NEW e \in Deletions(timeline), DeleteClips(e) PROVE TimelineInv'
  <2>1. \A o \in Deleted(timeline, e) : Loose(o.timeline)
    BY <1>1, DeletedIs
  <2>2. QED
    BY <1>6, <2>1, DoKeeps DEF DeleteClips
<1>7. CASE UNCHANGED timelineVars
  BY <1>7 DEF timelineVars, TimelineInv
<1>8. QED
  BY <1>2, <1>3, <1>4, <1>5, <1>6, <1>7 DEF TimelineNext

\* The timeline is sound throughout.
THEOREM TimelineInvariance == TimelineSpec => []TimelineInv
<1>1. TimelineInit => TimelineInv
  <2>1. SUFFICES ASSUME TimelineInit PROVE TimelineInv
    OBVIOUS
  <2>2. DOMAIN timeline = {} /\ timeline \in [DOMAIN timeline -> Clips] /\ edits = 0
    BY <2>1 DEF TimelineInit
  <2>3. QED
    BY <2>2, TimelineAssumption DEF TimelineInv, Sound
<1>2. TimelineInv /\ [TimelineNext]_timelineVars => TimelineInv'
  BY EditKeeps
<1>3. QED
  BY <1>1, <1>2, PTL DEF TimelineSpec

\* Every clip plays a piece of its source that exists, on a track that can play it,
\* whatever was moved, trimmed, split and deleted, with snapping and ripple.
THEOREM ClipsArePlayable == TimelineSpec => []TimelineTypeOK
<1>1. TimelineInv => TimelineTypeOK
  BY DEF TimelineInv, Sound, Playable, Accepts, TimelineTypeOK
<1>2. QED
  BY <1>1, TimelineInvariance, PTL

\* The faster copy of the rules that draws a drag shows what the edit will do.
THEOREM PreviewIsEdit == TimelineSpec => []PreviewShowsEdit
<1>1. TimelineInv => PreviewShowsEdit
  BY MovesAreShown, TrimsAreShown DEF TimelineInv, PreviewShowsEdit
<1>2. QED
  BY <1>1, TimelineInvariance, PTL

\* A ripple deletion, and a ripple trim, keeps clips that do not overlap apart.
THEOREM RippleIsClear == TimelineSpec => []RippleKeepsClear
<1>1. TimelineInv => RippleKeepsClear
  BY DeletionKeepsClear, TrimKeepsClear DEF TimelineInv, RippleKeepsClear
<1>2. QED
  BY <1>1, TimelineInvariance, PTL

\* The tick a drag reports as its snap is where an edge of what was dragged ends up.
THEOREM SnapsAreEdges == TimelineSpec => []SnapLands
<1>1. TimelineInv => SnapLands
  BY SnapsLand
<1>2. QED
  BY <1>1, TimelineInvariance, PTL
=============================================================================
