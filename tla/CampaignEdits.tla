--------------------------- MODULE CampaignEdits ---------------------------
(***************************************************************************)
(* The edit engine: prepare_command (edit-engine/src/lib.rs) applied to    *)
(* one campaign, with the content rules of the variant, creative and       *)
(* transcript engines.  A command changes the campaign and pushes an entry *)
(* with a forward and an inverse command under its history scope; undo and *)
(* redo take the latest entry of one scope out of the middle of a history  *)
(* shared by all of them.  A command the engine refuses, or finds to       *)
(* change nothing, is not a step.                                          *)
(*                                                                         *)
(* A scene is its name and whether its clip still has the length it came   *)
(* with; a binding holds while it has.  Fingerprints, versions, labels,    *)
(* audit events and the limits on numbers of things are left out.          *)
(***************************************************************************)
EXTENDS Naturals, Sequences, SequencesExt

CONSTANTS
  Scenes, Sets, Profiles, Slots, Locales,
  Values,        \* what a creative set can put into a slot
  Master,        \* the creative set every campaign has
  NoLocale,
  HistoryLimit,  \* HISTORY_LIMIT, 100 in the code
  MaxRevision    \* bound of the model

ASSUME HistoryAssumption == HistoryLimit \in Nat \ {0} /\ MaxRevision \in Nat

VARIABLES
  camp,          \* the campaign's content
  history, redo, \* entries [scope, forward, inverse], oldest first
  revision

vars == <<camp, history, redo, revision>>

Cells == (Sets \cup {Master}) \X Profiles
Lengths == {"whole", "trimmed"}

SceneScope(s) == <<"scene", s>>
MasterScope == <<"sequence", Master>>
SetScope(x) == <<"set", x>>
ProfileScope(p) == <<"profile", p>>
CellScope(c) == <<"cell", c>>

\* f with x mapped to v, and f without the keys in K.
Put(f, x, v) == [y \in DOMAIN f \cup {x} |-> IF y = x THEN v ELSE f[y]]
Without(f, K) == [y \in DOMAIN f \ K |-> f[y]]
Partial(S, T) == UNION {[D -> T] : D \in SUBSET S}

Campaigns ==
  [name : [Scenes -> {"old", "new"}], clip : [Scenes -> Lengths], excluded : SUBSET Scenes,
   profiles : Partial(Profiles, Locales \cup {NoLocale}),
   cells : Partial(Cells, {"inherited", "cropped"}), kit : {"none", "brand"},
   slots : Partial(Slots, {"plain", "styled"}), bindings : Partial(Slots, Scenes),
   sets : Partial(Sets, Partial(Slots, Values)),
   captions : {"none", "heard", "edited"}, locales : SUBSET Locales]

-----------------------------------------------------------------------------
(* What the engines validate. *)

\* The slot exists, the clip it is bound to has the length of the slot's value,
\* and no other slot is bound to that clip.
ValidBinding(c, k) ==
  /\ k \in DOMAIN c.slots /\ c.clip[c.bindings[k]] = "whole"
  /\ \A other \in DOMAIN c.bindings \ {k} : c.bindings[other] # c.bindings[k]

BindingsValid(c) == \A k \in DOMAIN c.bindings : ValidBinding(c, k)

Replaced(c, k) == {x \in DOMAIN c.sets : k \in DOMAIN c.sets[x]}

\* delete_slot refuses a slot that something refers to.
Deletable(c, k) == k \in DOMAIN c.slots \ DOMAIN c.bindings /\ Replaced(c, k) = {}

\* The rows made with a creative set: none, or one for every profile.
NewCells(c, x, full) ==
  IF full THEN {cell \in Cells : cell[1] = x /\ cell[2] \in DOMAIN c.profiles} ELSE {}

ValidCell(c, cell) ==
  cell[2] \in DOMAIN c.profiles /\ cell[1] \in DOMAIN c.sets \cup {Master}

-----------------------------------------------------------------------------
(* Reversible commands: what an entry's forward and inverse hold.  Every   *)
(* snapshot restores the fields it was taken of.                           *)

Fields(c, F) == [f \in F |-> c[f]]
CreativeFields == {"slots", "bindings", "sets", "cells"}
CaptionsOnly == {"captions", "locales"}   \* a snapshot without the profiles
CaptionFields == {"captions", "locales", "profiles"}
MatrixFields == {"profiles", "cells", "kit"}

SnapshotOf(kind) ==
  CASE kind = "ReplaceCreativeState" -> CreativeFields
    [] kind = "ReplaceSlotBindings" -> {"bindings"}
    [] kind = "ReplaceCaptionLocaleState" -> CaptionFields
    [] kind = "ReplaceVariantMatrixState" -> MatrixFields
    [] kind = "ReplaceSceneInclusions" -> {"excluded"}

Snapshot(kind, c) == [kind |-> kind, value |-> Fields(c, SnapshotOf(kind))]

RestoredBundle(c, p, present) ==
  [c EXCEPT !.profiles = IF present THEN Put(@, p, NoLocale) ELSE Without(@, {p}),
            !.cells = IF present THEN Put(@, <<Master, p>>, "inherited")
                                 ELSE Without(@, {<<Master, p>>})]

\* In the scope of a creative set only that set is restored; it must still exist.
Applicable(c, r, scope) ==
  r.kind = "ReplaceCreativeState" /\ scope[1] = "set" =>
    scope[2] \in DOMAIN c.sets \cap DOMAIN r.value.sets

Applied(c, r, scope) ==
  CASE r.kind = "RenameScene" -> [c EXCEPT !.name[r.on] = r.value]
    [] r.kind = "ApplyTimelinePatch" -> [c EXCEPT !.clip[r.on] = r.value]
    [] r.kind = "ReplaceVariantCell" -> [c EXCEPT !.cells = Put(@, r.on, r.value)]
    [] r.kind = "ReplaceDeliveryProfileBundle" -> RestoredBundle(c, r.on, r.value)
    [] r.kind = "ReplaceCreativeState" /\ scope[1] = "set" ->
         [c EXCEPT !.sets[scope[2]] = r.value.sets[scope[2]]]
    [] OTHER -> [f \in DOMAIN c |-> IF f \in DOMAIN r.value THEN r.value[f] ELSE c[f]]

Changed(kind, on, value) == [kind |-> kind, on |-> on, value |-> value]
Entry(scope, forward, inverse) == [scope |-> scope, forward |-> forward, inverse |-> inverse]

-----------------------------------------------------------------------------
(* Every command ends alike: the oldest entry goes when there are too many,*)
(* what was undone cannot be redone, and a campaign with an invalid        *)
(* binding is never committed.                                             *)

TrimmedLate(h) == IF Len(h) > HistoryLimit + 1 THEN Tail(h) ELSE h   \* off by one
Trimmed(h) == IF Len(h) > HistoryLimit THEN Tail(h) ELSE h
Kept(r) == r          \* a commit that leaves what was undone to be redone
Cleared(r) == << >>

Committed(next) ==
  /\ revision < MaxRevision /\ BindingsValid(next)
  /\ camp' = next /\ revision' = revision + 1

Commit(next, entry) ==
  /\ next # camp /\ Committed(next)
  /\ history' = Trimmed(Append(history, entry))
  /\ redo' = Cleared(redo)

CommitSnapshot(kind, scope, next) ==
  Commit(next, Entry(scope, Snapshot(kind, next), Snapshot(kind, camp)))

RenameScene(s, name) ==
  Commit([camp EXCEPT !.name[s] = name],
         Entry(SceneScope(s), Changed("RenameScene", s, name),
                              Changed("RenameScene", s, camp.name[s])))

EditTimeline(s, length) ==
  Commit([camp EXCEPT !.clip[s] = length],
         Entry(SceneScope(s), Changed("ApplyTimelinePatch", s, length),
                              Changed("ApplyTimelinePatch", s, camp.clip[s])))

\* One scene at least stays in the master sequence.
SetSceneInclusion(s, included) ==
  LET excluded == IF included THEN camp.excluded \ {s} ELSE camp.excluded \cup {s} IN
  /\ excluded # Scenes
  /\ CommitSnapshot("ReplaceSceneInclusions", MasterScope, [camp EXCEPT !.excluded = excluded])

-----------------------------------------------------------------------------
(* Delivery profiles, variant cells and the brand kit. *)

\* Only the first profile is made this way, together with its master cell.
FirstProfile(c, p) == DOMAIN c.profiles = {} /\ <<Master, p>> \notin DOMAIN c.cells

CreateDeliveryProfile(p) ==
  /\ FirstProfile(camp, p)
  /\ Commit(RestoredBundle(camp, p, TRUE),
            Entry(ProfileScope(p), Changed("ReplaceDeliveryProfileBundle", p, TRUE),
                                   Changed("ReplaceDeliveryProfileBundle", p, FALSE)))

\* set_variant_crop and reset_variant_crop.
SetVariantCrop(c, crop) ==
  /\ c \in DOMAIN camp.cells
  /\ Commit([camp EXCEPT !.cells[c] = crop],
            Entry(CellScope(c), Changed("ReplaceVariantCell", c, crop),
                                Changed("ReplaceVariantCell", c, camp.cells[c])))

Matrix(next) == CommitSnapshot("ReplaceVariantMatrixState", MasterScope, next)

\* Adds a profile or replaces one; a locale it names must exist.
AddDeliveryProfiles(p, locale) ==
  /\ locale \in camp.locales \cup {NoLocale}
  /\ Matrix([camp EXCEPT !.profiles = Put(@, p, locale)])

EnableVariantCells(c) ==
  ValidCell(camp, c) /\ Matrix([camp EXCEPT !.cells = Put(@, c, "inherited")])

\* A detached cell no longer follows the master's crop.
DetachVariantCells(c) ==
  c \in DOMAIN camp.cells /\ Matrix([camp EXCEPT !.cells[c] = "cropped"])

SetBrandKit == Matrix([camp EXCEPT !.kit = "brand"])

-----------------------------------------------------------------------------
(* Creative slots, their bindings and the sets that replace their values. *)

Creative(scope, next) == CommitSnapshot("ReplaceCreativeState", scope, next)
Binding(next) == CommitSnapshot("ReplaceSlotBindings", MasterScope, next)

SetSlotBinding(k, s) ==
  LET next == [camp EXCEPT !.bindings = Put(@, k, s)]
  IN ValidBinding(next, k) /\ Binding(next)

ClearSlotBinding(k) ==
  k \in DOMAIN camp.slots /\ Binding([camp EXCEPT !.bindings = Without(@, {k})])

CreateSlots(k) ==
  k \notin DOMAIN camp.slots
  /\ Creative(MasterScope, [camp EXCEPT !.slots = Put(@, k, "plain")])

CreateCreativeSets(x, full) ==
  LET cells == NewCells(camp, x, full) IN
  /\ x \notin DOMAIN camp.sets /\ cells \cap DOMAIN camp.cells = {}
  /\ full => cells # {}
  /\ Creative(MasterScope,
       [camp EXCEPT !.sets = Put(@, x, << >>),
                    !.cells = [c \in DOMAIN @ \cup cells |->
                                 IF c \in cells THEN "inherited" ELSE @[c]]])

\* Assigned from the row of the set, in the set's own scope.
AssignSlotValues(x, k, v) ==
  /\ x \in DOMAIN camp.sets /\ k \in DOMAIN camp.slots
  /\ Creative(SetScope(x), [camp EXCEPT !.sets[x] = Put(@, k, v)])

UpdateMasterSlotStyle(k) ==
  k \in DOMAIN camp.slots /\ Creative(MasterScope, [camp EXCEPT !.slots[k] = "styled"])

DeleteSlot(k) ==
  Deletable(camp, k) /\ Creative(MasterScope, [camp EXCEPT !.slots = Without(@, {k})])

\* The replacements of k move to another slot, where none may have one yet.
RemapAndDeleteSlot(k, target) ==
  /\ {k, target} \subseteq DOMAIN camp.slots /\ k # target
  /\ k \notin DOMAIN camp.bindings
  /\ Replaced(camp, k) \cap Replaced(camp, target) = {}
  /\ Creative(MasterScope,
       [camp EXCEPT !.slots = Without(@, {k}),
                    !.sets = [x \in DOMAIN @ |-> IF k \in DOMAIN @[x]
                                THEN Put(Without(@[x], {k}), target, @[x][k]) ELSE @[x]]])

DropAndDeleteSlot(k) ==
  /\ k \in DOMAIN camp.slots
  /\ Creative(MasterScope,
       [camp EXCEPT !.slots = Without(@, {k}), !.bindings = Without(@, {k}),
                    !.sets = [x \in DOMAIN @ |-> Without(@[x], {k})]])

-----------------------------------------------------------------------------
(* Transcripts, captions and locales. *)

Caption(next) == CommitSnapshot("ReplaceCaptionLocaleState", MasterScope, next)

AttachTranscript == camp.captions = "none" /\ Caption([camp EXCEPT !.captions = "heard"])

\* edit_caption and set_caption_placement.
EditCaption == camp.captions # "none" /\ Caption([camp EXCEPT !.captions = "edited"])

CreateLocaleProfile(l, p) ==
  /\ l \notin camp.locales /\ p \in DOMAIN camp.profiles
  /\ Caption([camp EXCEPT !.locales = @ \cup {l}, !.profiles[p] = l])

-----------------------------------------------------------------------------
(* Undo and redo: the latest entry of the scope, wherever it stands. *)

OfAnyScope(entries, scope) == DOMAIN entries   \* an undo that forgets its scope
OfScope(entries, scope) == {i \in DOMAIN entries : entries[i].scope = scope}

Latest(entries, scope) ==
  CHOOSE i \in OfScope(entries, scope) : \A j \in OfScope(entries, scope) : j <= i

Undo(scope) ==
  /\ OfScope(history, scope) # {}
  /\ LET i == Latest(history, scope)  entry == history[i] IN
     /\ Applicable(camp, entry.inverse, entry.scope)
     /\ Committed(Applied(camp, entry.inverse, entry.scope))
     /\ history' = RemoveAt(history, i)
     /\ redo' = Append(redo, entry)

Redo(scope) ==
  /\ OfScope(redo, scope) # {}
  /\ LET i == Latest(redo, scope)  entry == redo[i] IN
     /\ Applicable(camp, entry.forward, entry.scope)
     /\ Committed(Applied(camp, entry.forward, entry.scope))
     /\ redo' = RemoveAt(redo, i)
     /\ history' = Append(history, entry)

\* The scopes the page offers an undo for: the shown scene, the master, the row
\* of a set and an existing cell; it offers a redo for scenes only.
SceneScopes == {SceneScope(s) : s \in Scenes}
LocalScopes == SceneScopes \cup {SetScope(x) : x \in DOMAIN camp.sets}
                           \cup {CellScope(c) : c \in DOMAIN camp.cells}

-----------------------------------------------------------------------------
EmptyCampaign ==
  [name |-> [s \in Scenes |-> "old"], clip |-> [s \in Scenes |-> "whole"], excluded |-> {},
   profiles |-> << >>, cells |-> << >>, kit |-> "none", slots |-> << >>,
   bindings |-> << >>, sets |-> << >>, captions |-> "none", locales |-> {}]

\* A campaign with every kind of content whose history starts here: one that was
\* continued from a recovered branch (fork_recovered clears history and redo).
FilledCampaign ==
  [EmptyCampaign EXCEPT
     !.profiles = [p \in Profiles |-> NoLocale],
     !.cells = [c \in Cells |-> "inherited"],
     !.slots = [k \in Slots |-> "plain"],
     !.sets = [x \in Sets |-> << >>],
     !.captions = "heard"]

Init ==
  /\ camp \in {EmptyCampaign, FilledCampaign}
  /\ history = << >> /\ redo = << >> /\ revision = 0

Command ==
  \/ \E s \in Scenes : \/ \E name \in {"old", "new"} : RenameScene(s, name)
                       \/ \E length \in Lengths : EditTimeline(s, length)
                       \/ \E included \in BOOLEAN : SetSceneInclusion(s, included)
  \/ \E p \in Profiles : \/ CreateDeliveryProfile(p)
                         \/ \E l \in Locales \cup {NoLocale} : AddDeliveryProfiles(p, l)
                         \/ \E l \in Locales : CreateLocaleProfile(l, p)
  \/ \E c \in Cells : \/ \E crop \in {"inherited", "cropped"} : SetVariantCrop(c, crop)
                      \/ EnableVariantCells(c)
                      \/ DetachVariantCells(c)
  \/ \E k \in Slots : \/ CreateSlots(k)
                      \/ \E s \in Scenes : SetSlotBinding(k, s)
                      \/ ClearSlotBinding(k)
                      \/ UpdateMasterSlotStyle(k)
                      \/ DeleteSlot(k)
                      \/ \E target \in Slots : RemapAndDeleteSlot(k, target)
                      \/ DropAndDeleteSlot(k)
  \/ \E x \in Sets : \/ \E full \in BOOLEAN : CreateCreativeSets(x, full)
                     \/ \E k \in Slots, v \in Values : AssignSlotValues(x, k, v)
  \/ SetBrandKit \/ AttachTranscript \/ EditCaption

Next ==
  \/ Command
  \/ \E scope \in LocalScopes \cup {MasterScope} : Undo(scope)
  \/ \E scope \in SceneScopes : Redo(scope)

Spec == Init /\ [][Next]_vars

-----------------------------------------------------------------------------
\* The campaign keeps its type, and history and redo together never hold more
\* entries than the limit, however undo, redo and trimming follow each other.
TypeOK ==
  /\ camp \in Campaigns
  /\ Len(history) + Len(redo) <= HistoryLimit
  /\ revision \in 0..MaxRevision

\* The entries that rename or edit one scene, the newest of them last.
SceneKinds == {"RenameScene", "ApplyTimelinePatch"}
SameThing(e, f) == e.forward.kind = f.forward.kind /\ e.forward.on = f.forward.on
IsNewest(entries, i) == \A k \in (i + 1)..Len(entries) : ~SameThing(entries[k], entries[i])
Consecutive(entries, i, j) ==
  /\ j \in (i + 1)..Len(entries) /\ SameThing(entries[j], entries[i])
  /\ \A k \in (i + 1)..(j - 1) : ~SameThing(entries[k], entries[i])

\* What campaign c shows of the thing entry e is about.
Shown(c, e) == IF e.forward.kind = "RenameScene" THEN c.name[e.forward.on] ELSE c.clip[e.forward.on]

\* Each entry leaves ("left") what the next one about the same thing found ("found"),
\* and the newest one what the campaign shows.
Linked(entries, c, left, found) ==
  \A i \in DOMAIN entries : entries[i].forward.kind \in SceneKinds =>
    /\ IsNewest(entries, i) => entries[i][left].value = Shown(c, entries[i])
    /\ \A j \in DOMAIN entries : Consecutive(entries, i, j) =>
         entries[i][left].value = entries[j][found].value

\* Undo retraces a scene's names and edits and redo walks them again, each from the
\* very state its command was recorded in, whatever was done, undone and trimmed in
\* other scopes: apply_patch puts its clips into the timeline it finds and would not
\* notice another one.
SceneHistoryRetraces ==
  /\ Linked(history, camp, "forward", "inverse")
  /\ Linked(redo, camp, "inverse", "forward")

\* The inverse a command records leads from what it made to what was there, and its
\* forward command there again: a snapshot that misses a field the command writes
\* would make undo lose or keep a part of it.
ReversibleCommands ==
  [][Command =>
       LET entry == history'[Len(history')] IN
       /\ Applied(camp', entry.inverse, entry.scope) = camp
       /\ Applied(camp, entry.forward, entry.scope) = camp']_vars

\* The campaign outside the part a scope names.
OutsideOf(c, scope) ==
  CASE scope[1] = "scene" -> [c EXCEPT !.name[scope[2]] = "old", !.clip[scope[2]] = "whole"]
    [] scope[1] = "set" -> [c EXCEPT !.sets = Without(@, {scope[2]})]
    [] scope[1] = "cell" -> [c EXCEPT !.cells = Without(@, {scope[2]})]

\* An undo in the scope of a scene, a set or a cell changes nothing else, whatever
\* was done elsewhere since: it is not applied to what happens to be shown.
UndoStaysInScope ==
  [][\A scope \in LocalScopes : Undo(scope) => OutsideOf(camp', scope) = OutsideOf(camp, scope)]_vars

=============================================================================
