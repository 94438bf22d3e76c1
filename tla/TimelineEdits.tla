--------------------------- MODULE TimelineEdits ---------------------------
(***************************************************************************)
(* The timeline engine (timeline-engine/src/lib.rs): the edits of a        *)
(* scene's timeline that rough-cut-timeline.tsx asks for, and the preview  *)
(* of a drag, which for moves and trims without ripple is computed by a    *)
(* faster copy of the same rules.                                          *)
(*                                                                         *)
(* A timeline is the map the engine calls placements: a clip per id.  The  *)
(* order of a track's clips and the timeline's duration follow from it     *)
(* (normalize).  An edit yields a set: its result, or nothing when it is   *)
(* refused or changes nothing.  Times are ticks, a few to a frame.         *)
(***************************************************************************)
EXTENDS Integers, FiniteSets, FiniteSetsExt

CONSTANTS
  Tracks, AudioTracks, NoTrack,
  Ids,         \* clip ids, in the order of their names
  Sources,     \* what may be imported: a duration, a picture, sound
  Frame,       \* frame_ticks
  Tolerance,   \* how near a drag snaps
  Playheads,   \* where the playhead may stand while clips are dragged
  MaxDrag,     \* bound: how far one drag goes
  MaxTick,     \* bound: the end of a timeline
  MaxEdits     \* bound: edits made

ASSUME TimelineAssumption ==
  /\ AudioTracks \subseteq Tracks /\ NoTrack \notin Tracks /\ Ids \subseteq Nat /\ IsFiniteSet(Ids)
  /\ Frame \in Nat \ {0} /\ Tolerance \in Nat /\ Playheads \subseteq Nat /\ MaxDrag \in Nat /\ MaxTick \in Nat /\ MaxEdits \in Nat
  /\ Sources \subseteq [duration : Nat \ {0}, video : BOOLEAN, audio : BOOLEAN]

VARIABLES
  timeline,  \* the scene's clips
  edits      \* how many edits were made

timelineVars == <<timeline, edits>>

Ticks == 0..MaxTick
Clips == [track : Tracks, start : Ticks, duration : Ticks, offset : Ticks, source : Ticks, audio : BOOLEAN]

ClipEnd(c) == c.start + c.duration
Duration(t) == Max({0} \cup {ClipEnd(t[i]) : i \in DOMAIN t})
Removed(t, is) == [i \in DOMAIN t \ is |-> t[i]]
With(t, placed) == [i \in DOMAIN t \cup DOMAIN placed |-> IF i \in DOMAIN placed THEN placed[i] ELSE t[i]]
NotBefore(low, n) == IF n < low THEN low ELSE n

\* ensure_track_kind: an audio track takes clips with sound; one that takes any.
AcceptsAny(k, c) == c \in Clips \/ k \in Tracks
Accepts(k, c) == k \notin AudioTracks \/ c.audio

Outcome(t, snap) == [timeline |-> t, snapped |-> snap]

-----------------------------------------------------------------------------
(* Snapping *)

Distance(a, b) == IF a < b THEN b - a ELSE a - b

SnapTargets(t, but, playhead) ==
  {0, playhead} \cup UNION {{t[i].start, ClipEnd(t[i])} : i \in DOMAIN t \ but}

\* The nearest target within the tolerance, the earlier one of two.
Nearest(v, targets) ==
  LET near == {x \in targets : Distance(x, v) <= Tolerance}
      least == Min({Distance(x, v) : x \in near})
  IN IF near = {} THEN {} ELSE {Min({x \in near : Distance(x, v) = least})}

\* Which of a left and a right candidate wins; one that always takes the right.
RightWins(a, b) == b
Closer(a, b) ==
  LET da == Distance(a.to, a.edge)
      db == Distance(b.to, b.edge)
  IN IF da < db \/ (da = db /\ a.to <= b.to) THEN a ELSE b

\* snap_group_delta: the group's edge that is nearer to a target goes there.
SnapGroup(first, last, delta, targets) ==
  LET left == {[edge |-> first + delta, to |-> x] : x \in Nearest(first + delta, targets)}
      right == {[edge |-> last + delta, to |-> x] : x \in Nearest(last + delta, targets)}
      best == IF left = {} THEN right ELSE IF right = {} THEN left
              ELSE {Closer(a, b) : a \in left, b \in right}
  IN IF best = {} THEN [delta |-> delta, snapped |-> {}]
     ELSE LET c == CHOOSE c \in best : TRUE IN
          [delta |-> NotBefore(-first, delta + c.to - c.edge), snapped |-> {c.to}]

-----------------------------------------------------------------------------
(* apply_edit *)

\* The durations of clips together: their ticks, counted.
DurationOf(t, is) == Cardinality(UNION {{i} \X (1..t[i].duration) : i \in is})

\* close_ripple_gaps: what follows the selected clips of its track moves up by
\* their durations.
Gone(t, sel, i) == {j \in sel : t[j].track = t[i].track /\ ClipEnd(t[j]) <= t[i].start}
GapsClosed(t, sel) ==
  [i \in DOMAIN t |->
     IF i \in sel THEN t[i]
     ELSE [t[i] EXCEPT !.start = NotBefore(0, @ - DurationOf(t, Gone(t, sel, i)))]]

FirstStart(t, sel) == Min({t[i].start : i \in sel})
LastEnd(t, sel) == Max({ClipEnd(t[i]) : i \in sel})
FromTracks(t, sel) == {t[i].track : i \in sel}

\* Without a target track all clips go to the track of the first one.
Leader(t, sel) ==
  CHOOSE i \in sel : \A j \in sel : t[i].start < t[j].start \/ (t[i].start = t[j].start /\ i <= j)
Destination(t, e) == IF e.target = NoTrack THEN t[Leader(t, e.ids)].track ELSE e.target

MoveDelta(t, e) ==
  LET first == FirstStart(t, e.ids)
      delta == NotBefore(-first, e.delta)
  IN IF ~e.snapping THEN [delta |-> delta, snapped |-> {}]
     ELSE SnapGroup(first, LastEnd(t, e.ids), delta, SnapTargets(t, e.ids, e.playhead))

Allowed(t, e) ==
  /\ e.target # NoTrack => Cardinality(FromTracks(t, e.ids)) = 1
  /\ \A i \in e.ids : Accepts(Destination(t, e), t[i])

Placed(t, e, delta) ==
  [i \in e.ids |-> [t[i] EXCEPT !.track = Destination(t, e), !.start = NotBefore(0, @ + delta)]]

\* With ripple, the destination's clips from the insertion on make room.
RoomMade(t, e, delta) ==
  LET span == LastEnd(t, e.ids) - FirstStart(t, e.ids)
      from == NotBefore(0, FirstStart(t, e.ids) + delta)
      closed == GapsClosed(t, e.ids)
  IN [i \in DOMAIN t |->
        IF i \notin e.ids /\ t[i].track = Destination(t, e) /\ closed[i].start >= from
        THEN [closed[i] EXCEPT !.start = @ + span] ELSE closed[i]]

Moved(t, e) ==
  IF ~Allowed(t, e) THEN {}
  ELSE LET d == MoveDelta(t, e)
           rest == IF e.ripple THEN RoomMade(t, e, d.delta) ELSE t
       IN {Outcome(With(rest, Placed(t, e, d.delta)), d.snapped)}

\* The range a trim keeps to.  A clip that is shorter than a frame, or has less
\* than one left in its source, has none: clamp panics, and nothing is returned.
TrimRange(c, edge) ==
  IF edge = "start" THEN c.start..(ClipEnd(c) - Frame)
  ELSE (c.start + Frame)..(c.start + c.source - c.offset)

Clamp(n, range) == IF n \in range THEN n ELSE IF n < Min(range) THEN Min(range) ELSE Max(range)

Snapped(t, e, range) ==
  LET target == Clamp(e.to, range)
      near == IF e.snapping THEN Nearest(target, SnapTargets(t, {e.id}, e.playhead)) ELSE {}
  IN IF near = {} THEN [to |-> target, snapped |-> {}]
     ELSE LET to == Clamp(CHOOSE x \in near : TRUE, range) IN [to |-> to, snapped |-> {to}]

Cut(c, edge, to) ==
  IF edge = "start"
  THEN [c EXCEPT !.start = to, !.offset = @ + to - c.start, !.duration = @ - (to - c.start)]
  ELSE [c EXCEPT !.duration = to - c.start]

\* The clips that follow a trimmed one; those that follow with a gap.
FollowsApart(c, end) == c.start > end
Follows(c, end) == c.start >= end

\* Only the end of a clip ripples: trimming its start moves no end.
ClipTrimmed(t, e) ==
  LET c == t[e.id]
      range == TrimRange(c, e.edge)
  IN IF range = {} THEN {}
     ELSE LET s == Snapped(t, e, range)
              cut == Cut(c, e.edge, s.to)
              shift == IF e.ripple THEN ClipEnd(cut) - ClipEnd(c) ELSE 0
          IN {Outcome([i \in DOMAIN t |->
                IF i = e.id THEN cut
                ELSE IF t[i].track = c.track /\ Follows(t[i], ClipEnd(c))
                     THEN [t[i] EXCEPT !.start = NotBefore(0, @ + shift)] ELSE t[i]], s.snapped)}

\* e.right gives the right part of each clip its id.
Split(t, e) ==
  LET inverse == [n \in {e.right[i] : i \in DOMAIN e.right} |-> CHOOSE i \in DOMAIN e.right : e.right[i] = n]
      left == [i \in DOMAIN e.right |-> Cut(t[i], "end", e.at)]
  IN {Outcome(With(With(t, left), [n \in DOMAIN inverse |-> Cut(t[inverse[n]], "start", e.at)]), {})}

Deleted(t, e) ==
  {Outcome(Removed(IF e.ripple THEN GapsClosed(t, e.ids) ELSE t, e.ids), {})}

\* An edit that changes nothing is none.
Changing(t, os) == {o \in os : o.timeline # t}

-----------------------------------------------------------------------------
(* preview_edit: the faster copy, for moves and trims without ripple. *)

PreviewMove(t, e) ==
  IF ~Allowed(t, e) THEN {}
  ELSE LET d == MoveDelta(t, e) IN
       IF d.delta = 0 /\ \A i \in e.ids : t[i].track = Destination(t, e) THEN {}
       ELSE {[placed |-> Placed(t, e, d.delta), snapped |-> d.snapped]}

\* Its own copy of the range; one that forgets how far into its source a clip begins.
PreviewRangeWide(c, edge) ==
  IF edge = "start" THEN c.start..(ClipEnd(c) - Frame) ELSE (c.start + Frame)..(c.start + c.source)
PreviewRange(c, edge) ==
  IF edge = "start" THEN c.start..(ClipEnd(c) - Frame)
  ELSE (c.start + Frame)..(c.start + c.source - c.offset)

PreviewTrim(t, e) ==
  LET c == t[e.id]
      range == PreviewRange(c, e.edge)
  IN IF range = {} THEN {}
     ELSE LET s == Snapped(t, e, range)
              cut == Cut(c, e.edge, s.to)
          IN IF cut = c THEN {} ELSE {[placed |-> [i \in {e.id} |-> cut], snapped |-> s.snapped]}

-----------------------------------------------------------------------------
(* What the editor asks for *)

Selections(t) == (SUBSET DOMAIN t) \ {{}}
Here(t) == {n \in Playheads : n <= Duration(t)}

\* How a drag snaps: to anything near it, or, with Shift, not at all.
Snaps(t) == [playhead : Here(t), snapping : {TRUE}] \cup [playhead : {0}, snapping : {FALSE}]
MoveOf(is, delta, target, s, ripple) ==
  [ids |-> is, delta |-> delta, target |-> target, playhead |-> s.playhead, snapping |-> s.snapping, ripple |-> ripple]

\* A drag moves any selection to the track under the pointer; the keys move one by
\* a frame, or to another track when it comes from one track.
Drags(t) == {MoveOf(is, n, k, s, r) : is \in Selections(t), n \in -MaxDrag..MaxDrag,
                                      k \in Tracks, s \in Snaps(t), r \in BOOLEAN}
Keys(t) == {MoveOf(is, n, NoTrack, [playhead |-> 0, snapping |-> FALSE], r) :
              is \in Selections(t), n \in {-Frame, Frame}, r \in BOOLEAN}
Moves(t) == Drags(t) \cup Keys(t)

Trims(t) ==
  {[id |-> i, edge |-> g, to |-> n, playhead |-> s.playhead, snapping |-> s.snapping, ripple |-> r] :
     i \in DOMAIN t, g \in {"start", "end"}, n \in Ticks, s \in Snaps(t), r \in BOOLEAN}

Inside(t, at) == {i \in DOMAIN t : t[i].start < at /\ at < ClipEnd(t[i])}
Free(t) == Ids \ DOMAIN t
Splits(t) ==
  UNION {{[at |-> at, right |-> f] : f \in {g \in [is -> Free(t)] : \A i, j \in is : g[i] = g[j] => i = j}}
           : at \in 0..Duration(t), is \in Selections(t)}

Deletions(t) == [ids : Selections(t), ripple : BOOLEAN]

-----------------------------------------------------------------------------
TimelineInit == timeline = [i \in {} |-> 0] /\ edits = 0

Do(os) ==
  /\ edits < MaxEdits /\ edits' = edits + 1
  /\ \E o \in Changing(timeline, os) : Duration(o.timeline) <= MaxTick /\ timeline' = o.timeline

\* An imported file is put behind everything else.
Insert(i, s, k) ==
  /\ i \in Free(timeline) /\ (k \in AudioTracks <=> ~s.video)
  /\ LET c == [track |-> k, start |-> Duration(timeline), duration |-> s.duration, offset |-> 0,
               source |-> s.duration, audio |-> s.audio]
     IN Accepts(k, c) /\ Do({Outcome(With(timeline, [n \in {i} |-> c]), {})})

MoveClips(e) == Do(Moved(timeline, e))
TrimClip(e) == Do(ClipTrimmed(timeline, e))
SplitClips(e) == DOMAIN e.right \subseteq Inside(timeline, e.at) /\ Do(Split(timeline, e))
DeleteClips(e) == Do(Deleted(timeline, e))

TimelineNext ==
  \/ \E i \in Ids, s \in Sources, k \in Tracks : Insert(i, s, k)
  \/ \E e \in Moves(timeline) : MoveClips(e)
  \/ \E e \in Trims(timeline) : TrimClip(e)
  \/ \E e \in Splits(timeline) : SplitClips(e)
  \/ \E e \in Deletions(timeline) : DeleteClips(e)

TimelineSpec == TimelineInit /\ [][TimelineNext]_timelineVars

-----------------------------------------------------------------------------
(* Properties *)

\* Every clip plays a piece of its source that exists, on a track that can play
\* it: apply_edit checks the former again after every edit, nothing the latter.
TimelineTypeOK ==
  /\ DOMAIN timeline \subseteq Ids /\ edits \in 0..MaxEdits
  /\ \A i \in DOMAIN timeline :
       LET c == timeline[i] IN
       /\ c \in Clips /\ c.duration > 0 /\ c.offset + c.duration <= c.source
       /\ Accepts(c.track, c) /\ (c.track \in AudioTracks => c.audio)

\* What is shown while the pointer moves is what the edit does when it is let go:
\* the same clips at the same places and the same snap, or nothing in both.
PreviewShowsEdit ==
  LET t == timeline
      Shown(ps) == {Outcome(With(t, p.placed), p.snapped) : p \in ps}
  IN /\ \A e \in Moves(t) : ~e.ripple => Shown(PreviewMove(t, e)) = Changing(t, Moved(t, e))
     /\ \A e \in Trims(t) : ~e.ripple => Shown(PreviewTrim(t, e)) = Changing(t, ClipTrimmed(t, e))

\* A ripple delete, and a ripple trim in either direction, keeps clips that do not
\* overlap apart: what follows moves by as much as is taken away or added.
Clear(t) ==
  \A i, j \in DOMAIN t : i # j /\ t[i].track = t[j].track =>
    ClipEnd(t[i]) <= t[j].start \/ ClipEnd(t[j]) <= t[i].start
RippleKeepsClear ==
  Clear(timeline) =>
    /\ \A e \in Trims(timeline) : e.ripple => \A o \in ClipTrimmed(timeline, e) : Clear(o.timeline)
    /\ \A e \in Deletions(timeline) : e.ripple => \A o \in Deleted(timeline, e) : Clear(o.timeline)

\* The tick a drag reports as its snap is where an edge of what was dragged ends
\* up, though the group cannot pass the beginning of the timeline.
SnapLands ==
  /\ \A e \in Moves(timeline) : e.snapping => \A o \in Moved(timeline, e) : \A x \in o.snapped :
       x \in {FirstStart(o.timeline, e.ids), LastEnd(o.timeline, e.ids)}
  /\ \A e \in Trims(timeline) : e.snapping => \A o \in ClipTrimmed(timeline, e) : \A x \in o.snapped :
       x \in {o.timeline[e.id].start, ClipEnd(o.timeline[e.id])}
=============================================================================
