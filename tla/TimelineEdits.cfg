\* Four edits on timelines of up to three clips.
SPECIFICATION TimelineSpec
CONSTANTS
  Tracks = {v1, a1}
  AudioTracks = {a1}
  NoTrack = NoTrack
  Ids = {1, 2, 3}
  Sources <- MCSources
  Frame = 2
  Tolerance = 1
  Playheads = {3}
  MaxDrag = 2
  MaxTick = 8
  MaxEdits = 4
  v1 = v1
  a1 = a1
INVARIANTS TimelineTypeOK PreviewShowsEdit RippleKeepsClear SnapLands
\* A run ends with its last edit.
CHECK_DEADLOCK FALSE
