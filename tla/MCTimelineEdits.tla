-------------------------- MODULE MCTimelineEdits --------------------------
\* The instance of TimelineEdits for TLC: a video and an audio track, a film of four
\* ticks with sound and a silent one of three, frames of two ticks.
EXTENDS TimelineEdits

CONSTANTS v1, a1

MCSources == {[duration |-> 4, video |-> TRUE, audio |-> TRUE],
              [duration |-> 3, video |-> TRUE, audio |-> FALSE]}
=============================================================================
