----------------------------- MODULE MCTimeline -----------------------------
\* One recording in few frames: a ring that is lapped, a death, a pause.
EXTENDS Timeline
=============================================================================
