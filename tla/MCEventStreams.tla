--------------------------- MODULE MCEventStreams ---------------------------
\* Three ids on two streams: ids 0 and 2 share one.
EXTENDS EventStreams

ThreeIds == 0 .. 2
=============================================================================
