-------------------------- MODULE MCStreamScheduler -------------------------
\* Four ids on three streams: ids 0 and 3 share one.
EXTENDS StreamScheduler

FourIds == 0 .. 3
=============================================================================
