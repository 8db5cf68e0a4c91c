-------------------------- MODULE MCCacheMuxFlush --------------------------
(* Instances of the flush sequencer for TLC.                               *)
EXTENDS CacheMuxFlushSystem

\* Two sources with a mask, as in cps3's mem.yaml, and two without.
PairMask == [s \in 0..3 |-> CASE s = 0 -> {4} [] s = 1 -> {4, 5} [] s \in {2, 3} -> {}]

\* Three sources that invalidate the same lane.
TripleMask == [s \in 0..2 |-> {3}]

=============================================================================
