------------------------ MODULE CacheMuxFlushSystem ------------------------
(***************************************************************************)
(* The flush sequencer of the cache mux among its lanes.  A lane is here   *)
(* what the sequencer sees of it: it answers a flush with flush_done and   *)
(* an invalidation with invalidate_done, in any later clock.               *)
(***************************************************************************)
EXTENDS CacheMuxFlush

VARIABLES
  src,      \* source lanes: "idle", "flushing", or "wait" for the mux's answer
  dst,      \* lanes that clear their tags
  stale     \* history: lanes that may hold a line older than the flush of s

vars == <<seq, src, dst, stale>>

Init ==
  /\ SeqInit
  /\ src = [s \in Source |-> "idle"]
  /\ dst = {}
  /\ stale = [s \in Source |-> {}]

Flushing == {s \in Source : src[s] = "flushing"}

SourceNext(s, done) ==
  CASE s \in FlushDoneOut(done)                    -> {"idle"}
    [] s \notin FlushDoneOut(done) /\ s \in done   -> {"wait"}
    [] s \notin FlushDoneOut(done) /\ s \notin done ->
         IF src[s] = "idle" THEN {"idle", "flushing"} ELSE {src[s]}

LaneStep(done, cleared) ==
  /\ src' \in [Source -> {"idle", "flushing", "wait"}]
  /\ \A s \in Source : src'[s] \in SourceNext(s, done)
  /\ dst' = (dst \ cleared) \cup seq.invalidate
  /\ stale' = [s \in Source |-> IF s \in done THEN Mask[s] ELSE stale[s] \ cleared]

Clock(done, cleared) == SeqStep(done, cleared) /\ LaneStep(done, cleared)

Next == \E done \in SUBSET Flushing, cleared \in SUBSET dst : Clock(done, cleared)

Spec == Init /\ [][Next]_vars

(* The clock runs, though no source begins another flush; every lane ends  *)
(* its scan and its clear.                                                 *)
FlushEnds(s) == \E done \in SUBSET Flushing, cleared \in SUBSET dst :
  s \in done /\ Clock(done, cleared)
ClearEnds(i) == \E done \in SUBSET Flushing, cleared \in SUBSET dst :
  i \in cleared /\ Clock(done, cleared)

FairSpec ==
  /\ Spec
  /\ WF_vars(Next /\ Flushing' \subseteq Flushing)
  /\ \A s \in Source : WF_vars(FlushEnds(s))
  /\ \A i \in Lane : WF_vars(ClearEnds(i))

-----------------------------------------------------------------------------
(* Registers and lanes hold values of their kind.                          *)
TypeOK ==
  /\ seq \in SeqRegs
  /\ src \in [Source -> {"idle", "flushing", "wait"}]
  /\ dst \in SUBSET Lane
  /\ stale \in [Source -> SUBSET Lane]

(* flush_done is let out only when every lane of the source's mask has     *)
(* been cleared since the source wrote its lines back.                     *)
DoneMeansCleared == \A s \in seq.delayed : stale[s] = {}

(* A source that waits for its answer is queued, in work, or answered: no  *)
(* flush_done is lost, and none is given to a source that does not wait.   *)
NoFlushLost == \A s \in Source :
  src[s] = "wait" <=> \/ s \in seq.pending
                      \/ seq.active /\ s = seq.sel
                      \/ s \in seq.delayed

(* Every flush of a source is answered.                                    *)
FlushAnswered == \A s \in Source : src[s] = "flushing" ~> src[s] = "idle"

=============================================================================
