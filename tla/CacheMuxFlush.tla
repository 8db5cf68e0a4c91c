--------------------------- MODULE CacheMuxFlush ---------------------------
(***************************************************************************)
(* jtframe_cache_mux_flush.v: after a source lane has flushed, the lanes   *)
(* of its mask are invalidated, and only then is its flush_done let out.   *)
(* One source is handled at a time; the others wait in pending.            *)
(*                                                                         *)
(* done and cleared are what the lanes drive in the same clock: the lanes  *)
(* that raise flush_done and the lanes that raise invalidate_done.         *)
(***************************************************************************)
EXTENDS Naturals, FiniteSetsExt

CONSTANTS
  NSources,    \* lanes that can be flushed: 0..3 in the RTL
  NLanes,      \* lanes of the mux: 0..7 in the RTL
  Mask         \* INVAL_MASK: the lanes a source's flush invalidates

Source == 0 .. NSources-1
Lane   == 0 .. NLanes-1

ASSUME MaskAssumption ==
  /\ NSources \in Nat \ {0} /\ NLanes \in Nat
  /\ NSources <= NLanes
  /\ Mask \in [Source -> SUBSET Lane]

VARIABLE seq     \* the registers of the sequencer

SeqRegs == [pending: SUBSET Source, active: BOOLEAN, sel: Source,
            mask: SUBSET Lane, seen: SUBSET Lane,
            invalidate: SUBSET Lane, delayed: SUBSET Source]

SeqInit ==
  seq = [pending |-> {}, active |-> FALSE, sel |-> 0, mask |-> {}, seen |-> Lane,
         invalidate |-> {}, delayed |-> {}]

Masked(done) == {s \in done : Mask[s] # {}}
Direct(done) == done \ Masked(done)

FlushDoneOut(done) == Direct(done) \cup seq.delayed

(* The lanes that need not be waited for any more.                         *)
Acc_fault(cleared) == seq.seen \cup cleared \cup seq.mask
Acc(cleared) == seq.seen \cup cleared \cup (Lane \ seq.mask)

Waiting(done) == seq.pending \cup Masked(done)

Begin_fault(done) ==
  LET s == Min(Waiting(done)) IN
  /\ ~ seq.active /\ Waiting(done) # {}
  /\ seq' = [pending |-> {}, active |-> TRUE, sel |-> s,
             mask |-> Mask[s], seen |-> Lane \ Mask[s],
             invalidate |-> Mask[s], delayed |-> {}]

(* The lowest waiting source is taken next, its lanes are invalidated.     *)
Begin(done) ==
  LET s == Min(Waiting(done)) IN
  /\ ~ seq.active /\ Waiting(done) # {}
  /\ seq' = [pending |-> Waiting(done) \ {s}, active |-> TRUE, sel |-> s,
             mask |-> Mask[s], seen |-> Lane \ Mask[s],
             invalidate |-> Mask[s], delayed |-> {}]

Rest(done) ==
  /\ ~ seq.active /\ Waiting(done) = {}
  /\ seq' = [seq EXCEPT !.pending = {}, !.invalidate = {}, !.delayed = {}]

Collect(done, cleared) ==
  /\ seq.active /\ Acc(cleared) # Lane
  /\ seq' = [seq EXCEPT !.pending = Waiting(done), !.seen = Acc(cleared),
                        !.invalidate = {}, !.delayed = {}]

Finish_fault(done, cleared) ==
  /\ seq.active /\ Acc(cleared) = Lane
  /\ seq' = [seq EXCEPT !.pending = seq.pending, !.active = FALSE, !.seen = Lane,
                        !.invalidate = {}, !.delayed = {seq.sel}]

FinishTarget_fault(done, cleared) ==
  /\ seq.active /\ Acc(cleared) = Lane
  /\ seq' = [seq EXCEPT !.pending = Waiting(done), !.active = FALSE, !.seen = Lane,
                        !.invalidate = {}, !.delayed = seq.mask]

Finish(done, cleared) ==
  /\ seq.active /\ Acc(cleared) = Lane
  /\ seq' = [seq EXCEPT !.pending = Waiting(done), !.active = FALSE, !.seen = Lane,
                        !.invalidate = {}, !.delayed = {seq.sel}]

SeqStep(done, cleared) ==
  \/ Begin(done)
  \/ Rest(done)
  \/ Collect(done, cleared)
  \/ Finish(done, cleared)

=============================================================================
