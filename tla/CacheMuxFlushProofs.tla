------------------------ MODULE CacheMuxFlushProofs ------------------------
(***************************************************************************)
(* The flush sequencer lets no flush_done out early and loses none, for    *)
(* every number of lanes and every choice of masks.                        *)
(***************************************************************************)
EXTENDS CacheMuxFlushSystem, WellFoundedInduction, TLAPS

(* While a source is worked on, its stale lanes are those still waited for.*)
Tracking ==
  /\ \A s \in Source : stale[s] \subseteq Mask[s]
  /\ seq.active => /\ seq.mask = Mask[seq.sel]
                   /\ Lane \ seq.mask \subseteq seq.seen
                   /\ stale[seq.sel] \cap seq.seen = {}

(* A source is in one place of the queue only.                             *)
OnePlace ==
  /\ seq.pending \cap seq.delayed = {}
  /\ seq.active => seq.sel \notin seq.pending \cup seq.delayed

IInv == TypeOK /\ NoFlushLost /\ DoneMeansCleared /\ Tracking /\ OnePlace

(* The source that is taken next is one that waits.                        *)
LEMMA MinWaits ==
  ASSUME NEW W, W \subseteq Source, W # {}
  PROVE  Min(W) \in W
<1>1. W \subseteq Nat
  BY DEF Source
<1>2. IsWellFoundedOn(OpToRel(<, Nat), Nat)
  BY NatLessThanWellFounded
<1>3. PICK x \in W : \A y \in W : ~ (<<y, x>> \in OpToRel(<, Nat))
  BY <1>1, <1>2, WFMin
<1>4. \A y \in W : ~ (y < x)
  BY <1>1, <1>3 DEF OpToRel
<1>5. \A y \in W : x <= y
  BY <1>1, <1>4
<1> QED BY <1>5 DEF Min

(* After reset nothing is queued, asked for or in work. *)
LEMMA InvInit == Init => IInv
<1> SUFFICES ASSUME Init PROVE IInv
  OBVIOUS
<1>1. 0 \in Source
  BY MaskAssumption DEF Source
<1>2. TypeOK
  BY <1>1 DEF Init, SeqInit, TypeOK, SeqRegs
<1> QED BY <1>2 DEF Init, SeqInit, IInv, NoFlushLost, DoneMeansCleared, Tracking, OnePlace

(* What every clock does to the lanes, whatever the sequencer does.        *)
LEMMA LaneEffect ==
  ASSUME IInv, NEW done \in SUBSET Flushing, NEW cleared \in SUBSET dst,
         LaneStep(done, cleared)
  PROVE  /\ src' \in [Source -> {"idle", "flushing", "wait"}]
         /\ dst' \in SUBSET Lane
         /\ stale' \in [Source -> SUBSET Lane]
         /\ \A s \in Source : stale'[s] \subseteq Mask[s]
         /\ \A s \in Source \ done : stale'[s] = stale[s] \ cleared
         /\ \A s \in Source : src'[s] = "wait" <=>
              s \in Masked(done) \/ (src[s] = "wait" /\ s \notin seq.delayed)
         /\ \A s \in done : src[s] = "flushing"
<1>0. /\ seq \in SeqRegs /\ done \subseteq Source
      /\ \A s \in done : src[s] = "flushing"
      /\ \A s \in Source : src[s] = "wait" \/ s \notin seq.delayed
      /\ \A s \in Source : Mask[s] \in SUBSET Lane
  BY MaskAssumption DEF IInv, TypeOK, Flushing, NoFlushLost
<1>1. stale' \in [Source -> SUBSET Lane] /\ dst' \in SUBSET Lane
  BY <1>0 DEF LaneStep, IInv, TypeOK, SeqRegs
<1>2. /\ \A s \in Source : stale'[s] \subseteq Mask[s]
      /\ \A s \in Source \ done : stale'[s] = stale[s] \ cleared
  BY <1>0 DEF LaneStep, IInv, Tracking
<1>3. ASSUME NEW s \in Source
      PROVE  src'[s] = "wait" <=>
               s \in Masked(done) \/ (src[s] = "wait" /\ s \notin seq.delayed)
  <2>1. src'[s] \in SourceNext(s, done)
    BY DEF LaneStep
  <2>2. CASE s \in FlushDoneOut(done)
    <3>1. src'[s] = "idle"
      BY <2>1, <2>2 DEF SourceNext
    <3>2. s \notin Masked(done)
      BY <1>0, <2>2 DEF FlushDoneOut, Direct, Masked
    <3>3. s \in seq.delayed \/ src[s] # "wait"
      BY <1>0, <2>2 DEF FlushDoneOut, Direct
    <3> QED BY <3>1, <3>2, <3>3
  <2>3. CASE s \notin FlushDoneOut(done) /\ s \in done
    <3>1. src'[s] = "wait"
      BY <2>1, <2>3 DEF SourceNext
    <3>2. s \in Masked(done)
      BY <2>3 DEF FlushDoneOut, Direct
    <3> QED BY <3>1, <3>2
  <2>4. CASE s \notin FlushDoneOut(done) /\ s \notin done
    <3>1. src'[s] \in IF src[s] = "idle" THEN {"idle", "flushing"} ELSE {src[s]}
      BY <2>1, <2>4 DEF SourceNext
    <3>2. s \notin Masked(done) /\ s \notin seq.delayed
      BY <2>4 DEF FlushDoneOut, Masked
    <3> QED BY <3>1, <3>2
  <2> QED BY <2>2, <2>3, <2>4
<1> QED BY <1>0, <1>1, <1>2, <1>3 DEF LaneStep

(* Every clock of the sequencer and of its sources keeps the invariant. *)
LEMMA InvNext == IInv /\ [Next]_vars => IInv'
<1> SUFFICES ASSUME IInv, [Next]_vars PROVE IInv'
  OBVIOUS
<1>1. CASE UNCHANGED vars
  BY <1>1 DEF vars, IInv, TypeOK, NoFlushLost, DoneMeansCleared, Tracking, OnePlace
<1>2. CASE Next
  <2>0. PICK done \in SUBSET Flushing, cleared \in SUBSET dst :
          SeqStep(done, cleared) /\ LaneStep(done, cleared)
    BY <1>2 DEF Next, Clock
  <2>1. /\ src' \in [Source -> {"idle", "flushing", "wait"}]
        /\ dst' \in SUBSET Lane
        /\ stale' \in [Source -> SUBSET Lane]
        /\ \A s \in Source : stale'[s] \subseteq Mask[s]
        /\ \A s \in Source \ done : stale'[s] = stale[s] \ cleared
        /\ \A s \in Source : src'[s] = "wait" <=>
             s \in Masked(done) \/ (src[s] = "wait" /\ s \notin seq.delayed)
        /\ \A s \in done : src[s] = "flushing"
    BY <2>0, LaneEffect
  <2>2. /\ seq \in SeqRegs /\ done \subseteq Source /\ cleared \subseteq Lane
        /\ Masked(done) \subseteq done
        /\ Waiting(done) = seq.pending \cup Masked(done)
        /\ Waiting(done) \subseteq Source
        /\ \A s \in Source : Mask[s] \in SUBSET Lane
    BY MaskAssumption DEF IInv, TypeOK, Flushing, Masked, Waiting, SeqRegs
  <2>3. \A s \in Source : src[s] = "wait" <=>
          s \in seq.pending \/ (seq.active /\ s = seq.sel) \/ s \in seq.delayed
    BY DEF IInv, NoFlushLost
  <2>4. \A s \in Masked(done) : s \notin seq.pending /\ s \notin seq.delayed
                                /\ ~ (seq.active /\ s = seq.sel)
    BY <2>1, <2>2, <2>3
  <2>5. CASE Begin(done)
    <3> DEFINE s == Min(Waiting(done))
    <3>1. s \in Waiting(done) /\ s \in Source
      BY <2>2, <2>5, MinWaits DEF Begin
    <3> HIDE DEF s
    <3>2. /\ ~ seq.active
          /\ seq' = [pending |-> Waiting(done) \ {s}, active |-> TRUE, sel |-> s,
                     mask |-> Mask[s], seen |-> Lane \ Mask[s],
                     invalidate |-> Mask[s], delayed |-> {}]
      BY <2>5 DEF Begin, s
    <3>3. TypeOK'
      BY <2>1, <2>2, <3>1, <3>2 DEF TypeOK, SeqRegs
    <3>4. NoFlushLost'
      BY <2>1, <2>2, <2>3, <2>4, <3>1, <3>2 DEF NoFlushLost, IInv, OnePlace
    <3>5. Tracking'
      BY <2>1, <3>1, <3>2 DEF Tracking
    <3>6. DoneMeansCleared' /\ OnePlace'
      BY <3>2 DEF DoneMeansCleared, OnePlace
    <3> QED BY <3>3, <3>4, <3>5, <3>6 DEF IInv
  <2>6. CASE Rest(done)
    <3>1. /\ ~ seq.active /\ Waiting(done) = {}
          /\ seq' = [seq EXCEPT !.pending = {}, !.invalidate = {}, !.delayed = {}]
      BY <2>6 DEF Rest
    <3>2. TypeOK'
      BY <2>1, <2>2, <3>1 DEF TypeOK, SeqRegs
    <3>3. seq'.pending = {} /\ seq'.delayed = {} /\ ~ seq'.active
      BY <2>2, <3>1 DEF SeqRegs
    <3>4. NoFlushLost'
      BY <2>1, <2>2, <2>3, <3>1, <3>3 DEF NoFlushLost
    <3>5. Tracking' /\ DoneMeansCleared' /\ OnePlace'
      BY <2>1, <3>3 DEF Tracking, DoneMeansCleared, OnePlace
    <3> QED BY <3>2, <3>4, <3>5 DEF IInv
  <2>7. CASE Collect(done, cleared)
    <3>1. /\ seq.active
          /\ seq' = [seq EXCEPT !.pending = Waiting(done), !.seen = Acc(cleared),
                                !.invalidate = {}, !.delayed = {}]
      BY <2>7 DEF Collect
    <3>2. /\ seq'.pending = Waiting(done) /\ seq'.delayed = {} /\ seq'.active
          /\ seq'.sel = seq.sel /\ seq'.mask = seq.mask
          /\ seq'.seen = seq.seen \cup cleared \cup (Lane \ seq.mask)
      BY <2>2, <3>1 DEF SeqRegs, Acc
    <3>3. TypeOK'
      BY <2>1, <2>2, <3>1, <3>2 DEF TypeOK, SeqRegs
    <3>4. NoFlushLost'
      BY <2>1, <2>2, <2>3, <2>4, <3>1, <3>2 DEF NoFlushLost, IInv, OnePlace
    <3>5. seq.sel \in Source \ done
      BY <2>1, <2>2, <2>3, <3>1 DEF SeqRegs
    <3>6. Tracking'
      BY <2>1, <3>1, <3>2, <3>5 DEF Tracking, IInv
    <3>7. DoneMeansCleared' /\ OnePlace'
      BY <2>2, <2>4, <3>1, <3>2 DEF DoneMeansCleared, OnePlace, IInv
    <3> QED BY <3>3, <3>4, <3>6, <3>7 DEF IInv
  <2>8. CASE Finish(done, cleared)
    <3>1. /\ seq.active /\ Acc(cleared) = Lane
          /\ seq' = [seq EXCEPT !.pending = Waiting(done), !.active = FALSE,
                                !.seen = Lane, !.invalidate = {},
                                !.delayed = {seq.sel}]
      BY <2>8 DEF Finish
    <3>2. /\ seq'.pending = Waiting(done) /\ seq'.delayed = {seq.sel} /\ ~ seq'.active
          /\ seq.sel \in Source
      BY <2>2, <3>1 DEF SeqRegs
    <3>3. TypeOK'
      BY <2>1, <2>2, <3>1, <3>2 DEF TypeOK, SeqRegs
    <3>4. NoFlushLost'
      BY <2>1, <2>2, <2>3, <2>4, <3>1, <3>2 DEF NoFlushLost, IInv, OnePlace
    <3>5. seq.sel \in Source \ done
      BY <2>1, <2>2, <2>3, <3>1 DEF SeqRegs
    <3>6. stale'[seq.sel] = {}
      BY <2>1, <2>2, <3>1, <3>5 DEF Acc, IInv, TypeOK, Tracking
    <3>7. Tracking' /\ DoneMeansCleared' /\ OnePlace'
      BY <2>1, <2>2, <2>4, <3>1, <3>2, <3>6
         DEF Tracking, DoneMeansCleared, OnePlace, IInv
    <3> QED BY <3>3, <3>4, <3>7 DEF IInv
  <2> QED BY <2>0, <2>5, <2>6, <2>7, <2>8 DEF SeqStep
<1> QED BY <1>1, <1>2

(* Theorem: the sequencer's inductive invariant holds in every reachable state
   of jtframe_cache_mux_flush, for every number of lanes and every mask. *)
THEOREM SequencerInvariant == Spec => []IInv
BY InvInit, InvNext, PTL DEF Spec

(* Type correctness of the sequencer and of the lanes it waits for: the    *)
(* mask and the lanes seen are sets of lanes, and what is queued is a      *)
(* source, whatever the masks are.                                         *)
THEOREM SequencerTyped == Spec => []TypeOK
<1>1. IInv => TypeOK
  BY DEF IInv
<1> QED BY <1>1, SequencerInvariant, PTL

(* flush_done is let out only when every lane of the mask was cleared      *)
(* after the source had written its lines back.                            *)
THEOREM FlushDoneNotEarly == Spec => []DoneMeansCleared
<1>1. IInv => DoneMeansCleared
  BY DEF IInv
<1> QED BY <1>1, SequencerInvariant, PTL

(* A source that waits is queued, in work or answered, and no other is.    *)
THEOREM FlushDoneNotLost == Spec => []NoFlushLost
<1>1. IInv => NoFlushLost
  BY DEF IInv
<1> QED BY <1>1, SequencerInvariant, PTL

=============================================================================
