-------------------------- MODULE CacheInvariant --------------------------
(***************************************************************************)
(* The inductive invariant of a cache lane: what each state of the         *)
(* controller may rely on about the tag store, the data RAM and memory.    *)
(***************************************************************************)
EXTENDS CacheSystem

Present(s, w, t) == tags.ram[s][w].valid /\ tags.ram[s][w].tag = t
NeedsBack(b)     == tags.ram[b.set][b.way].valid /\ tags.ram[b.set][b.way].dirty

(* The order in which a flush scans the blocks.                            *)
Before(b, c) == b.set < c.set \/ (b.set = c.set /\ b.way < c.way)

(* A clear has emptied the sets behind it.                                 *)
Cleared == ctl.st \in {"INIT_CLEAR", "INVAL_CLEAR"} =>
  \A s \in Set, w \in Way : s < ctl.clr_set => ~ tags.ram[s][w].valid

(* Only a flush writes back outside a request, and it serves none.         *)
FlushPhase ==
  /\ ctl.flushing => ctl.st \in FlushStates \cup WriteBackStates
  /\ ctl.st \in FlushStates => ctl.flushing

(* The registered tags are those of the set that is about to be compared.  *)
LookupFresh == ctl.st = "LOOKUP" =>
  req.probe # "lookup" /\ tags.q = tags.ram[ctl.cur.at.set]

CheckFresh == ctl.st = "FLUSH_CHECK" =>
  req.probe # "lookup" /\ tags.q = tags.ram[ctl.scan.set]

(* The block that is worked on lies in the set of the request, or is the   *)
(* one the flush scans.                                                    *)
BlkPlaced ==
  /\ ctl.st \in ServeStates \ {"LOOKUP"} /\ ~ ctl.flushing =>
       ctl.blk.set = ctl.cur.at.set
  /\ ctl.st \in WriteBackStates /\ ctl.flushing => ctl.blk = ctl.scan

(* A line is only fetched while no way holds it.                           *)
MissAbsent == ctl.st \in WriteBackStates \cup FillStates /\ ~ ctl.flushing =>
  \A w \in Way : ~ Present(ctl.cur.at.set, w, ctl.cur.at.tag)

(* A write goes to the way that holds the line.                            *)
FillPresent == ctl.st \in {"POSTFILL_WAIT", "WR_COMMIT"} =>
  Present(ctl.cur.at.set, ctl.blk.way, ctl.cur.at.tag)

(* What is written back is a dirty line that is still there.               *)
VictimHeld == ctl.st \in WriteBackStates =>
  Present(ctl.blk.set, ctl.blk.way, ctl.victim_tag) /\ NeedsBack(ctl.blk)

WrittenBack == ctl.st = "WB_GAP" => mem[VictimLine] = data[ctl.blk]

(* The flush has left nothing dirty behind it.                             *)
Scanned == ctl.flushing => \A b \in Block :
  Before(b, ctl.scan) \/ (b = ctl.scan /\ ctl.st = "FLUSH_ADVANCE")
    => ~ NeedsBack(b)

FlushedAll == ctl.flush_done => \A b \in Block : ~ NeedsBack(b)

IInv ==
  /\ TypeOK
  /\ Cleared /\ FlushPhase /\ LookupFresh /\ CheckFresh
  /\ BlkPlaced /\ MissAbsent /\ FillPresent /\ VictimHeld /\ WrittenBack
  /\ Scanned /\ FlushedAll
  /\ UniqueTags /\ CleanMatchesMemory /\ InvalidateDoneEmpty

=============================================================================
