------------------------------- MODULE Cache -------------------------------
(***************************************************************************)
(* One lane of the write-back cache: the controller of                     *)
(* jtframe_cache_ctrl.sv, on top of the tag store (CacheTags) and the      *)
(* request front end (CacheReq).  One step is one rising edge of clk.      *)
(*                                                                         *)
(* A line travels to and from memory whole: the states that move its       *)
(* half-words one by one (S_WB_STREAM; S_FILL_WB_WAIT, S_FILL_WB_PRIME and *)
(* S_FILL_STREAM) are one state each, which lasts until the burst          *)
(* controller says rdy.  x is what the burst controller answers in this    *)
(* clock: ack (the burst is accepted) and rdy (the burst ends).            *)
(***************************************************************************)
EXTENDS CacheReq

VARIABLES
  ctl,     \* registers of the controller
  data,    \* the data RAM: a line for each block
  mem      \* the external memory behind the burst port

Line == [tag: Tag, set: Set]

WriteBackStates == {"WB_LOAD", "WB_PRIME", "WB_REQ", "WB_STREAM", "WB_GAP"}
FillStates      == {"FILL_REQ", "FILL_STREAM"}
FlushStates     == {"FLUSH_WAIT", "FLUSH_CHECK", "FLUSH_ADVANCE"}
ServeStates     == {"LOOKUP", "RD_RESP", "WR_COMMIT", "POSTFILL_WAIT"}
                     \cup WriteBackStates \cup FillStates
States          == {"INIT_CLEAR", "IDLE", "INVAL_CLEAR"}
                     \cup ServeStates \cup FlushStates

ZeroBlock == [set |-> 0, way |-> 0]
NoRequest == [wr |-> FALSE, at |-> ZeroAddr, din |-> 0]

CacheInit ==
  /\ TagsInit
  /\ ReqInit
  /\ data \in [Block -> [Off -> {0}]]
  /\ ctl = [st |-> "INIT_CLEAR", ok |-> FALSE, dout |-> 0,
            flushing |-> FALSE, flush_done |-> FALSE,
            invalidating |-> FALSE, invalidate_done |-> FALSE,
            cur |-> NoRequest,
            blk |-> ZeroBlock, victim_tag |-> 0,
            scan |-> ZeroBlock, clr_set |-> 0,
            resp_l |-> FALSE, probe_blk |-> ZeroBlock, probe_off |-> 0]

CtlRegs ==
  [st: States, ok: BOOLEAN, dout: Val,
   flushing: BOOLEAN, flush_done: BOOLEAN,
   invalidating: BOOLEAN, invalidate_done: BOOLEAN,
   cur: Request, blk: Block, victim_tag: Tag,
   scan: Block, clr_set: Set,
   resp_l: BOOLEAN, probe_blk: Block, probe_off: Off]

CtlType == ctl \in CtlRegs

CacheType ==
  /\ TagsType /\ ReqType /\ CtlType
  /\ port \in Port
  /\ data \in [Block -> [Off -> Val]]
  /\ mem \in [Line -> [Off -> Val]]

-----------------------------------------------------------------------------
(* Wires.                                                                  *)
Blocked   == BlockNormalReq(ctl.flushing, ctl.invalidating)
Valid     == ReqValid(Blocked)
ReqTake   == ctl.st = "IDLE" /\ Valid
FlushTake == ctl.st = "IDLE" /\ ~ Valid /\ FlushStart
InvalTake == ctl.st = "IDLE" /\ ~ Valid /\ ~ FlushStart /\ InvalidateStart

CanLookup_fault == ctl.flushing /\ req.probe = "pending"

CanLookup == /\ ctl.flushing /\ req.probe = "pending"
             /\ ctl.st \in {"WB_PRIME", "WB_REQ", "WB_STREAM", "WB_GAP"}

LookupSet == IF req.probe = "lookup" THEN req.probe_at.set
             ELSE IF ctl.flushing THEN ctl.scan.set
             ELSE ctl.cur.at.set

LookupTag == IF req.probe = "lookup" THEN req.probe_at.tag ELSE ctl.cur.at.tag

(* The set the tag RAMs read in this clock.                                *)
TagRdSet ==
  CASE ReqTake               -> FrontReq.at.set
    [] ~ ReqTake /\ CanLookup -> req.probe_at.set
    [] FlushTake             -> 0
    [] OTHER                 -> IF ctl.flushing THEN ctl.scan.set
                                                ELSE ctl.cur.at.set

HitNow    == Hit(LookupTag)
HitBlk    == [set |-> LookupSet, way |-> HitWay(LookupTag)]
VictimBlk == [set |-> LookupSet, way |-> VictimWay(LookupSet)]

CtlOut == [flushing |-> ctl.flushing, invalidating |-> ctl.invalidating,
           init_busy |-> ctl.st = "INIT_CLEAR", req_take |-> ReqTake,
           flush_take |-> FlushTake, inval_take |-> InvalTake,
           can_lookup |-> CanLookup, hit |-> HitNow]

CurLine    == [tag |-> ctl.cur.at.tag, set |-> ctl.cur.at.set]
VictimLine_fault == CurLine
VictimLine == [tag |-> ctl.victim_tag,
               set |-> IF ctl.flushing THEN ctl.scan.set ELSE ctl.cur.at.set]

ExtRd == ctl.st \in {"FILL_REQ", "FILL_STREAM"}
ExtWr == ctl.st \in {"WB_REQ", "WB_STREAM"}

-----------------------------------------------------------------------------
(* The registers the controller assigns in every clock: its strobes fall,  *)
(* and a probe that hit is answered two clocks after its lookup.           *)
Strobed ==
  LET quiet == [ctl EXCEPT !.ok = FALSE, !.flush_done = FALSE,
                           !.invalidate_done = FALSE,
                           !.resp_l = (req.probe = "resp")]
  IN IF req.probe = "lookup" /\ HitNow
       THEN [quiet EXCEPT !.probe_blk = HitBlk, !.probe_off = req.probe_at.off]
       ELSE quiet

(* A register that is written again before it is read is shown cleared.    *)
Live(c) ==
  [c EXCEPT
     !.cur        = IF c.st \in ServeStates /\ ~ c.flushing THEN @ ELSE NoRequest,
     !.victim_tag = IF c.st \in WriteBackStates THEN @ ELSE 0,
     !.scan       = IF c.flushing THEN @ ELSE ZeroBlock,
     !.probe_blk  = IF c.resp_l \/ req.probe = "lookup" THEN @ ELSE ZeroBlock,
     !.probe_off  = IF c.resp_l \/ req.probe = "lookup" THEN @ ELSE 0]

Becomes(c) ==
  ctl' = IF ctl.resp_l
           THEN [Live(c) EXCEPT !.ok = TRUE,
                                !.dout = data[ctl.probe_blk][ctl.probe_off]]
           ELSE Live(c)

Goto(s) == Becomes([Strobed EXCEPT !.st = s])

Clean(tag) == [valid |-> TRUE, dirty |-> FALSE, tag |-> tag]
Dirty_fault(tag) == [valid |-> TRUE, dirty |-> FALSE, tag |-> tag]
Dirty(tag) == [valid |-> TRUE, dirty |-> TRUE, tag |-> tag]

ClearDone_fault == ctl.clr_set + 2 >= Sets
ClearDone == ctl.clr_set = Sets-1

InitClear ==
  /\ ctl.st = "INIT_CLEAR"
  /\ TagsClear(TagRdSet, ctl.clr_set)
  /\ IF ClearDone THEN Goto("IDLE")
                  ELSE Becomes([Strobed EXCEPT !.clr_set = @ + 1])
  /\ UNCHANGED <<data, mem>>

Take ==
  /\ ReqTake
  /\ Becomes([Strobed EXCEPT !.cur = FrontReq, !.st = "LOOKUP"])
  /\ TagsRead(TagRdSet)
  /\ UNCHANGED <<data, mem>>

StartFlush ==
  /\ FlushTake
  /\ Becomes([Strobed EXCEPT !.flushing = TRUE, !.scan = ZeroBlock,
                             !.st = "FLUSH_CHECK"])
  /\ TagsRead(TagRdSet)
  /\ UNCHANGED <<data, mem>>

StartInvalidate ==
  /\ InvalTake
  /\ Becomes([Strobed EXCEPT !.invalidating = TRUE, !.clr_set = 0,
                             !.st = "INVAL_CLEAR"])
  /\ TagsRead(TagRdSet)
  /\ UNCHANGED <<data, mem>>

Rest ==
  /\ ctl.st = "IDLE" /\ ~ Valid /\ ~ FlushStart /\ ~ InvalidateStart
  /\ Becomes(Strobed)
  /\ TagsRead(TagRdSet)
  /\ UNCHANGED <<data, mem>>

LookupHit ==
  /\ ctl.st = "LOOKUP" /\ HitNow
  /\ Becomes([Strobed EXCEPT !.blk = HitBlk,
                             !.st = IF ctl.cur.wr THEN "WR_COMMIT" ELSE "RD_RESP"])
  /\ TagsRead(TagRdSet)
  /\ UNCHANGED <<data, mem>>

LookupMiss ==
  /\ ctl.st = "LOOKUP" /\ ~ HitNow
  /\ Becomes([Strobed EXCEPT !.blk = VictimBlk,
                             !.victim_tag = VictimTag(LookupSet),
                             !.st = IF VictimDirty(LookupSet) THEN "WB_LOAD"
                                                              ELSE "FILL_REQ"])
  /\ TagsAdvance(TagRdSet, ctl.cur.at.set, VictimWay(LookupSet))
  /\ UNCHANGED <<data, mem>>

RdResp_fault ==
  /\ ctl.st = "RD_RESP"
  /\ Goto("IDLE") /\ TagsRead(TagRdSet) /\ UNCHANGED <<data, mem>>

RdResp ==
  /\ ctl.st = "RD_RESP"
  /\ Becomes([Strobed EXCEPT !.dout = data[ctl.blk][ctl.cur.at.off],
                             !.ok = TRUE, !.st = "IDLE"])
  /\ TagsRead(TagRdSet)
  /\ UNCHANGED <<data, mem>>

WrCommit ==
  /\ ctl.st = "WR_COMMIT"
  /\ Becomes([Strobed EXCEPT !.ok = TRUE, !.st = "IDLE"])
  /\ TagsUpdate(TagRdSet, ctl.cur.at.set, ctl.blk.way, Dirty(ctl.cur.at.tag))
  /\ data' = [data EXCEPT ![ctl.blk][ctl.cur.at.off] = ctl.cur.din]
  /\ UNCHANGED mem

WbLoad ==
  /\ ctl.st = "WB_LOAD"
  /\ Goto("WB_PRIME") /\ TagsRead(TagRdSet) /\ UNCHANGED <<data, mem>>

WbPrime ==
  /\ ctl.st = "WB_PRIME"
  /\ Goto("WB_REQ") /\ TagsRead(TagRdSet) /\ UNCHANGED <<data, mem>>

WbReq(x) ==
  /\ ctl.st = "WB_REQ"
  /\ Goto(IF x.ack THEN "WB_STREAM" ELSE "WB_REQ")
  /\ TagsRead(TagRdSet) /\ UNCHANGED <<data, mem>>

WbStream(x) ==
  /\ ctl.st = "WB_STREAM"
  /\ Goto(IF x.rdy THEN "WB_GAP" ELSE "WB_STREAM")
  /\ mem' = IF x.rdy THEN [mem EXCEPT ![VictimLine] = data[ctl.blk]] ELSE mem
  /\ TagsRead(TagRdSet) /\ UNCHANGED data

WbGap_fault ==
  /\ ctl.st = "WB_GAP"
  /\ Goto(IF ctl.flushing THEN "FLUSH_ADVANCE" ELSE "FILL_REQ")
  /\ IF ctl.flushing
       THEN TagsUpdate(TagRdSet, ctl.scan.set, ctl.scan.way, NoEntry)
       ELSE TagsRead(TagRdSet)
  /\ UNCHANGED <<data, mem>>

WbGap ==
  /\ ctl.st = "WB_GAP"
  /\ Goto(IF ctl.flushing THEN "FLUSH_ADVANCE" ELSE "FILL_REQ")
  /\ IF ctl.flushing
       THEN TagsUpdate(TagRdSet, ctl.scan.set, ctl.scan.way, Clean(ctl.victim_tag))
       ELSE TagsRead(TagRdSet)
  /\ UNCHANGED <<data, mem>>

FillReq(x) ==
  /\ ctl.st = "FILL_REQ"
  /\ Goto(IF x.ack THEN "FILL_STREAM" ELSE "FILL_REQ")
  /\ TagsRead(TagRdSet) /\ UNCHANGED <<data, mem>>

FillStream(x) ==
  /\ ctl.st = "FILL_STREAM"
  /\ Goto(IF x.rdy THEN "POSTFILL_WAIT" ELSE "FILL_STREAM")
  /\ IF x.rdy
       THEN /\ data' = [data EXCEPT ![ctl.blk] = mem[CurLine]]
            /\ TagsUpdate(TagRdSet, ctl.cur.at.set, ctl.blk.way,
                          Clean(ctl.cur.at.tag))
       ELSE TagsRead(TagRdSet) /\ UNCHANGED data
  /\ UNCHANGED mem

PostFillWait ==
  /\ ctl.st = "POSTFILL_WAIT"
  /\ Goto(IF ctl.cur.wr THEN "WR_COMMIT" ELSE "RD_RESP")
  /\ TagsRead(TagRdSet) /\ UNCHANGED <<data, mem>>

FlushWait ==
  /\ ctl.st = "FLUSH_WAIT"
  /\ Goto("FLUSH_CHECK") /\ TagsRead(TagRdSet) /\ UNCHANGED <<data, mem>>

(* The scanned entry comes from the registered tags, its block from the    *)
(* set on the lookup port.                                                 *)
FlushCheck ==
  LET e == tags.q[ctl.scan.way] IN
  /\ ctl.st = "FLUSH_CHECK"
  /\ IF e.valid /\ e.dirty
       THEN Becomes([Strobed EXCEPT !.blk = [set |-> LookupSet, way |-> ctl.scan.way],
                                    !.victim_tag = e.tag, !.st = "WB_LOAD"])
       ELSE Goto("FLUSH_ADVANCE")
  /\ TagsRead(TagRdSet) /\ UNCHANGED <<data, mem>>

ScanLast == ctl.scan.way = Ways-1 /\ ctl.scan.set = Sets-1

NextScan == IF ctl.scan.way = Ways-1
              THEN [set |-> ctl.scan.set + 1, way |-> 0]
              ELSE [set |-> ctl.scan.set, way |-> ctl.scan.way + 1]

FlushAdvance ==
  /\ ctl.st = "FLUSH_ADVANCE"
  /\ Becomes(IF ScanLast
       THEN [Strobed EXCEPT !.flushing = FALSE, !.flush_done = TRUE, !.st = "IDLE"]
       ELSE [Strobed EXCEPT !.scan = NextScan, !.st = "FLUSH_WAIT"])
  /\ TagsRead(TagRdSet) /\ UNCHANGED <<data, mem>>

InvalClear ==
  /\ ctl.st = "INVAL_CLEAR"
  /\ TagsClear(TagRdSet, ctl.clr_set)
  /\ Becomes(IF ClearDone
       THEN [Strobed EXCEPT !.invalidating = FALSE, !.invalidate_done = TRUE,
                            !.st = "IDLE"]
       ELSE [Strobed EXCEPT !.clr_set = @ + 1])
  /\ UNCHANGED <<data, mem>>

(* One clock of the lane, given the answer x of the burst controller.      *)
CtlStep(x) ==
  \/ InitClear
  \/ Take
  \/ StartFlush
  \/ StartInvalidate
  \/ Rest
  \/ LookupHit
  \/ LookupMiss
  \/ RdResp
  \/ WrCommit
  \/ WbLoad
  \/ WbPrime
  \/ WbReq(x)
  \/ WbStream(x)
  \/ WbGap
  \/ FillReq(x)
  \/ FillStream(x)
  \/ PostFillWait
  \/ FlushWait
  \/ FlushCheck
  \/ FlushAdvance
  \/ InvalClear

CacheStep(x) == CtlStep(x) /\ ReqStep(CtlOut)

=============================================================================
