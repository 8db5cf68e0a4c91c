-------------------------- MODULE CacheRefinement --------------------------
(***************************************************************************)
(* A cache lane that is never invalidated is a store of words, WordStore,  *)
(* for every geometry and every overlap of requests and flushes: each step *)
(* of the lane is a step of the store, or none.  With it, what the         *)
(* requester is answered.                                                  *)
(***************************************************************************)
EXTENDS CacheProofs

-----------------------------------------------------------------------------
(* What such a lane keeps besides IInv.                                    *)

NothingInvalidated ==
  ~ port.invalidate /\ ~ req.invalidate_pending /\ ctl.st # "INVAL_CLEAR"

(* A probe compares the tags of its own set, as they are.                  *)
ProbeFresh == req.probe = "lookup" =>
  /\ ctl.flushing
  /\ \A w \in Way :
       /\ tags.q[w].valid = tags.ram[req.probe_at.set][w].valid
       /\ tags.q[w].tag = tags.ram[req.probe_at.set][w].tag

(* The line a probe has found stays in its block until the answer.         *)
Probing == req.probe = "resp" \/ ctl.resp_l

ProbeHeld == Probing =>
  /\ ctl.probe_blk.set = req.probe_at.set /\ ctl.probe_off = req.probe_at.off
  /\ Present(req.probe_at.set, ctl.probe_blk.way, req.probe_at.tag)

(* Its answer comes before that of a request can, and before a line moves. *)
ProbePhase ==
  /\ req.probe = "resp" => ctl.flushing \/ ctl.st = "IDLE"
  /\ ctl.resp_l => req.probe = "none" /\ (ctl.flushing \/ ctl.st \in {"IDLE", "LOOKUP"})

(* A read is answered from the block that holds its line.                  *)
AnswerPresent ==
  /\ ctl.st = "WR_COMMIT" => ctl.cur.wr
  /\ ctl.st = "RD_RESP" =>
       ~ ctl.cur.wr /\ Present(ctl.cur.at.set, ctl.blk.way, ctl.cur.at.tag)

(* Memory has the line that a fill is going to overwrite.                  *)
VictimSafe == ctl.st \in FillStates =>
  LET e == tags.ram[ctl.blk.set][ctl.blk.way] IN
  e.valid => data[ctl.blk] = mem[[tag |-> e.tag, set |-> ctl.blk.set]]

RInv == /\ IInv
        /\ NothingInvalidated
        /\ ProbeFresh /\ ProbeHeld /\ ProbePhase
        /\ AnswerPresent /\ VictimSafe

-----------------------------------------------------------------------------
(* What a step does to the registers.                                      *)

(* What the registers of the answers become, whatever the state.           *)
LEMMA Answering ==
  ASSUME CacheType, NEW x, CtlStep(x)
  PROVE  /\ ctl'.resp_l = (req.probe = "resp")
         /\ req.probe = "lookup" /\ HitNow =>
              ctl'.probe_blk = HitBlk /\ ctl'.probe_off = req.probe_at.off
         /\ req.probe = "resp" =>
              ctl'.probe_blk = ctl.probe_blk /\ ctl'.probe_off = ctl.probe_off
         /\ ctl'.ok = (ctl.resp_l \/ ctl.st \in {"RD_RESP", "WR_COMMIT"})
         /\ ctl'.dout = IF ctl.resp_l THEN data[ctl.probe_blk][ctl.probe_off]
                        ELSE IF ctl.st = "RD_RESP" THEN data[ctl.blk][ctl.cur.at.off]
                        ELSE ctl.dout
<1>a. ctl \in CtlRegs
  BY DEF CacheType, CtlType
<1>b. /\ Strobed \in CtlRegs /\ Strobed.st = ctl.st /\ Strobed.flushing = ctl.flushing
      /\ Strobed.cur = ctl.cur /\ Strobed.blk = ctl.blk
      /\ Strobed.ok = FALSE /\ Strobed.dout = ctl.dout
      /\ Strobed.resp_l = (req.probe = "resp")
      /\ req.probe = "lookup" /\ HitNow =>
           Strobed.probe_blk = HitBlk /\ Strobed.probe_off = req.probe_at.off
      /\ req.probe = "resp" =>
           Strobed.probe_blk = ctl.probe_blk /\ Strobed.probe_off = ctl.probe_off
  BY <1>a, StrobedFrame DEF Strobed, CtlRegs
<1> HIDE DEF Strobed
<1>1. CASE InitClear
  <2>1. ctl.st = "INIT_CLEAR"
    BY <1>1 DEF InitClear
  <2>2. CASE Goto("IDLE")
    BY <1>a, <1>b, <2>1, <2>2 DEF Goto, Becomes, Live, CtlRegs
  <2>3. CASE Becomes([Strobed EXCEPT !.clr_set = @ + 1])
    BY <1>a, <1>b, <2>1, <2>3 DEF Goto, Becomes, Live, CtlRegs
  <2> QED BY <1>1, <2>2, <2>3 DEF InitClear
<1>2. CASE Take
  BY <1>a, <1>b, <1>2 DEF Take, ReqTake, Becomes, Live, CtlRegs
<1>3. CASE StartFlush
  BY <1>a, <1>b, <1>3 DEF StartFlush, FlushTake, Becomes, Live, CtlRegs
<1>4. CASE StartInvalidate
  BY <1>a, <1>b, <1>4 DEF StartInvalidate, InvalTake, Becomes, Live, CtlRegs
<1>5. CASE Rest
  BY <1>a, <1>b, <1>5 DEF Rest, Becomes, Live, CtlRegs
<1>6. CASE LookupHit
  BY <1>a, <1>b, <1>6 DEF LookupHit, Becomes, Live, CtlRegs
<1>7. CASE LookupMiss
  BY <1>a, <1>b, <1>7 DEF LookupMiss, Becomes, Live, CtlRegs
<1>8. CASE RdResp
  BY <1>a, <1>b, <1>8 DEF RdResp, Becomes, Live, CtlRegs
<1>9. CASE WrCommit
  BY <1>a, <1>b, <1>9 DEF WrCommit, Becomes, Live, CtlRegs
<1>10. CASE WbLoad
  BY <1>a, <1>b, <1>10 DEF WbLoad, Goto, Becomes, Live, CtlRegs
<1>11. CASE WbPrime
  BY <1>a, <1>b, <1>11 DEF WbPrime, Goto, Becomes, Live, CtlRegs
<1>12. CASE WbReq(x)
  BY <1>a, <1>b, <1>12 DEF WbReq, Goto, Becomes, Live, CtlRegs
<1>13. CASE WbStream(x)
  BY <1>a, <1>b, <1>13 DEF WbStream, Goto, Becomes, Live, CtlRegs
<1>14. CASE WbGap
  BY <1>a, <1>b, <1>14 DEF WbGap, Goto, Becomes, Live, CtlRegs
<1>15. CASE FillReq(x)
  BY <1>a, <1>b, <1>15 DEF FillReq, Goto, Becomes, Live, CtlRegs
<1>16. CASE FillStream(x)
  BY <1>a, <1>b, <1>16 DEF FillStream, Goto, Becomes, Live, CtlRegs
<1>17. CASE PostFillWait
  BY <1>a, <1>b, <1>17 DEF PostFillWait, Goto, Becomes, Live, CtlRegs
<1>18. CASE FlushWait
  BY <1>a, <1>b, <1>18 DEF FlushWait, Goto, Becomes, Live, CtlRegs
<1>19. CASE FlushCheck
  <2>1. ctl.st = "FLUSH_CHECK"
    BY <1>19 DEF FlushCheck
  <2>2. CASE Becomes([Strobed EXCEPT !.blk = [set |-> LookupSet, way |-> ctl.scan.way],
                !.victim_tag = tags.q[ctl.scan.way].tag, !.st = "WB_LOAD"])
    BY <1>a, <1>b, <2>1, <2>2 DEF Goto, Becomes, Live, CtlRegs
  <2>3. CASE Goto("FLUSH_ADVANCE")
    BY <1>a, <1>b, <2>1, <2>3 DEF Goto, Becomes, Live, CtlRegs
  <2> QED BY <1>19, <2>2, <2>3 DEF FlushCheck
<1>20. CASE FlushAdvance
  BY <1>a, <1>b, <1>20 DEF FlushAdvance, Becomes, Live, CtlRegs
<1>21. CASE InvalClear
  BY <1>a, <1>b, <1>21 DEF InvalClear, Becomes, Live, CtlRegs
<1> QED BY <1>1, <1>2, <1>3, <1>4, <1>5, <1>6, <1>7, <1>8, <1>9, <1>10,
           <1>11, <1>12, <1>13, <1>14, <1>15, <1>16, <1>17, <1>18, <1>19,
           <1>20, <1>21 DEF CtlStep

-----------------------------------------------------------------------------
(* Where the controller goes, and what it keeps of a request on its way.    *)
LEMMA Moving ==
  ASSUME CacheType, FlushPhase, NEW x, CtlStep(x)
  PROVE  /\ Serving /\ ctl.st \notin {"RD_RESP", "WR_COMMIT"} => Serving' /\ ctl'.cur = ctl.cur
         /\ ctl.st \in {"RD_RESP", "WR_COMMIT"} => Serving /\ ~ Serving'
         /\ ReqTake => ~ Serving /\ Serving' /\ ctl'.cur = FrontReq
         /\ ~ Serving /\ ~ ReqTake => ~ Serving'
         /\ ctl.flushing => ctl'.flushing \/ ctl'.st = "IDLE"
         /\ ctl.flushing /\ ctl.st \in WriteBackStates => ctl'.flushing
         /\ ctl.st = "IDLE" => ctl'.flushing \/ ctl'.st \in {"IDLE", "LOOKUP", "INVAL_CLEAR"}
         /\ ctl'.st = "INVAL_CLEAR" => InvalTake \/ ctl.st = "INVAL_CLEAR"
         /\ ctl'.st = "INIT_CLEAR" => ctl.st = "INIT_CLEAR"
         /\ ctl'.st = "WR_COMMIT" => ctl.cur.wr /\ Serving
         /\ ctl'.st = "RD_RESP" => ~ ctl.cur.wr /\ ~ ctl.flushing /\
              \/ ctl.st = "LOOKUP" /\ HitNow /\ ctl'.blk = HitBlk
              \/ ctl.st = "POSTFILL_WAIT" /\ ctl'.blk = ctl.blk
         /\ ctl'.st \in FillStates => ~ ctl.flushing /\
              \/ ctl.st = "LOOKUP" /\ ~ VictimDirty(LookupSet) /\ ctl'.blk = VictimBlk
              \/ ctl.st \in {"WB_GAP"} \cup FillStates /\ ctl'.blk = ctl.blk
                 /\ TagsRead(TagRdSet) /\ data' = data /\ mem' = mem
<1>a. ctl \in CtlRegs
  BY DEF CacheType, CtlType
<1>b. /\ Strobed \in CtlRegs /\ Strobed.st = ctl.st /\ Strobed.flushing = ctl.flushing
      /\ Strobed.cur = ctl.cur /\ Strobed.blk = ctl.blk
  BY StrobedFrame
<1>c. {"LOOKUP", "RD_RESP", "WR_COMMIT", "WB_LOAD", "FILL_REQ"} \subseteq ServeStates
  BY DEF ServeStates, WriteBackStates, FillStates
<1> HIDE DEF Strobed
<1>1. CASE InitClear \/ InvalClear
  <2>1. ctl.st \in {"INIT_CLEAR", "INVAL_CLEAR"}
    BY <1>1 DEF InitClear, InvalClear
  <2>2. ctl'.flushing = ctl.flushing /\ ctl'.st \in {ctl.st, "IDLE"}
    <3>1. CASE Becomes([Strobed EXCEPT !.clr_set = @ + 1])
      BY <1>b, <3>1 DEF Becomes, Live, CtlRegs
    <3>2. CASE Becomes([Strobed EXCEPT !.invalidating = FALSE, !.invalidate_done = TRUE,
                                       !.st = "IDLE"])
      BY <1>b, <3>2 DEF Becomes, Live, CtlRegs
    <3>3. CASE Goto("IDLE")
      BY <1>b, <3>3 DEF Goto, Becomes, Live, CtlRegs
    <3> QED BY <1>1, <3>1, <3>2, <3>3 DEF InitClear, InvalClear
  <2> QED BY <2>1, <2>2 DEF Serving, ReqTake, FlushPhase, ServeStates, WriteBackStates, FillStates, FlushStates
<1>2. CASE Take
  <2>1. ctl.st = "IDLE" /\ ReqTake
    BY <1>2 DEF Take, ReqTake
  <2>2. ~ ctl.flushing
    BY <2>1 DEF FlushPhase, WriteBackStates, FlushStates
  <2>3. ctl'.flushing = ctl.flushing /\ ctl'.st = "LOOKUP" /\ ctl'.cur = FrontReq
    BY <1>2, <1>b, <1>c, <2>2 DEF Take, Becomes, Live, CtlRegs
  <2> QED BY <2>1, <2>2, <2>3 DEF Serving, ServeStates, WriteBackStates, FillStates, FlushStates
<1>3. CASE StartFlush \/ StartInvalidate \/ Rest
  <2>1. ctl.st = "IDLE" /\ ~ ReqTake
    BY <1>3 DEF StartFlush, StartInvalidate, Rest, FlushTake, InvalTake, ReqTake
  <2>2. ~ ctl.flushing
    BY <2>1 DEF FlushPhase, WriteBackStates, FlushStates
  <2>3. CASE StartFlush
    <3>1. ctl'.flushing /\ ctl'.st = "FLUSH_CHECK"
      BY <2>3, <1>b DEF StartFlush, Becomes, Live, CtlRegs
    <3> QED BY <2>1, <2>2, <3>1 DEF Serving, ServeStates, WriteBackStates, FillStates, FlushStates
  <2>4. CASE StartInvalidate
    <3>1. ctl'.flushing = ctl.flushing /\ ctl'.st = "INVAL_CLEAR" /\ InvalTake
      BY <2>4, <1>b DEF StartInvalidate, Becomes, Live, CtlRegs
    <3> QED BY <2>1, <2>2, <3>1 DEF Serving, ServeStates, WriteBackStates, FillStates, FlushStates
  <2>5. CASE Rest
    <3>1. ctl'.flushing = ctl.flushing /\ ctl'.st = ctl.st
      BY <2>5, <1>b DEF Rest, Becomes, Live, CtlRegs
    <3> QED BY <2>1, <2>2, <3>1 DEF Serving, ServeStates, WriteBackStates, FillStates, FlushStates
  <2> QED BY <1>3, <2>3, <2>4, <2>5
<1>4. CASE LookupHit \/ LookupMiss
  <2>1. ctl.st = "LOOKUP" /\ ~ ctl.flushing
    BY <1>4 DEF LookupHit, LookupMiss, FlushPhase, WriteBackStates, FlushStates
  <2>2. CASE LookupHit
    <3>1. /\ ctl'.flushing = ctl.flushing
          /\ ctl'.st = IF ctl.cur.wr THEN "WR_COMMIT" ELSE "RD_RESP"
          /\ ctl'.blk = HitBlk /\ ctl'.cur = ctl.cur /\ HitNow
      BY <2>2, <1>b, <1>c, <2>1 DEF LookupHit, Becomes, Live, CtlRegs
    <3> QED BY <2>1, <3>1 DEF Serving, ReqTake, ServeStates, WriteBackStates, FillStates, FlushStates
  <2>3. CASE LookupMiss
    <3>1. /\ ctl'.flushing = ctl.flushing
          /\ ctl'.st = IF VictimDirty(LookupSet) THEN "WB_LOAD" ELSE "FILL_REQ"
          /\ ctl'.blk = VictimBlk /\ ctl'.cur = ctl.cur
      BY <2>3, <1>b, <1>c, <2>1 DEF LookupMiss, Becomes, Live, CtlRegs
    <3> QED BY <2>1, <3>1 DEF Serving, ReqTake, ServeStates, WriteBackStates, FillStates, FlushStates
  <2> QED BY <1>4, <2>2, <2>3
<1>5. CASE RdResp \/ WrCommit
  <2>1. ctl.st \in {"RD_RESP", "WR_COMMIT"} /\ ~ ctl.flushing
    BY <1>5 DEF RdResp, WrCommit, FlushPhase, WriteBackStates, FlushStates
  <2>2. ctl'.flushing = ctl.flushing /\ ctl'.st = "IDLE"
    <3>1. CASE RdResp
      BY <3>1, <1>b DEF RdResp, Becomes, Live, CtlRegs
    <3>2. CASE WrCommit
      BY <3>2, <1>b DEF WrCommit, Becomes, Live, CtlRegs
    <3> QED BY <1>5, <3>1, <3>2
  <2> QED BY <2>1, <2>2 DEF Serving, ReqTake, ServeStates, WriteBackStates, FillStates, FlushStates
<1>6. CASE \/ WbLoad \/ WbPrime \/ WbReq(x) \/ WbStream(x) \/ WbGap
           \/ FillReq(x) \/ FillStream(x) \/ PostFillWait
  <2>1. PICK s \in States :
          /\ Goto(s)
          /\ \/ ctl.st \in WriteBackStates \ {"WB_GAP"} /\ s \in WriteBackStates
             \/ ctl.st = "WB_GAP" /\ s = (IF ctl.flushing THEN "FLUSH_ADVANCE" ELSE "FILL_REQ")
             \/ ctl.st \in FillStates /\ s \in FillStates \cup {"POSTFILL_WAIT"}
             \/ ctl.st = "POSTFILL_WAIT" /\ s = (IF ctl.cur.wr THEN "WR_COMMIT" ELSE "RD_RESP")
    BY <1>6 DEF WbLoad, WbPrime, WbReq, WbStream, WbGap, FillReq, FillStream, PostFillWait,
       States, ServeStates, WriteBackStates, FillStates, FlushStates
  <2>2. /\ ctl'.st = s /\ ctl'.flushing = ctl.flushing /\ ctl'.blk = ctl.blk
        /\ s \in ServeStates /\ ~ ctl.flushing => ctl'.cur = ctl.cur
    BY <2>1, GotoFrame
  <2>3. s \in FillStates => /\ ctl.st \in {"WB_GAP"} \cup FillStates /\ ~ ctl.flushing
                            /\ TagsRead(TagRdSet) /\ data' = data /\ mem' = mem
    <3>1. CASE s \in FillStates
      <4>1. ctl.st \in {"WB_GAP"} \cup FillStates /\ ~ ctl.flushing
        BY <2>1, <3>1 DEF WriteBackStates, FillStates, FlushStates, FlushPhase
      <4>2. CASE ctl.st = "FILL_STREAM"
        <5>1. FillStream(x) /\ ctl'.st # "POSTFILL_WAIT"
          BY <1>6, <2>2, <3>1, <4>2 DEF WbLoad, WbPrime, WbReq, WbStream, WbGap, FillReq, PostFillWait, FillStates
        <5>2. ~ x.rdy
          <6>1. "POSTFILL_WAIT" \in States
            BY DEF States, ServeStates
          <6>2. x.rdy => Goto("POSTFILL_WAIT")
            BY <5>1 DEF FillStream
          <6>3. Goto("POSTFILL_WAIT") => ctl'.st = "POSTFILL_WAIT"
            BY <6>1, GotoFrame
          <6> QED BY <5>1, <6>2, <6>3
        <5> QED BY <4>1, <5>1, <5>2 DEF FillStream
      <4>3. CASE ctl.st # "FILL_STREAM"
        BY <1>6, <4>1, <4>3 DEF WbLoad, WbPrime, WbReq, WbStream, WbGap, FillReq, FillStream,
           PostFillWait, FillStates
      <4> QED BY <4>2, <4>3
    <3> QED BY <3>1
  <2> QED BY <2>1, <2>2, <2>3 DEF Serving, ReqTake, ServeStates, WriteBackStates, FillStates, FlushStates, FlushPhase
<1>7. CASE FlushWait \/ FlushCheck \/ FlushAdvance
  <2>1. ctl.st \in FlushStates /\ ctl.flushing
    BY <1>7 DEF FlushWait, FlushCheck, FlushAdvance, FlushStates, FlushPhase
  <2>2. \/ ctl'.flushing /\ ctl'.st \in {"FLUSH_CHECK", "FLUSH_ADVANCE", "FLUSH_WAIT", "WB_LOAD"}
        \/ ~ ctl'.flushing /\ ctl'.st = "IDLE"
    <3>1. CASE Becomes([Strobed EXCEPT !.blk = [set |-> LookupSet, way |-> ctl.scan.way],
                 !.victim_tag = tags.q[ctl.scan.way].tag, !.st = "WB_LOAD"])
      BY <1>b, <2>1, <3>1 DEF Becomes, Live, CtlRegs
    <3>2. CASE Becomes([Strobed EXCEPT !.flushing = FALSE, !.flush_done = TRUE, !.st = "IDLE"])
      BY <1>b, <2>1, <3>2 DEF Becomes, Live, CtlRegs
    <3>3. CASE Becomes([Strobed EXCEPT !.scan = NextScan, !.st = "FLUSH_WAIT"])
      BY <1>b, <2>1, <3>3 DEF Becomes, Live, CtlRegs
    <3>4. CASE Goto("FLUSH_CHECK")
      BY <1>b, <2>1, <3>4 DEF Goto, Becomes, Live, CtlRegs
    <3>5. CASE Goto("FLUSH_ADVANCE")
      BY <1>b, <2>1, <3>5 DEF Goto, Becomes, Live, CtlRegs
    <3> QED BY <1>7, <3>1, <3>2, <3>3, <3>4, <3>5 DEF FlushWait, FlushCheck, FlushAdvance
  <2> QED BY <2>1, <2>2 DEF Serving, ReqTake, ServeStates, WriteBackStates, FillStates, FlushStates
<1> QED BY <1>1, <1>2, <1>3, <1>4, <1>5, <1>6, <1>7 DEF CtlStep

(* Where a probe goes, and that it keeps its address until it is answered.  *)
LEMMA ProbeMoves ==
  ASSUME CacheType, ReqStep(CtlOut)
  PROVE  /\ req'.probe = "lookup" => CanLookup /\ req'.probe_at = req.probe_at
         /\ req'.probe = "resp" <=> req.probe = "lookup" /\ HitNow
         /\ req'.probe = "resp" => req'.probe_at = req.probe_at
         /\ req.probe = "resp" => req'.probe = "none" /\ req'.probe_at = req.probe_at
         /\ req'.invalidate_pending => port.invalidate \/ req.invalidate_pending
<1> DEFINE i == CtlOut
<1>1. /\ req'.probe = ProbeNext(i) /\ req'.probe_at = ProbeAtNext(i)
      /\ req'.invalidate_pending => InvalidateRise \/ req.invalidate_pending
  BY DEF ReqStep
<1>2. /\ i.can_lookup = CanLookup /\ i.hit = HitNow
      /\ CanLookup => req.probe = "pending"
      /\ ProbeAccept(i) => req.probe = "none"
      /\ HitNow \in BOOLEAN
  BY LookupType DEF CtlOut, CanLookup, ProbeAccept
<1>3. req.probe \in {"none", "pending", "lookup", "resp"}
  BY DEF CacheType, ReqType, ReqRegs
<1> HIDE DEF i
<1>4. CASE req.probe = "none"
  <2>1. ProbeNext(i) \in {"none", "pending"}
    BY <1>2, <1>4 DEF ProbeNext
  <2> QED BY <1>1, <1>4, <2>1 DEF InvalidateRise
<1>5. CASE req.probe = "pending"
  <2>1. ProbeNext(i) \in {"none", "pending", "lookup"} /\ (ProbeNext(i) = "lookup" => CanLookup)
    BY <1>2, <1>5 DEF ProbeNext
  <2>2. ~ ProbeAccept(i)
    BY <1>2, <1>5
  <2>3. ProbeNext(i) # "none" => ProbeAtNext(i) = req.probe_at
    BY <2>2 DEF ProbeAtNext
  <2> QED BY <1>1, <1>5, <2>1, <2>3 DEF InvalidateRise
<1>6. CASE req.probe = "lookup"
  <2>1. ProbeNext(i) = IF HitNow THEN "resp" ELSE "none"
    BY <1>2, <1>6 DEF ProbeNext
  <2>2. ~ ProbeAccept(i)
    BY <1>2, <1>6
  <2>3. ProbeNext(i) # "none" => ProbeAtNext(i) = req.probe_at
    BY <2>2 DEF ProbeAtNext
  <2> QED BY <1>1, <1>6, <2>1, <2>3 DEF InvalidateRise
<1>7. CASE req.probe = "resp"
  <2>1. ProbeNext(i) = "none"
    BY <1>2, <1>7 DEF ProbeNext
  <2>2. ~ ProbeAccept(i)
    BY <1>2, <1>7
  <2>3. ProbeAtNext(i) = req.probe_at
    BY <1>7, <2>2 DEF ProbeAtNext
  <2> QED BY <1>1, <1>7, <2>1, <2>3 DEF InvalidateRise
<1> QED BY <1>3, <1>4, <1>5, <1>6, <1>7

(* A requester that does not use invalidate never raises it.                *)
LEMMA PortQuiet ==
  ASSUME TypeOK, ClientStep, "invalidate" \notin Uses
  PROVE  ~ port'.invalidate
<1>1. PICK r \in Requests : port' \in Drains(r)
  BY DEF ClientStep
<1>2. r \in Port
  BY <1>1, RequestsType
<1>3. PICK d \in {"none"} \cup {u \in Uses \cap {"flush", "invalidate"} : MayDrain(r)} :
        port' = [r EXCEPT !.flush = (d = "flush"), !.invalidate = (d = "invalidate")]
  BY <1>1 DEF Drains
<1>4. d # "invalidate"
  BY <1>3
<1> QED BY <1>2, <1>3, <1>4 DEF Port

(* No line moves while a flush runs, nor before a request has been looked up. *)
LEMMA LinesStay ==
  ASSUME IInv, Next, ctl.flushing \/ ctl.st \in {"IDLE", "LOOKUP"}
  PROVE  LinesKept
<1>1. CASE ctl.flushing
  BY <1>1, FlushKeeps
<1>2. CASE ctl.st \in {"IDLE", "LOOKUP"}
  <2>1. PICK x \in Answers : CtlStep(x) /\ ReqStep(CtlOut)
    BY DEF Next, CacheStep
  <2>2. \/ Take \/ StartFlush \/ StartInvalidate \/ Rest
        \/ LookupHit \/ LookupMiss
    BY <1>2, <2>1 DEF CtlStep, InitClear, RdResp, WrCommit, WbLoad, WbPrime, WbReq, WbStream,
       WbGap, FillReq, FillStream, PostFillWait, FlushWait, FlushCheck, FlushAdvance, InvalClear
  <2>3. StoreKept
    BY <2>1, <2>2, IdleStep, LookupStep
  <2> QED BY <2>3 DEF StoreKept, LinesKept
<1> QED BY <1>1, <1>2

-----------------------------------------------------------------------------
(* The invariant.                                                          *)

(* It holds of a lane that has just been reset. *)
LEMMA RInvInit == Init => RInv
<1> SUFFICES ASSUME Init PROVE RInv
  OBVIOUS
<1>1. IInv
  BY InvInit
<1>2. /\ ctl.st = "INIT_CLEAR" /\ ~ ctl.resp_l
      /\ req.probe = "none" /\ ~ req.invalidate_pending /\ ~ port.invalidate
  BY DEF Init, CacheInit, ReqInit, Quiet
<1> QED BY <1>1, <1>2 DEF RInv, NothingInvalidated, ProbeFresh, ProbeHeld, ProbePhase, Probing,
      AnswerPresent, VictimSafe, FillStates

(* A clock of a lane keeps what the probe relies on. *)
LEMMA ProbeStep ==
  ASSUME RInv, Next, ctl'.st # "INVAL_CLEAR"
  PROVE  ProbeFresh' /\ ProbeHeld' /\ ProbePhase'
<1>1. PICK x \in Answers : CtlStep(x) /\ ReqStep(CtlOut)
  BY DEF Next, CacheStep
<1>2. CacheType /\ TagsType /\ FlushPhase
  BY DEF RInv, IInv, TypeOK, CacheType
<1>3. /\ req'.probe = "lookup" => CanLookup /\ req'.probe_at = req.probe_at
      /\ req'.probe = "resp" <=> req.probe = "lookup" /\ HitNow
      /\ req'.probe = "resp" => req'.probe_at = req.probe_at
      /\ req.probe = "resp" => req'.probe = "none" /\ req'.probe_at = req.probe_at
  BY <1>1, <1>2, ProbeMoves
<1>4. /\ ctl'.resp_l = (req.probe = "resp")
      /\ req.probe = "lookup" /\ HitNow =>
           ctl'.probe_blk = HitBlk /\ ctl'.probe_off = req.probe_at.off
      /\ req.probe = "resp" =>
           ctl'.probe_blk = ctl.probe_blk /\ ctl'.probe_off = ctl.probe_off
  BY <1>1, <1>2, Answering
<1>5. /\ ctl.flushing => ctl'.flushing \/ ctl'.st = "IDLE"
      /\ ctl.flushing /\ ctl.st \in WriteBackStates => ctl'.flushing
      /\ ctl.st = "IDLE" => ctl'.flushing \/ ctl'.st \in {"IDLE", "LOOKUP", "INVAL_CLEAR"}
  BY <1>1, <1>2, Moving
<1>6. ProbePhase'
  BY <1>3, <1>4, <1>5 DEF RInv, ProbePhase, ProbeFresh
<1>7. ProbeFresh'
  <2> SUFFICES ASSUME req'.probe = "lookup" PROVE ProbeFresh'
    BY DEF ProbeFresh
  <2>1. /\ CanLookup /\ req'.probe_at = req.probe_at
        /\ ctl.flushing /\ ctl.st \in WriteBackStates /\ ~ ReqTake
    BY <1>3 DEF CanLookup, ReqTake, WriteBackStates
  <2>2. TagRdSet = req.probe_at.set /\ TagRdSet \in Set
    <3>1. TagRdSet \in Set
      BY <1>2, LookupType
    <3>2. ~ FlushTake
      BY <2>1 DEF FlushTake, WriteBackStates
    <3>3. TagRdSet = req.probe_at.set
      BY <2>1, <3>2, Zenon DEF TagRdSet
    <3> QED BY <3>1, <3>3
  <2>3. tags'.q = tags.ram[TagRdSet]
    <3>1. CASE WbGap
      <4>1. TagsUpdate(TagRdSet, ctl.scan.set, ctl.scan.way, Clean(ctl.victim_tag))
        BY <2>1, <3>1 DEF WbGap
      <4> QED BY <1>2, <4>1 DEF TagsUpdate, TagsType, TagStore
    <3>2. CASE WbLoad \/ WbPrime \/ WbReq(x) \/ WbStream(x)
      BY <1>2, <2>2, <3>2, ReadEffect DEF WbLoad, WbPrime, WbReq, WbStream
    <3>3. WbGap \/ (WbLoad \/ WbPrime \/ WbReq(x) \/ WbStream(x))
      BY <1>1, <2>1 DEF CtlStep, InitClear, Take, StartFlush, StartInvalidate, Rest,
         LookupHit, LookupMiss, RdResp, WrCommit, FillReq, FillStream, PostFillWait,
         InvalClear, ReqTake, FlushTake, InvalTake, FlushWait, FlushCheck, FlushAdvance,
         WriteBackStates
    <3> QED BY <3>1, <3>2, <3>3
  <2>4. LinesKept
    BY <2>1, LinesStay DEF RInv
  <2> QED BY <1>5, <2>1, <2>2, <2>3, <2>4 DEF ProbeFresh, LinesKept
<1>8. ProbeHeld'
  <2>1. CASE req'.probe = "resp"
    <3>1. /\ req.probe = "lookup" /\ HitNow /\ ctl.flushing
          /\ req'.probe_at = req.probe_at
          /\ ctl'.probe_blk = HitBlk /\ ctl'.probe_off = req.probe_at.off
      BY <1>3, <1>4, <2>1 DEF RInv, ProbeFresh
    <3>2. LinesKept
      BY <3>1, LinesStay DEF RInv
    <3>3. /\ LookupSet = req.probe_at.set /\ LookupTag = req.probe_at.tag
          /\ req.probe_at.set \in Set
      BY <1>2, <3>1 DEF LookupSet, LookupTag, CacheType, ReqType, ReqRegs, Addr
    <3>4. /\ HitBlk.set = req.probe_at.set /\ HitBlk.way = HitWay(LookupTag)
          /\ HitWay(LookupTag) \in Way
          /\ tags.q[HitWay(LookupTag)].valid /\ tags.q[HitWay(LookupTag)].tag = LookupTag
      BY <3>1, <3>3, HitWayMatches DEF HitBlk, HitNow
    <3>5. Present(req.probe_at.set, HitBlk.way, req.probe_at.tag)
      BY <3>1, <3>3, <3>4 DEF RInv, ProbeFresh, Present
    <3> QED BY <3>1, <3>2, <3>3, <3>4, <3>5 DEF ProbeHeld, LinesKept, Present
  <2>2. CASE ctl'.resp_l
    <3>1. /\ req.probe = "resp" /\ req'.probe_at = req.probe_at
          /\ ctl'.probe_blk = ctl.probe_blk /\ ctl'.probe_off = ctl.probe_off
          /\ ctl.flushing \/ ctl.st = "IDLE"
      BY <1>3, <1>4, <2>2 DEF RInv, ProbePhase
    <3>2. LinesKept
      BY <3>1, LinesStay DEF RInv
    <3>3. req.probe_at.set \in Set /\ ctl.probe_blk.way \in Way
      BY <1>2 DEF CacheType, ReqType, ReqRegs, CtlType, CtlRegs, Addr, Block
    <3>4. /\ ctl.probe_blk.set = req.probe_at.set /\ ctl.probe_off = req.probe_at.off
          /\ Present(req.probe_at.set, ctl.probe_blk.way, req.probe_at.tag)
      BY <3>1 DEF RInv, ProbeHeld, Probing
    <3> DEFINE s == req.probe_at.set
               w == ctl.probe_blk.way
               t == req.probe_at.tag
    <3>5. /\ tags'.ram[s][w].valid = tags.ram[s][w].valid
          /\ tags'.ram[s][w].tag = tags.ram[s][w].tag
      BY <3>2, <3>3 DEF LinesKept
    <3>6. tags'.ram[s][w].valid /\ tags'.ram[s][w].tag = t
      BY <3>4, <3>5, Zenon DEF Present
    <3>7. req'.probe_at.set = s /\ ctl'.probe_blk.way = w /\ req'.probe_at.tag = t
      BY <3>1
    <3>8. Present(req.probe_at.set, ctl.probe_blk.way, req.probe_at.tag)'
      BY <3>6, <3>7 DEF Present
    <3> QED BY <3>1, <3>4, <3>8 DEF ProbeHeld
  <2>3. CASE ~ Probing'
    BY <2>3 DEF ProbeHeld
  <2>4. Probing' => req'.probe = "resp" \/ ctl'.resp_l
    BY DEF Probing
  <2> QED BY <2>1, <2>2, <2>3, <2>4
<1> QED BY <1>6, <1>7, <1>8

(* A clock of a lane keeps what an answer and a fill rely on. *)
LEMMA AnswerStep ==
  ASSUME RInv, Next
  PROVE  AnswerPresent' /\ VictimSafe'
<1>1. PICK x \in Answers : CtlStep(x) /\ ReqStep(CtlOut)
  BY DEF Next, CacheStep
<1>2. /\ IInv /\ CacheType /\ TagsType /\ FlushPhase /\ ctl \in CtlRegs
      /\ TagRdSet \in Set /\ LookupFresh /\ CleanMatchesMemory /\ BlkPlaced
  BY LookupType DEF RInv, IInv, TypeOK, CacheType, CtlType
<1>3. FlushPhase'
  BY <1>2, InvNext DEF IInv
<1> USE DEF ServeStates, WriteBackStates, FillStates, FlushStates
<1>4. /\ Serving /\ ctl.st \notin {"RD_RESP", "WR_COMMIT"} => Serving' /\ ctl'.cur = ctl.cur
      /\ ctl.st \in {"RD_RESP", "WR_COMMIT"} => Serving /\ ~ Serving'
      /\ ctl'.st = "WR_COMMIT" => ctl.cur.wr /\ Serving
      /\ ctl'.st = "RD_RESP" => ~ ctl.cur.wr /\ ~ ctl.flushing /\
           \/ ctl.st = "LOOKUP" /\ HitNow /\ ctl'.blk = HitBlk
           \/ ctl.st = "POSTFILL_WAIT" /\ ctl'.blk = ctl.blk
      /\ ctl'.st \in FillStates => ~ ctl.flushing /\
           \/ ctl.st = "LOOKUP" /\ ~ VictimDirty(LookupSet) /\ ctl'.blk = VictimBlk
           \/ ctl.st \in {"WB_GAP"} \cup FillStates /\ ctl'.blk = ctl.blk
              /\ TagsRead(TagRdSet) /\ data' = data /\ mem' = mem
  BY <1>1, <1>2, Moving
\* The tags that a lookup compares are those of the request's set.
<1>5. ASSUME ctl.st = "LOOKUP"
      PROVE  /\ tags.q = tags.ram[ctl.cur.at.set] /\ StoreKept
             /\ LookupSet = ctl.cur.at.set /\ LookupTag = ctl.cur.at.tag
             /\ ctl.cur.at.set \in Set
  <2>1. ~ ctl.flushing /\ req.probe # "lookup" /\ tags.q = tags.ram[ctl.cur.at.set]
    BY <1>2, <1>5 DEF FlushPhase, LookupFresh
  <2>2. LookupHit \/ LookupMiss
    BY <1>1, <1>5 DEF CtlStep, InitClear, Take, StartFlush, StartInvalidate, Rest, RdResp, WrCommit,
       WbLoad, WbPrime, WbReq, WbStream, WbGap, FillReq, FillStream, PostFillWait, FlushWait,
       FlushCheck, FlushAdvance, InvalClear, ReqTake, FlushTake, InvalTake
  <2>3. StoreKept
    BY <1>1, <1>2, <2>2, LookupStep
  <2>4. ctl.cur.at.set \in Set
    BY <1>2 DEF CtlRegs, Request, Addr
  <2> QED BY <2>1, <2>3, <2>4 DEF LookupSet, LookupTag
<1>6. CASE ctl'.st = "WR_COMMIT"
  <2>1. Serving' /\ ctl.cur.wr /\ Serving
    BY <1>3, <1>4, <1>6 DEF Serving, FlushPhase
  <2>2. ctl'.cur = ctl.cur
    BY <1>4, <2>1
  <2> QED BY <1>6, <2>1, <2>2 DEF AnswerPresent, VictimSafe
<1>7. CASE ctl'.st = "RD_RESP"
  <2>1. ~ ctl.cur.wr /\ Serving /\ ctl'.cur = ctl.cur
    BY <1>4, <1>7 DEF Serving
  <2>2. CASE ctl.st = "LOOKUP" /\ HitNow /\ ctl'.blk = HitBlk
    <3>1. Present(ctl.cur.at.set, HitBlk.way, ctl.cur.at.tag)
      BY <1>5, <2>2, HitWayMatches DEF HitBlk, HitNow, Present
    <3> QED BY <1>5, <1>7, <2>1, <2>2, <3>1 DEF AnswerPresent, VictimSafe, Present, StoreKept
  <2>3. CASE ctl.st = "POSTFILL_WAIT" /\ ctl'.blk = ctl.blk
    <3>1. PostFillWait
      BY <1>1, <2>3 DEF CtlStep, InitClear, Take, StartFlush, StartInvalidate, Rest, RdResp, WrCommit,
         WbLoad, WbPrime, WbReq, WbStream, WbGap, FillReq, FillStream, FlushWait, LookupHit,
         LookupMiss, FlushCheck, FlushAdvance, InvalClear, ReqTake, FlushTake, InvalTake
    <3>2. tags'.ram = tags.ram
      BY <1>2, <3>1, ReadEffect DEF PostFillWait
    <3>3. Present(ctl.cur.at.set, ctl.blk.way, ctl.cur.at.tag)
      BY <2>3 DEF RInv, IInv, FillPresent
    <3> QED BY <1>7, <2>1, <2>3, <3>2, <3>3 DEF AnswerPresent, VictimSafe, Present
  <2> QED BY <1>4, <1>7, <2>2, <2>3
<1>8. CASE ctl'.st \in FillStates
  <2>1. CASE ctl.st = "LOOKUP" /\ ~ VictimDirty(LookupSet) /\ ctl'.blk = VictimBlk
    <3> DEFINE s == ctl.cur.at.set
               w == VictimWay(s)
    <3>1. /\ s \in Set /\ w \in Way /\ VictimBlk \in Block
          /\ VictimBlk = [set |-> s, way |-> w] /\ ~ VictimDirty(s)
          /\ tags.q = tags.ram[s] /\ StoreKept
      BY <1>2, <1>5, <2>1, VictimType, LookupType DEF VictimBlk
    <3>2. tags.ram[s][w].valid => ~ tags.ram[s][w].dirty
      <4>1. CASE Invalid = {}
        BY <3>1, <4>1 DEF VictimDirty, VictimWay
      <4>2. CASE Invalid # {}
        <5>1. \E v \in Invalid : \A u \in Invalid : v <= u
          BY <4>2, LeastWay DEF Invalid
        <5>2. w \in Invalid
          BY <4>2, <5>1 DEF VictimWay
        <5> QED BY <3>1, <5>2 DEF Invalid
      <4> QED BY <4>1, <4>2
    <3>3. tags.ram[s][w].valid =>
            data[VictimBlk] = mem[[tag |-> tags.ram[s][w].tag, set |-> s]]
      <4>1. VictimBlk.set = s /\ VictimBlk.way = w
        BY <3>1
      <4>2. ASSUME NEW b \in Block, tags.ram[b.set][b.way].valid, ~ tags.ram[b.set][b.way].dirty
            PROVE  data[b] = mem[[tag |-> tags.ram[b.set][b.way].tag, set |-> b.set]]
        BY <1>2, <2>1, <4>2 DEF CleanMatchesMemory
      <4> HIDE DEF s, w
      <4>3. VictimBlk \in Block
        BY <3>1
      <4> QED BY <3>2, <4>1, <4>2, <4>3
    <3> QED BY <1>8, <2>1, <3>1, <3>3 DEF VictimSafe, AnswerPresent, StoreKept
  <2>2. CASE /\ ctl.st \in {"WB_GAP"} \cup FillStates /\ ctl'.blk = ctl.blk
             /\ TagsRead(TagRdSet) /\ data' = data /\ mem' = mem
    <3>1. tags'.ram = tags.ram
      BY <1>2, <2>2, ReadEffect
    <3> DEFINE e == tags.ram[ctl.blk.set][ctl.blk.way]
    <3>2. e.valid => data[ctl.blk] = mem[[tag |-> e.tag, set |-> ctl.blk.set]]
      <4>1. CASE ctl.st = "WB_GAP"
        <5>1. ~ ctl.flushing /\ ctl.blk.set = ctl.cur.at.set
          BY <1>2, <1>4, <1>8, <4>1 DEF BlkPlaced
        <5>2. mem[VictimLine] = data[ctl.blk] /\ e.tag = ctl.victim_tag
          BY <4>1 DEF RInv, IInv, WrittenBack, VictimHeld, Present
        <5>3. VictimLine = [tag |-> e.tag, set |-> ctl.blk.set]
          BY <5>1, <5>2 DEF VictimLine
        <5> QED BY <5>2, <5>3
      <4>2. CASE ctl.st \in FillStates
        BY <4>2 DEF RInv, VictimSafe
      <4> QED BY <2>2, <4>1, <4>2
    <3> QED BY <1>8, <2>2, <3>1, <3>2 DEF VictimSafe, AnswerPresent
  <2> QED BY <1>4, <1>8, <2>1, <2>2
<1>9. CASE ctl'.st \notin {"WR_COMMIT", "RD_RESP"} \cup FillStates
  BY <1>9 DEF VictimSafe, AnswerPresent
<1> QED BY <1>6, <1>7, <1>8, <1>9

(* Every clock of a lane that is never invalidated keeps the invariant. *)
LEMMA RInvNext ==
  ASSUME "invalidate" \notin Uses, RInv, [Next]_vars
  PROVE  RInv'
<1>1. CASE UNCHANGED vars
  <2>1. IInv'
    BY InvNext DEF RInv
  <2> QED BY <1>1, <2>1 DEF vars, RInv, NothingInvalidated, ProbeFresh, ProbeHeld, ProbePhase,
        Probing, AnswerPresent, VictimSafe, Present
<1>2. CASE Next
  <2>1. PICK x \in Answers : CtlStep(x) /\ ReqStep(CtlOut) /\ ClientStep
    BY <1>2 DEF Next, CacheStep
  <2>2. CacheType /\ TypeOK /\ FlushPhase /\ IInv'
    BY InvNext DEF RInv, IInv, TypeOK
  <2>3. NothingInvalidated'
    <3>1. ~ port'.invalidate
      BY <2>1, <2>2, PortQuiet
    <3>2. ~ req'.invalidate_pending
      BY <2>1, <2>2, ProbeMoves DEF RInv, NothingInvalidated
    <3>3. ctl'.st = "INVAL_CLEAR" => InvalTake \/ ctl.st = "INVAL_CLEAR"
      BY <2>1, <2>2, Moving
    <3>4. ~ InvalTake
      BY DEF RInv, NothingInvalidated, InvalTake, InvalidateStart, InvalidateRise
    <3> QED BY <3>1, <3>2, <3>3, <3>4 DEF RInv, NothingInvalidated
  <2>4. ProbeFresh' /\ ProbeHeld' /\ ProbePhase'
    BY <1>2, <2>3, ProbeStep DEF NothingInvalidated
  <2>5. AnswerPresent' /\ VictimSafe'
    BY <1>2, AnswerStep
  <2> QED BY <2>2, <2>3, <2>4, <2>5 DEF RInv
<1> QED BY <1>1, <1>2

-----------------------------------------------------------------------------
(* The words of the store.                                                 *)

(* A word is in the way that holds its line, or in memory.                 *)
AsStored ==
  ctl.st # "INIT_CLEAR" => \A a \in Addr :
    /\ (\A w \in Way : ~ Present(a.set, w, a.tag)) => Stored[a] = mem[LineOf(a)][a.off]
    /\ \A w \in Way : Present(a.set, w, a.tag) =>
         Stored[a] = data[[set |-> a.set, way |-> w]][a.off]

(* The mapping of the refinement says so, since a line is in one way only. *)
LEMMA Word == UniqueTags => AsStored
<1> SUFFICES ASSUME UniqueTags, ctl.st # "INIT_CLEAR", NEW a \in Addr
             PROVE  /\ (\A w \in Way : ~ Present(a.set, w, a.tag)) =>
                         Stored[a] = mem[LineOf(a)][a.off]
                    /\ \A w \in Way : Present(a.set, w, a.tag) =>
                         Stored[a] = data[[set |-> a.set, way |-> w]][a.off]
  BY DEF AsStored
<1>1. \A w : w \in Holders(a) <=> w \in Way /\ Present(a.set, w, a.tag)
  BY DEF Holders, Present
<1>2. ASSUME \A w \in Way : ~ Present(a.set, w, a.tag)
      PROVE  Stored[a] = mem[LineOf(a)][a.off]
  <2>1. Holders(a) = {}
    BY <1>1, <1>2
  <2> QED BY <2>1 DEF Stored
<1>3. ASSUME NEW w \in Way, Present(a.set, w, a.tag)
      PROVE  Stored[a] = data[[set |-> a.set, way |-> w]][a.off]
  <2>1. w \in Holders(a)
    BY <1>1, <1>3
  <2>2. (CHOOSE v \in Holders(a) : TRUE) \in Holders(a)
    BY <2>1
  <2>3. (CHOOSE v \in Holders(a) : TRUE) = w
    BY <1>1, <1>3, <2>2 DEF UniqueTags, Present, Addr
  <2>4. Holders(a) # {}
    BY <2>1
  <2> QED BY <2>3, <2>4 DEF Stored
<1> QED BY <1>2, <1>3

(* It does so after every step. *)
LEMMA WordNext == UniqueTags' => AsStored'
BY Word, PTL

(* Two stores are one when all of their words are. *)
LEMMA SameWords ==
  ASSUME NEW s, s = [a \in Addr |-> s[a]], \A a \in Addr : Stored'[a] = s[a]
  PROVE  Stored' = s
<1>1. Stored' = [a \in Addr |-> Stored'[a]]
  BY DEF Stored
<1> QED BY <1>1

(* A step that moves nothing changes no word. *)
LEMMA KeptWords ==
  ASSUME LinesKept, mem' = mem, ctl.st = "INIT_CLEAR" <=> ctl'.st = "INIT_CLEAR"
  PROVE  Stored' = Stored
<1>1. ASSUME NEW a \in Addr PROVE Stored'[a] = Stored[a]
  <2>1. a.set \in Set
    BY DEF Addr
  <2>2. Holders(a)' = Holders(a)
    <3>1. ASSUME NEW w \in Way
          PROVE  /\ tags'.ram[a.set][w].valid = tags.ram[a.set][w].valid
                 /\ tags'.ram[a.set][w].tag = tags.ram[a.set][w].tag
      BY <2>1 DEF LinesKept
    <3>2. Holders(a)' = {w \in Way : /\ ctl'.st # "INIT_CLEAR"
                                     /\ tags'.ram[a.set][w].valid
                                     /\ tags'.ram[a.set][w].tag = a.tag}
      BY DEF Holders
    <3> QED BY <3>1, <3>2 DEF Holders
  <2>3. data' = data
    BY DEF LinesKept
  <2> QED BY <2>2, <2>3 DEF Stored
<1>2. Stored = [a \in Addr |-> Stored[a]]
  BY DEF Stored
<1> QED BY <1>1, <1>2, SameWords

(* The clear after reset, in which nothing is held, changes no word. *)
LEMMA ClearedWords ==
  ASSUME IInv, InitClear
  PROVE  Stored' = Stored
<1>1. /\ ctl.st = "INIT_CLEAR" /\ CacheType /\ TagsType /\ TagRdSet \in Set
      /\ ctl.clr_set \in Set /\ mem' = mem
  BY LookupType DEF IInv, TypeOK, CacheType, CtlType, CtlRegs, InitClear
<1>2. ASSUME NEW a \in Addr PROVE Stored'[a] = Stored[a]
  <2>1. Holders(a) = {}
    BY <1>1 DEF Holders
  <2>2. Holders(a)' = {}
    <3>1. CASE ClearDone
      <4>1. ASSUME NEW w \in Way PROVE ~ tags'.ram[a.set][w].valid
        <5>1. tags'.ram[a.set][w] = IF a.set = ctl.clr_set THEN NoEntry ELSE tags.ram[a.set][w]
          BY <1>1, ClearEffect DEF InitClear, Addr
        <5>2. a.set # ctl.clr_set => a.set < ctl.clr_set
          BY <3>1, GeometryAssumption DEF ClearDone, Addr, Set
        <5>3. a.set # ctl.clr_set => ~ tags.ram[a.set][w].valid
          BY <1>1, <5>2 DEF IInv, Cleared, Addr
        <5> QED BY <5>1, <5>3 DEF NoEntry
      <4> QED BY <4>1 DEF Holders
    <3>2. CASE ~ ClearDone
      <4> DEFINE c == [Strobed EXCEPT !.clr_set = @ + 1]
      <4>1. Becomes(c)
        BY <3>2 DEF InitClear
      <4>2. c.st = "INIT_CLEAR"
        <5> HIDE DEF Strobed
        <5>1. Strobed \in CtlRegs /\ Strobed.st = ctl.st
          BY <1>1, StrobedFrame
        <5> QED BY <1>1, <5>1 DEF CtlRegs
      <4> HIDE DEF c
      <4>3. ctl'.st = "INIT_CLEAR"
        BY <4>1, <4>2 DEF Becomes, Live
      <4> QED BY <4>3 DEF Holders
    <3> QED BY <3>1, <3>2
  <2> QED BY <1>1, <2>1, <2>2 DEF Stored
<1>3. Stored = [a \in Addr |-> Stored[a]]
  BY DEF Stored
<1> QED BY <1>2, <1>3, SameWords

(* A write-back changes memory under a line that the lane holds. *)
LEMMA WbWords ==
  ASSUME IInv, IInv', NEW x, WbStream(x), x.rdy, ctl'.st # "INIT_CLEAR"
  PROVE  Stored' = Stored
<1> DEFINE b == ctl.blk
<1>1. /\ CacheType /\ TagsType /\ ctl.st = "WB_STREAM"
      /\ TagRdSet \in Set /\ b \in Block
      /\ Present(b.set, b.way, ctl.victim_tag)
      /\ VictimLine = [tag |-> ctl.victim_tag, set |-> b.set]
      /\ mem \in [Line -> [Off -> Val]]
  BY LookupType DEF IInv, TypeOK, CacheType, CtlType, CtlRegs, BlkPlaced, VictimHeld,
     WbStream, VictimLine, ServeStates, WriteBackStates
<1>2. tags'.ram = tags.ram /\ data' = data /\ mem' = [mem EXCEPT ![VictimLine] = data[b]]
  BY <1>1, ReadEffect DEF WbStream
<1>3. AsStored /\ AsStored' /\ ctl.st # "INIT_CLEAR"
  BY <1>1, Word, WordNext DEF IInv
<1>4. ASSUME NEW a \in Addr PROVE Stored'[a] = Stored[a]
  <2>1. CASE \E w \in Way : Present(a.set, w, a.tag)
    <3>1. PICK w \in Way : Present(a.set, w, a.tag)
      BY <2>1
    <3>2. Present(a.set, w, a.tag)'
      BY <1>2, <3>1 DEF Present
    <3>3. Stored[a] = data[[set |-> a.set, way |-> w]][a.off]
      BY <1>3, <3>1 DEF AsStored
    <3>4. Stored'[a] = data'[[set |-> a.set, way |-> w]][a.off]
      BY <1>3, <3>2 DEF AsStored
    <3> QED BY <1>2, <3>3, <3>4
  <2>2. CASE \A w \in Way : ~ Present(a.set, w, a.tag)
    <3>1. \A w \in Way : ~ Present(a.set, w, a.tag)'
      BY <1>2, <2>2 DEF Present
    <3>2. Stored[a] = mem[LineOf(a)][a.off]
      BY <1>3, <2>2 DEF AsStored
    <3>3. Stored'[a] = mem'[LineOf(a)][a.off]
      BY <1>3, <3>1 DEF AsStored, LineOf
    <3>4. LineOf(a) # VictimLine
      BY <1>1, <2>2 DEF LineOf, Block
    <3>5. LineOf(a) \in Line
      BY DEF LineOf, Addr, Line
    <3> QED BY <1>1, <1>2, <3>2, <3>3, <3>4, <3>5
  <2> QED BY <2>1, <2>2
<1>5. Stored = [a \in Addr |-> Stored[a]]
  BY DEF Stored
<1> QED BY <1>4, <1>5, SameWords

(* A fill puts in a block the line that memory has, over one it has too. *)
LEMMA FillWords ==
  ASSUME RInv, IInv', NEW x, FillStream(x), x.rdy, ctl'.st # "INIT_CLEAR"
  PROVE  Stored' = Stored
<1> DEFINE s == ctl.cur.at.set
           w == ctl.blk.way
           t == ctl.cur.at.tag
           e == tags.ram[s][w]
<1>1. /\ CacheType /\ TagsType /\ ctl.st = "FILL_STREAM" /\ ctl.cur.at \in Addr
      /\ ~ ctl.flushing /\ TagRdSet \in Set /\ ctl.blk = [set |-> s, way |-> w]
      /\ s \in Set /\ w \in Way /\ t \in Tag /\ CurLine = [tag |-> t, set |-> s]
      /\ data \in [Block -> [Off -> Val]] /\ ctl.blk \in Block /\ ctl.blk.set = s
  <2> USE DEF ServeStates, WriteBackStates, FillStates, FlushStates
  <2>1. IInv /\ CacheType /\ TagsType /\ ctl.st = "FILL_STREAM" /\ ~ ctl.flushing
    BY DEF RInv, IInv, TypeOK, CacheType, FillStream, FlushPhase
  <2>2. ctl.blk \in Block /\ ctl.cur.at \in Addr /\ ctl.blk.set = s
    BY <2>1 DEF IInv, BlkPlaced, CacheType, CtlType, CtlRegs, Request
  <2>3. ctl.blk = [set |-> s, way |-> w] /\ s \in Set /\ w \in Way /\ t \in Tag
    BY <2>2 DEF Block, Addr
  <2> QED BY <2>1, <2>2, <2>3, LookupType DEF CurLine, CacheType
<1>2. /\ data' = [data EXCEPT ![ctl.blk] = mem[CurLine]] /\ mem' = mem
      /\ \A r \in Set, v \in Way :
           tags'.ram[r][v] = IF r = s /\ v = w THEN Clean(t) ELSE tags.ram[r][v]
  <2>1. Clean(t) \in Entry
    BY <1>1 DEF Clean, Entry
  <2>2. TagsUpdate(TagRdSet, s, w, Clean(t))
    BY DEF FillStream
  <2> QED BY <1>1, <2>1, <2>2, UpdateEffect DEF FillStream
<1>3. AsStored /\ AsStored' /\ ctl.st # "INIT_CLEAR" /\ UniqueTags
  BY <1>1, Word, WordNext DEF RInv, IInv
<1>4. \A v \in Way : ~ Present(s, v, t)
  BY <1>1 DEF RInv, IInv, MissAbsent, WriteBackStates, FillStates
<1>5. e.valid => data[ctl.blk] = mem[[tag |-> e.tag, set |-> s]]
  <2>1. LET f == tags.ram[ctl.blk.set][ctl.blk.way] IN
        f.valid => data[ctl.blk] = mem[[tag |-> f.tag, set |-> ctl.blk.set]]
    BY <1>1 DEF RInv, VictimSafe, FillStates
  <2>2. ctl.blk.set = s
    BY <1>1
  <2> QED BY <2>1, <2>2
<1>6. ASSUME NEW a \in Addr PROVE Stored'[a] = Stored[a]
  <2>0. a.set \in Set
    BY DEF Addr
  <2>1. CASE a.set = s /\ a.tag = t
    <3>1. PICK v \in Way : v = w
      BY <1>1
    <3>2. Stored'[a] = data'[[set |-> s, way |-> w]][a.off]
      <4>1. tags'.ram[a.set][v] = Clean(t)
        BY <1>1, <1>2, <2>1, <3>1
      <4>2. Present(a.set, v, a.tag)'
        BY <2>1, <4>1 DEF Present, Clean
      <4>3. Stored'[a] = data'[[set |-> a.set, way |-> v]][a.off]
        BY <1>3, <4>2 DEF AsStored
      <4> QED BY <2>1, <3>1, <4>3
    <3>3. data'[[set |-> s, way |-> w]] = mem[CurLine]
      BY <1>1, <1>2
    <3>4. Stored[a] = mem[LineOf(a)][a.off]
      BY <1>3, <1>4, <2>1 DEF AsStored
    <3> QED BY <1>1, <2>1, <3>2, <3>3, <3>4 DEF LineOf
  <2>2. CASE ~ (a.set = s /\ a.tag = t) /\ Present(a.set, w, a.tag) /\ a.set = s
    <3>1. \A v \in Way : ~ Present(a.set, v, a.tag)'
      <4>1. \A v \in Way : v # w => ~ Present(a.set, v, a.tag)
        BY <1>1, <1>3, <2>0, <2>2 DEF UniqueTags, Present
      <4>2. \A v \in Way : v # w => tags'.ram[a.set][v] = tags.ram[a.set][v]
        BY <1>2, <2>0
      <4>3. tags'.ram[a.set][w] = Clean(t)
        BY <1>1, <1>2, <2>2
      <4>4. ASSUME NEW v \in Way PROVE ~ Present(a.set, v, a.tag)'
        <5>1. CASE v = w
          <6>1. tags'.ram[a.set][v] = Clean(t) /\ t # a.tag
            BY <2>2, <4>3, <5>1
          <6>2. tags'.ram[a.set][v].tag = t
            BY <6>1 DEF Clean
          <6> QED BY <6>1, <6>2 DEF Present
        <5>2. CASE v # w
          BY <4>1, <4>2, <5>2 DEF Present
        <5> QED BY <5>1, <5>2
      <4> QED BY <4>4
    <3>2. Stored'[a] = mem[LineOf(a)][a.off]
      BY <1>2, <1>3, <3>1 DEF AsStored, LineOf
    <3>3. Stored[a] = data[[set |-> s, way |-> w]][a.off]
      BY <1>1, <1>3, <2>2 DEF AsStored
    <3>4. data[ctl.blk] = mem[LineOf(a)]
      BY <1>5, <2>2 DEF Present, LineOf
    <3> QED BY <1>1, <3>2, <3>3, <3>4
  <2>3. CASE ~ (a.set = s /\ a.tag = t) /\ ~ (Present(a.set, w, a.tag) /\ a.set = s)
    <3>1. \A v \in Way : Present(a.set, v, a.tag)' <=> Present(a.set, v, a.tag)
      BY <1>2, <2>0, <2>3 DEF Present, Clean
    <3>2. CASE \E v \in Way : Present(a.set, v, a.tag)
      <4>1. PICK v \in Way : Present(a.set, v, a.tag)
        BY <3>2
      <4>2. Stored[a] = data[[set |-> a.set, way |-> v]][a.off]
        BY <1>3, <4>1 DEF AsStored
      <4>3. Stored'[a] = data'[[set |-> a.set, way |-> v]][a.off]
        BY <1>3, <3>1, <4>1 DEF AsStored
      <4>4. [set |-> a.set, way |-> v] \in Block /\ [set |-> a.set, way |-> v] # ctl.blk
        BY <1>1, <2>0, <2>3, <4>1 DEF Block
      <4> QED BY <1>1, <1>2, <4>2, <4>3, <4>4
    <3>3. CASE \A v \in Way : ~ Present(a.set, v, a.tag)
      BY <1>2, <1>3, <3>1, <3>3 DEF AsStored, LineOf
    <3> QED BY <3>2, <3>3
  <2> QED BY <2>1, <2>2, <2>3
<1>7. Stored = [a \in Addr |-> Stored[a]]
  BY DEF Stored
<1> QED BY <1>6, <1>7, SameWords

(* A write changes the word that it is for and no other. *)
LEMMA WriteWords ==
  ASSUME RInv, IInv', WrCommit, ctl'.st # "INIT_CLEAR"
  PROVE  Stored' = [Stored EXCEPT ![ctl.cur.at] = ctl.cur.din]
<1> DEFINE s == ctl.cur.at.set
           w == ctl.blk.way
           t == ctl.cur.at.tag
<1>1. /\ CacheType /\ TagsType /\ ctl.st = "WR_COMMIT" /\ ctl.cur.at \in Addr
      /\ TagRdSet \in Set /\ ctl.blk = [set |-> s, way |-> w]
      /\ s \in Set /\ w \in Way /\ t \in Tag /\ ctl.cur.at.off \in Off
      /\ data \in [Block -> [Off -> Val]] /\ ctl.blk \in Block
      /\ Present(s, w, t)
  <2> USE DEF ServeStates, WriteBackStates, FillStates, FlushStates
  <2>1. IInv /\ CacheType /\ TagsType /\ ctl.st = "WR_COMMIT" /\ ~ ctl.flushing
    BY DEF RInv, IInv, TypeOK, CacheType, WrCommit, FlushPhase
  <2>2. ctl.blk \in Block /\ ctl.cur.at \in Addr /\ ctl.blk.set = s
    BY <2>1 DEF IInv, BlkPlaced, CacheType, CtlType, CtlRegs, Request
  <2>3. ctl.blk = [set |-> s, way |-> w] /\ s \in Set /\ w \in Way /\ t \in Tag /\ ctl.cur.at.off \in Off
    BY <2>2 DEF Block, Addr
  <2>4. Present(s, w, t)
    BY <2>1 DEF IInv, FillPresent
  <2> QED BY <2>1, <2>2, <2>3, <2>4, LookupType DEF CacheType
<1>2. /\ data' = [data EXCEPT ![ctl.blk][ctl.cur.at.off] = ctl.cur.din] /\ mem' = mem
      /\ \A r \in Set, v \in Way :
           tags'.ram[r][v] = IF r = s /\ v = w THEN Dirty(t) ELSE tags.ram[r][v]
  <2>1. Dirty(t) \in Entry
    BY <1>1 DEF Dirty, Entry
  <2>2. TagsUpdate(TagRdSet, s, w, Dirty(t))
    BY DEF WrCommit
  <2> QED BY <1>1, <2>1, <2>2, UpdateEffect DEF WrCommit
<1>3. AsStored /\ AsStored' /\ ctl.st # "INIT_CLEAR" /\ UniqueTags
  BY <1>1, Word, WordNext DEF RInv, IInv
<1>0. Stored = [a \in Addr |-> Stored[a]]
  BY DEF Stored
<1> DEFINE new == [Stored EXCEPT ![ctl.cur.at] = ctl.cur.din]
<1>4. ASSUME NEW a \in Addr PROVE Stored'[a] = new[a]
  <2>0. /\ a.set \in Set /\ a.off \in Off
        /\ new[a] = IF a = ctl.cur.at THEN ctl.cur.din ELSE Stored[a]
    <3>1. a.set \in Set /\ a.off \in Off
      BY DEF Addr
    <3> QED BY <1>0, <3>1
  <2>1. ASSUME NEW v \in Way PROVE Present(a.set, v, a.tag)' <=> Present(a.set, v, a.tag)
    <3>1. tags'.ram[a.set][v] = IF a.set = s /\ v = w THEN Dirty(t) ELSE tags.ram[a.set][v]
      BY <1>2, <2>0
    <3>2. CASE a.set = s /\ v = w
      <4>1. tags'.ram[a.set][v].valid /\ tags'.ram[a.set][v].tag = t
        BY <3>1, <3>2 DEF Dirty
      <4>2. tags.ram[a.set][v].valid /\ tags.ram[a.set][v].tag = t
        BY <1>1, <3>2 DEF Present
      <4> QED BY <4>1, <4>2 DEF Present
    <3>3. CASE ~ (a.set = s /\ v = w)
      BY <3>1, <3>3 DEF Present
    <3> QED BY <3>2, <3>3
  <2>2. CASE \E v \in Way : Present(a.set, v, a.tag)
    <3>1. PICK v \in Way : Present(a.set, v, a.tag)
      BY <2>2
    <3> DEFINE b == [set |-> a.set, way |-> v]
    <3>2. Stored[a] = data[b][a.off] /\ Stored'[a] = data'[b][a.off] /\ b \in Block
      BY <1>3, <2>0, <2>1, <3>1 DEF AsStored, Block
    <3>3. CASE a = ctl.cur.at
      <4>1. b = ctl.blk
        BY <1>1, <1>3, <3>1, <3>3 DEF UniqueTags, Present
      <4> QED BY <1>1, <1>2, <2>0, <3>2, <3>3, <4>1
    <3>4. CASE a # ctl.cur.at
      <4>1. CASE b = ctl.blk
        <5>0. a.set = s /\ v = w
          BY <1>1, <4>1
        <5>1. a.set = s /\ v = w /\ a.tag = t
          BY <1>1, <3>1, <5>0 DEF Present
        <5>2. a.off # ctl.cur.at.off
          BY <1>1, <3>4, <5>1 DEF Addr
        <5> QED BY <1>1, <1>2, <2>0, <3>2, <3>4, <4>1, <5>2
      <4>2. CASE b # ctl.blk
        BY <1>1, <1>2, <2>0, <3>2, <3>4, <4>2
      <4> QED BY <4>1, <4>2
    <3> QED BY <3>3, <3>4
  <2>3. CASE \A v \in Way : ~ Present(a.set, v, a.tag)
    <3>1. a # ctl.cur.at
      BY <1>1, <2>3
    <3> QED BY <1>2, <1>3, <2>0, <2>1, <2>3, <3>1 DEF AsStored, LineOf
  <2> QED BY <2>2, <2>3
<1>5. new = [a \in Addr |-> new[a]]
  BY <1>0
<1> QED BY <1>4, <1>5, SameWords

(* Only a write changes a word. *)
LEMMA StoredKept ==
  ASSUME RInv, Next, ctl.st # "WR_COMMIT"
  PROVE  Stored' = Stored
<1>1. PICK x \in Answers : CtlStep(x) /\ ReqStep(CtlOut)
  BY DEF Next, CacheStep
<1>2. /\ IInv /\ IInv' /\ CacheType /\ TagsType /\ FlushPhase /\ TagRdSet \in Set
      /\ ctl.st # "INVAL_CLEAR"
  BY InvNext, LookupType DEF RInv, IInv, TypeOK, CacheType, NothingInvalidated
<1>3. ctl'.st = "INIT_CLEAR" => ctl.st = "INIT_CLEAR"
  BY <1>1, <1>2, Moving
<1>4. CASE InitClear
  BY <1>2, <1>4, ClearedWords
<1>5. CASE WbStream(x) /\ x.rdy
  <2>1. ctl.st # "INIT_CLEAR"
    BY <1>5 DEF WbStream
  <2> QED BY <1>2, <1>3, <1>5, <2>1, WbWords
<1>6. CASE FillStream(x) /\ x.rdy
  <2>1. ctl.st # "INIT_CLEAR"
    BY <1>6 DEF FillStream
  <2> QED BY <1>2, <1>3, <1>6, <2>1, FillWords
<1>7. CASE Take \/ StartFlush \/ StartInvalidate \/ Rest \/ LookupHit \/ LookupMiss
  <2>1. ctl.st \in {"IDLE", "LOOKUP"} /\ mem' = mem
    BY <1>7 DEF Take, StartFlush, StartInvalidate, Rest, LookupHit, LookupMiss,
       ReqTake, FlushTake, InvalTake
  <2>2. LinesKept
    BY <1>2, <2>1, LinesStay
  <2> QED BY <1>3, <2>1, <2>2, KeptWords
<1>8. CASE FlushWait \/ FlushCheck \/ FlushAdvance \/ (WbGap /\ ctl.flushing)
  <2>1. ctl.st \in FlushStates \cup {"WB_GAP"} /\ mem' = mem
    BY <1>8 DEF FlushWait, FlushCheck, FlushAdvance, WbGap, FlushStates
  <2>2. ctl.flushing
    BY <1>2, <1>8, <2>1 DEF FlushPhase, FlushWait, FlushCheck, FlushAdvance, FlushStates
  <2>3. LinesKept
    BY <1>2, <2>2, LinesStay
  <2>4. ctl.st # "INIT_CLEAR"
    BY <2>1 DEF FlushStates
  <2> QED BY <1>3, <2>1, <2>3, <2>4, KeptWords
<1>9. CASE \/ RdResp \/ WbLoad \/ WbPrime \/ WbReq(x) \/ FillReq(x) \/ PostFillWait
           \/ (WbStream(x) /\ ~ x.rdy) \/ (FillStream(x) /\ ~ x.rdy)
           \/ (WbGap /\ ~ ctl.flushing)
  <2>1. TagsRead(TagRdSet) /\ data' = data /\ mem' = mem /\ ctl.st # "INIT_CLEAR"
    BY <1>9 DEF RdResp, WbLoad, WbPrime, WbReq, FillReq, PostFillWait, WbStream,
       FillStream, WbGap
  <2>2. tags'.ram = tags.ram
    BY <1>2, <2>1, ReadEffect
  <2>3. LinesKept
    BY <2>1, <2>2 DEF LinesKept
  <2> QED BY <1>3, <2>1, <2>3, KeptWords
<1>10. ~ InvalClear /\ ~ WrCommit
  BY <1>2 DEF InvalClear, WrCommit
<1>11. \/ InitClear
       \/ Take \/ StartFlush \/ StartInvalidate \/ Rest \/ LookupHit \/ LookupMiss
       \/ FlushWait \/ FlushCheck \/ FlushAdvance
       \/ RdResp \/ WbLoad \/ WbPrime \/ WbReq(x) \/ FillReq(x) \/ PostFillWait
       \/ WbStream(x) \/ FillStream(x) \/ WbGap
  BY <1>1, <1>10 DEF CtlStep
<1> QED BY <1>4, <1>5, <1>6, <1>7, <1>8, <1>9, <1>11, Zenon

-----------------------------------------------------------------------------
(* The steps of the store.                                                 *)

ProbeRead == [wr |-> FALSE, at |-> req.probe_at, din |-> 0]

MainOpen  == IF Serving THEN {ctl.cur} ELSE {}
ProbeOpen == IF Probing THEN {ProbeRead} ELSE {}

TwoSlots == Open = [s \in {"main", "probe"} |-> IF s = "main" THEN MainOpen ELSE ProbeOpen]

(* The two slots of the mapping. *)
LEMMA SlotsOpen == TwoSlots
<1>1. ASSUME NEW s \in {"main", "probe"}
      PROVE  (CASE s = "main"  -> IF Serving THEN {ctl.cur} ELSE {}
                [] s = "probe" -> IF req.probe = "resp" \/ ctl.resp_l
                      THEN {[wr |-> FALSE, at |-> req.probe_at, din |-> 0]}
                      ELSE {})
             = IF s = "main" THEN MainOpen ELSE ProbeOpen
  <2>1. CASE s = "main"
    BY <2>1, Zenon DEF MainOpen
  <2>2. CASE s = "probe"
    <3>1. s # "main"
      BY <2>2
    <3> QED BY <2>2, <3>1, Zenon DEF ProbeOpen, Probing, ProbeRead
  <2> QED BY <2>1, <2>2
<1> QED BY <1>1, Zenon DEF Open, TwoSlots

(* What a step leaves in them. *)
LEMMA SlotsNext ==
  /\ Open["main"] = MainOpen /\ Open["probe"] = ProbeOpen
  /\ Open'["main"] = MainOpen' /\ Open'["probe"] = ProbeOpen'
  /\ MainOpen' = MainOpen /\ ProbeOpen' = ProbeOpen => Open' = Open
  /\ \A o : MainOpen' = o /\ ProbeOpen' = ProbeOpen => Open' = [Open EXCEPT !["main"] = o]
  /\ \A o : MainOpen' = MainOpen /\ ProbeOpen' = o => Open' = [Open EXCEPT !["probe"] = o]
<1>1. TwoSlots'
  BY SlotsOpen, PTL
<1>2. TwoSlots
  BY SlotsOpen
<1> QED BY <1>1, <1>2 DEF TwoSlots

(* A lane starts with the words of memory. *)
LEMMA StoredInit ==
  ASSUME Init
  PROVE  Stored = [a \in Addr |-> mem[LineOf(a)][a.off]] /\ Stored \in [Addr -> Val]
<1>1. IInv /\ ctl.st = "INIT_CLEAR"
  BY InvInit DEF Init, CacheInit
<1>2. ASSUME NEW a \in Addr PROVE Holders(a) = {} /\ mem[LineOf(a)][a.off] \in Val
  <2>1. Holders(a) = {}
    BY <1>1 DEF Holders
  <2>2. LineOf(a) \in Line /\ a.off \in Off
    BY DEF LineOf, Addr, Line
  <2>3. mem \in [Line -> [Off -> Val]]
    BY <1>1 DEF IInv, TypeOK, CacheType
  <2>4. mem[LineOf(a)] \in [Off -> Val]
    BY <2>2, <2>3
  <2> QED BY <2>1, <2>2, <2>4
<1> QED BY <1>2 DEF Stored

(* A lane starts as a store with nothing open. *)
LEMMA RefinesInit == Init => Store!StoreInit
<1> SUFFICES ASSUME Init PROVE Store!StoreInit
  OBVIOUS
<1>1. IInv /\ ctl.st = "INIT_CLEAR" /\ ~ ctl.resp_l /\ ctl.ok = FALSE /\ req.probe = "none"
  BY InvInit DEF Init, CacheInit, ReqInit
<1>2. Stored \in [Addr -> Val]
  BY StoredInit
<1>3. MainOpen = {} /\ ProbeOpen = {}
  BY <1>1 DEF MainOpen, ProbeOpen, Probing, Serving, ServeStates, WriteBackStates, FillStates
<1>4. Open = [s \in Store!Slot |-> {}]
  BY <1>3, SlotsOpen DEF Store!Slot, TwoSlots
<1>5. ctl.dout \in Val
  BY <1>1 DEF IInv, TypeOK, CacheType, CtlType, CtlRegs
<1> QED BY <1>1, <1>2, <1>4, <1>5 DEF Store!StoreInit

(* What a step does to the slots. *)
LEMMA SlotSteps ==
  ASSUME RInv, Next
  PROVE  /\ Serving /\ ctl.st \notin {"RD_RESP", "WR_COMMIT"} => MainOpen' = MainOpen
         /\ ctl.st \in {"RD_RESP", "WR_COMMIT"} =>
              /\ MainOpen = {ctl.cur} /\ MainOpen' = {}
              /\ ~ ctl.resp_l => ProbeOpen' = ProbeOpen
         /\ ReqTake => MainOpen = {} /\ MainOpen' = {FrontReq}
         /\ ~ Serving /\ ~ ReqTake => MainOpen' = MainOpen
         /\ req.probe = "lookup" /\ HitNow =>
              ProbeOpen = {} /\ ProbeOpen' = {ProbeRead} /\ ~ Serving /\ ~ ReqTake
         /\ ctl.resp_l => ProbeOpen = {ProbeRead} /\ ProbeOpen' = {}
         /\ ~ ctl.resp_l /\ ~ (req.probe = "lookup" /\ HitNow) => ProbeOpen' = ProbeOpen
<1>1. PICK x \in Answers : CtlStep(x) /\ ReqStep(CtlOut)
  BY DEF Next, CacheStep
<1>2. CacheType /\ FlushPhase
  BY DEF RInv, IInv, TypeOK
<1>3. /\ Serving /\ ctl.st \notin {"RD_RESP", "WR_COMMIT"} => Serving' /\ ctl'.cur = ctl.cur
      /\ ctl.st \in {"RD_RESP", "WR_COMMIT"} => Serving /\ ~ Serving'
      /\ ReqTake => ~ Serving /\ Serving' /\ ctl'.cur = FrontReq
      /\ ~ Serving /\ ~ ReqTake => ~ Serving'
  BY <1>1, <1>2, Moving
<1>4. /\ req'.probe = "resp" <=> req.probe = "lookup" /\ HitNow
      /\ req'.probe = "resp" => req'.probe_at = req.probe_at
      /\ req.probe = "resp" => req'.probe = "none" /\ req'.probe_at = req.probe_at
  BY <1>1, <1>2, ProbeMoves
<1>5. ctl'.resp_l = (req.probe = "resp")
  BY <1>1, <1>2, Answering
<1>6. /\ ctl.resp_l => req.probe = "none"
      /\ req.probe = "lookup" => ctl.flushing
      /\ req.probe = "resp" => ctl.flushing \/ ctl.st = "IDLE"
  BY DEF RInv, ProbePhase, ProbeFresh
<1>7. /\ ctl.flushing => ctl.st \notin {"IDLE", "RD_RESP", "WR_COMMIT"}
      /\ Serving => ~ ctl.flushing
      /\ ReqTake => ctl.st = "IDLE"
  BY <1>2 DEF FlushPhase, FlushStates, WriteBackStates, Serving, ReqTake
<1>8. /\ Probing <=> req.probe = "resp" \/ ctl.resp_l
      /\ Probing' <=> (req.probe = "lookup" /\ HitNow) \/ req.probe = "resp"
      /\ Probing' => req'.probe_at = req.probe_at
  BY <1>4, <1>5 DEF Probing
<1>9. /\ ProbeOpen = IF Probing THEN {ProbeRead} ELSE {}
      /\ ProbeOpen' = IF Probing' THEN {ProbeRead} ELSE {}
  BY <1>8 DEF ProbeOpen, ProbeRead
<1>10. /\ MainOpen = IF Serving THEN {ctl.cur} ELSE {}
       /\ MainOpen' = IF Serving' THEN {ctl'.cur} ELSE {}
  BY DEF MainOpen
<1> QED BY <1>3, <1>6, <1>7, <1>8, <1>9, <1>10

StoreStep == [Store!StoreNext]_<<Stored, Open, ctl.ok, ctl.dout>>

(* A request that the lane takes up is accepted by the store. *)
LEMMA Accepting ==
  ASSUME NEW s \in {"main", "probe"}, NEW r \in Request,
         Open[s] = {}, Open' = [Open EXCEPT ![s] = {r}],
         ctl'.ok = FALSE, Stored' = Stored, ctl'.dout = ctl.dout
  PROVE  StoreStep
<1>1. Store!Accept(s, r)
  BY DEF Store!Accept
<1>2. s \in Store!Slot /\ r \in Store!Ask
  BY DEF Store!Slot, Store!Ask, Request
<1> QED BY <1>1, <1>2 DEF StoreStep, Store!StoreNext

(* A request that the lane answers is answered by the store. *)
LEMMA AnswerMain ==
  ASSUME NEW r \in Request, Open["main"] = {r}, Open'["main"] = {},
         Open'["probe"] = Open["probe"], ctl'.ok = TRUE,
         IF r.wr THEN Stored' = [Stored EXCEPT ![r.at] = r.din] /\ ctl'.dout = ctl.dout
                 ELSE ctl'.dout = Stored[r.at] /\ Stored' = Stored
  PROVE  StoreStep
<1>1. Store!Answer("main", r)
  BY DEF Store!Answer, Store!Slot
<1>2. "main" \in Store!Slot /\ r \in Store!Ask
  BY DEF Store!Slot, Store!Ask, Request
<1> QED BY <1>1, <1>2 DEF StoreStep, Store!StoreNext

(* So is a probe, in a clock that may take the next request up. *)
LEMMA AnswerProbe ==
  ASSUME NEW r \in Request, Open["probe"] = {r}, Open'["probe"] = {}, ~ r.wr,
         \/ Open'["main"] = Open["main"]
         \/ Open["main"] = {} /\ \E q \in Request : Open'["main"] = {q},
         ctl'.ok = TRUE, ctl'.dout = Stored[r.at], Stored' = Stored
  PROVE  StoreStep
<1>1. Store!Ask = Request
  BY DEF Store!Ask, Request
<1>2. Store!Answer("probe", r)
  BY <1>1 DEF Store!Answer, Store!Slot
<1>3. "probe" \in Store!Slot /\ r \in Store!Ask
  BY <1>1 DEF Store!Slot
<1> QED BY <1>2, <1>3 DEF StoreStep, Store!StoreNext

(* A read is answered with the word stored. *)
LEMMA ReadStored ==
  ASSUME RInv, NEW x, CtlStep(x), ctl.st = "RD_RESP", ~ ctl.resp_l
  PROVE  ~ ctl.cur.wr /\ ctl'.dout = Stored[ctl.cur.at]
<1>1. /\ CacheType /\ FlushPhase /\ BlkPlaced /\ AsStored
      /\ ctl.cur.at \in Addr /\ ctl.blk \in Block
  BY Word DEF RInv, IInv, TypeOK, CacheType, CtlType, CtlRegs, Request
<1>2. ctl'.dout = data[ctl.blk][ctl.cur.at.off]
  BY <1>1, Answering
<1>3. ~ ctl.cur.wr /\ Present(ctl.cur.at.set, ctl.blk.way, ctl.cur.at.tag)
  BY DEF RInv, AnswerPresent
<1>4. ctl.blk.set = ctl.cur.at.set
  BY <1>1 DEF BlkPlaced, FlushPhase, FlushStates, WriteBackStates, ServeStates
<1>5. ctl.blk = [set |-> ctl.cur.at.set, way |-> ctl.blk.way] /\ ctl.blk.way \in Way
  BY <1>1, <1>4 DEF Block
<1>6. Stored[ctl.cur.at]
        = data[[set |-> ctl.cur.at.set, way |-> ctl.blk.way]][ctl.cur.at.off]
  BY <1>1, <1>3, <1>5 DEF AsStored
<1> QED BY <1>2, <1>3, <1>5, <1>6

(* A write that is answered has been stored. *)
LEMMA WriteStored ==
  ASSUME RInv, Next, ctl.st = "WR_COMMIT"
  PROVE  ctl.cur.wr /\ Stored' = [Stored EXCEPT ![ctl.cur.at] = ctl.cur.din]
<1>1. PICK x \in Answers : CtlStep(x)
  BY DEF Next, CacheStep
<1>2. ctl.cur.wr /\ CacheType /\ FlushPhase
  BY DEF RInv, AnswerPresent, IInv, TypeOK
<1>3. WrCommit
  BY <1>1 DEF CtlStep, InitClear, Take, StartFlush, StartInvalidate, Rest, LookupHit,
     LookupMiss, RdResp, WbLoad, WbPrime, WbReq, WbStream, WbGap, FillReq, FillStream,
     PostFillWait, FlushWait, FlushCheck, FlushAdvance, InvalClear, ReqTake, FlushTake,
     InvalTake
<1>4. ctl'.st # "INIT_CLEAR"
  BY <1>1, <1>2, Moving
<1>5. IInv'
  BY InvNext DEF RInv
<1> QED BY <1>2, <1>3, <1>4, <1>5, WriteWords

(* Every clock of the lane is a step of the store, or none. *)
LEMMA RefinesNext ==
  ASSUME RInv, [Next]_vars
  PROVE  StoreStep
<1>1. CASE UNCHANGED vars
  <2>1. Stored' = Stored
    BY <1>1 DEF vars, Stored, Holders
  <2>2. MainOpen' = MainOpen /\ ProbeOpen' = ProbeOpen /\ ctl' = ctl
    BY <1>1 DEF vars, MainOpen, ProbeOpen, Serving, Probing, ProbeRead
  <2>3. Open' = Open
    BY <2>2, SlotsNext
  <2> QED BY <2>1, <2>2, <2>3 DEF StoreStep
<1>2. CASE Next
  <2>1. PICK x \in Answers : CtlStep(x) /\ ReqStep(CtlOut)
    BY <1>2 DEF Next, CacheStep
  <2>2. /\ CacheType /\ FlushPhase /\ UniqueTags /\ AsStored /\ BlkPlaced
        /\ ctl.cur \in Request /\ ctl.cur.at \in Addr /\ ctl.cur.din \in Val
        /\ ctl.probe_blk \in Block /\ ctl.blk \in Block
        /\ ProbeRead \in Request /\ req.probe_at \in Addr /\ FrontReq \in Request
    BY Word, ZeroIn, FrontReqType DEF RInv, IInv, TypeOK, CacheType, CtlType, CtlRegs,
       ReqType, ReqRegs, Request, ProbeRead
  <2>3. /\ ctl'.ok = (ctl.resp_l \/ ctl.st \in {"RD_RESP", "WR_COMMIT"})
        /\ ctl'.dout = IF ctl.resp_l THEN data[ctl.probe_blk][ctl.probe_off]
                       ELSE IF ctl.st = "RD_RESP" THEN data[ctl.blk][ctl.cur.at.off]
                       ELSE ctl.dout
    BY <2>1, <2>2, Answering
  <2>4. ctl.st # "WR_COMMIT" => Stored' = Stored
    BY <1>2, StoredKept
  <2>5. CASE ctl.resp_l
    <3>1. ctl.st \notin {"RD_RESP", "WR_COMMIT", "INIT_CLEAR"}
      BY <2>2, <2>5 DEF RInv, ProbePhase, FlushPhase, FlushStates, WriteBackStates
    <3>2. ctl'.ok = TRUE /\ ctl'.dout = data[ctl.probe_blk][ctl.probe_off] /\ Stored' = Stored
      BY <2>3, <2>4, <2>5, <3>1
    <3>3. data[ctl.probe_blk][ctl.probe_off] = Stored[req.probe_at]
      <4>1. /\ ctl.probe_blk.set = req.probe_at.set /\ ctl.probe_off = req.probe_at.off
            /\ Present(req.probe_at.set, ctl.probe_blk.way, req.probe_at.tag)
        BY <2>5 DEF RInv, ProbeHeld, Probing
      <4>2. /\ ctl.probe_blk = [set |-> req.probe_at.set, way |-> ctl.probe_blk.way]
            /\ ctl.probe_blk.way \in Way
        BY <2>2, <4>1 DEF Block
      <4>3. Stored[req.probe_at]
              = data[[set |-> req.probe_at.set, way |-> ctl.probe_blk.way]][req.probe_at.off]
        BY <2>2, <3>1, <4>1, <4>2 DEF AsStored
      <4> QED BY <4>1, <4>2, <4>3
    <3>4. ProbeRead.at = req.probe_at /\ ~ ProbeRead.wr
      BY DEF ProbeRead
    <3>5. /\ ProbeOpen = {ProbeRead} /\ ProbeOpen' = {}
          /\ MainOpen' = MainOpen \/ (MainOpen = {} /\ MainOpen' = {FrontReq})
      BY <1>2, <2>5, <3>1, SlotSteps
    <3>6. /\ Open["probe"] = {ProbeRead} /\ Open'["probe"] = {}
          /\ \/ Open'["main"] = Open["main"]
             \/ Open["main"] = {} /\ \E q \in Request : Open'["main"] = {q}
      BY <2>2, <3>5, SlotsNext
    <3> QED BY <2>2, <3>2, <3>3, <3>4, <3>6, AnswerProbe
  <2>6. CASE ~ ctl.resp_l /\ ctl.st \in {"RD_RESP", "WR_COMMIT"}
    <3>1. MainOpen = {ctl.cur} /\ MainOpen' = {} /\ ProbeOpen' = ProbeOpen
      BY <1>2, <2>6, SlotSteps
    <3>2. Open["main"] = {ctl.cur} /\ Open'["main"] = {} /\ Open'["probe"] = Open["probe"]
      BY <3>1, SlotsNext
    <3>3. CASE ctl.st = "RD_RESP"
      <4>1. ~ ctl.cur.wr /\ ctl'.dout = Stored[ctl.cur.at]
        BY <2>1, <2>6, <3>3, ReadStored
      <4>2. ctl'.ok = TRUE /\ Stored' = Stored
        BY <2>3, <2>4, <2>6, <3>3
      <4> QED BY <2>2, <3>2, <4>1, <4>2, AnswerMain
    <3>4. CASE ctl.st = "WR_COMMIT"
      <4>1. ctl.cur.wr /\ Stored' = [Stored EXCEPT ![ctl.cur.at] = ctl.cur.din]
        BY <1>2, <3>4, WriteStored
      <4>2. ctl'.ok = TRUE /\ ctl'.dout = ctl.dout
        BY <2>3, <2>6, <3>4
      <4> QED BY <2>2, <3>2, <4>1, <4>2, AnswerMain
    <3> QED BY <2>6, <3>3, <3>4
  <2>7. CASE ~ ctl.resp_l /\ ctl.st \notin {"RD_RESP", "WR_COMMIT"}
    <3>1. ctl'.ok = FALSE /\ ctl'.dout = ctl.dout /\ Stored' = Stored
      BY <2>3, <2>4, <2>7
    <3>2. CASE req.probe = "lookup" /\ HitNow
      <4>1. ProbeOpen = {} /\ ProbeOpen' = {ProbeRead} /\ MainOpen' = MainOpen
        BY <1>2, <3>2, SlotSteps
      <4>2. Open["probe"] = {} /\ Open' = [Open EXCEPT !["probe"] = {ProbeRead}]
        BY <4>1, SlotsNext
      <4> QED BY <2>2, <3>1, <4>2, Accepting
    <3>3. CASE ~ (req.probe = "lookup" /\ HitNow) /\ ReqTake
      <4>1. MainOpen = {} /\ MainOpen' = {FrontReq} /\ ProbeOpen' = ProbeOpen
        BY <1>2, <2>7, <3>3, SlotSteps
      <4>2. Open["main"] = {} /\ Open' = [Open EXCEPT !["main"] = {FrontReq}]
        BY <4>1, SlotsNext
      <4> QED BY <2>2, <3>1, <4>2, Accepting
    <3>4. CASE ~ (req.probe = "lookup" /\ HitNow) /\ ~ ReqTake
      <4>1. MainOpen' = MainOpen /\ ProbeOpen' = ProbeOpen
        BY <1>2, <2>7, <3>4, SlotSteps
      <4>2. Open' = Open
        BY <4>1, SlotsNext
      <4>3. CASE ctl.ok
        <5>1. Store!Fall
          BY <3>1, <4>2, <4>3 DEF Store!Fall
        <5> QED BY <5>1 DEF StoreStep, Store!StoreNext
      <4>4. CASE ~ ctl.ok
        <5>1. ctl.ok = FALSE
          BY <2>2, <4>4 DEF CacheType, CtlType, CtlRegs
        <5> QED BY <3>1, <4>2, <5>1 DEF StoreStep
      <4> QED BY <4>3, <4>4
    <3> QED BY <3>2, <3>3, <3>4
  <2> QED BY <2>5, <2>6, <2>7
<1> QED BY <1>1, <1>2

(***************************************************************************)
(* A lane whose requester does not invalidate it is a store of words:      *)
(* hits, fills, evictions, write-backs and flushes, and the reads that a   *)
(* flush lets through, never show in what the requester is answered.       *)
(***************************************************************************)
THEOREM LaneIsWordStore ==
  ASSUME "invalidate" \notin Uses
  PROVE  Spec => IsWordStore
<1>1. Init => RInv /\ Store!StoreInit
  BY RInvInit, RefinesInit
<1>2. RInv /\ [Next]_vars => RInv' /\ StoreStep
  BY RInvNext, RefinesNext
<1> QED BY <1>1, <1>2, PTL DEF Spec, IsWordStore, Store!StoreSpec, StoreStep

-----------------------------------------------------------------------------
(***************************************************************************)
(* What a requester is answered that keeps its requests and its flushes    *)
(* apart: one ok for each request, and the word it wrote last.             *)
(***************************************************************************)

(* Such a requester asks for nothing while a flush or an invalidation is   *)
(* under way, nor for those while a request is on.                         *)
WaitsTurn == Uses \cap {"flush_over_request", "request_over_flush"} = {}

-----------------------------------------------------------------------------
(* The invariant.                                                          *)

FlushAsked == port.flush \/ req.flush_pending
InvalAsked == port.invalidate \/ req.invalidate_pending

(* What was asked for is in one stage, from its pulse to its done strobe,  *)
(* and keeps requests away.                                                *)
DrainStages ==
  /\ FlushAsked => ~ ctl.flushing /\ ~ InvalAsked /\ ~ ctl.invalidating
  /\ InvalAsked => ~ ctl.flushing /\ ~ ctl.invalidating
  /\ ctl.flushing => ~ ctl.invalidating
  /\ ctl.flush_done \/ ctl.invalidate_done =>
       ~ FlushAsked /\ ~ InvalAsked /\ ~ ctl.flushing /\ ~ ctl.invalidating
  /\ ctl.st = "INVAL_CLEAR" => ctl.invalidating

DrainApart ==
  /\ draining => ~ Asking
  /\ \/ FlushAsked \/ InvalAsked \/ ctl.flushing \/ ctl.invalidating
     \/ ctl.flush_done \/ ctl.invalidate_done
     => draining

NoProbe == req.probe = "none" /\ ~ ctl.resp_l

Noticed   == req.rd_l = port.rd /\ req.wr_l = port.wr
Unnoticed == ~ req.rd_l /\ ~ req.wr_l

(* The stages of a request.  While none is on, nothing is left of the one  *)
(* before it.                                                              *)
Away  == ~ Asking /\ req.held = {} /\ ~ Serving /\ ~ ctl.ok
Fresh == Asking /\ Unnoticed /\ req.held = {} /\ ~ Serving /\ ~ ctl.ok
Kept  == Asking /\ req.held = {Asked} /\ ~ Serving /\ ~ ctl.ok
Taken == Asking /\ Noticed /\ req.held = {} /\ Serving /\ ctl.cur = Asked /\ ~ ctl.ok
Told  == Asking /\ Noticed /\ req.held = {} /\ ~ Serving /\ ctl.ok

InTurn == Away \/ Fresh \/ Kept \/ Taken \/ Told

TInv ==
  /\ IInv
  /\ DrainStages /\ DrainApart /\ NoProbe
  /\ ~ (port.rd /\ port.wr)
  /\ InTurn

-----------------------------------------------------------------------------
(* The requester.                                                          *)

(* What it drives next. *)
LEMMA ClientTurns ==
  ASSUME TypeOK, ClientStep, WaitsTurn, ~ (port.rd /\ port.wr)
  PROVE  /\ Asking /\ ~ ctl.ok =>
              /\ port'.rd = port.rd /\ port'.wr = port.wr
              /\ port'.at = port.at /\ port'.din = port.din
         /\ Asking /\ ctl.ok => ~ Asking'
         /\ draining /\ Asking' => Asking
         /\ port'.flush \/ port'.invalidate => ~ draining /\ ~ Asking /\ ~ Asking'
         /\ ~ (port'.flush /\ port'.invalidate)
         /\ ~ (port'.rd /\ port'.wr)
<1>1. PICK r \in Requests : port' \in Drains(r)
  BY DEF ClientStep
<1>2. r \in Port /\ port \in Port
  BY <1>1, RequestsType DEF TypeOK, CacheType
<1>3. PICK d \in {"none"} \cup {u \in Uses \cap {"flush", "invalidate"} : MayDrain(r)} :
        port' = [r EXCEPT !.flush = (d = "flush"), !.invalidate = (d = "invalidate")]
  BY <1>1 DEF Drains
<1>4. /\ port'.rd = r.rd /\ port'.wr = r.wr /\ port'.at = r.at /\ port'.din = r.din
      /\ port'.flush = (d = "flush") /\ port'.invalidate = (d = "invalidate")
  BY <1>2, <1>3 DEF Port
<1>5. d # "none" => ~ draining /\ ~ Asking /\ ~ (r.rd \/ r.wr)
  BY <1>3 DEF MayDrain, WaitsTurn
<1>6. /\ Asking /\ ~ ctl.ok => r = port
      /\ Asking /\ ctl.ok => r = Quiet
  BY <1>1 DEF Requests
<1>7. ~ Asking => ~ (r.rd /\ r.wr) /\ (draining => r = Quiet)
  <2> SUFFICES ASSUME ~ Asking PROVE ~ (r.rd /\ r.wr) /\ (draining => r = Quiet)
    OBVIOUS
  <2>1. MayAsk => ~ draining
    BY DEF MayAsk, WaitsTurn
  <2>2. r = Quiet \/ (r \in Reads /\ ~ draining) \/ (r \in Writes /\ ~ draining)
    BY <1>1, <2>1 DEF Requests
  <2>3. r = Quiet => ~ r.rd
    BY DEF Quiet
  <2>4. r \in Reads => ~ r.wr
    BY DEF Reads, Quiet
  <2>5. r \in Writes => ~ r.rd
    <3>1. ASSUME r \in Writes PROVE ~ r.rd
      <4>1. PICK W \in {{[Quiet EXCEPT !.wr = TRUE, !.at = a, !.din = v] : v \in Val} :
                        a \in Addr} : r \in W
        BY <3>1 DEF Writes
      <4>2. PICK a \in Addr : W = {[Quiet EXCEPT !.wr = TRUE, !.at = a, !.din = v] : v \in Val}
        OBVIOUS
      <4>3. PICK v \in Val : r = [Quiet EXCEPT !.wr = TRUE, !.at = a, !.din = v]
        BY <4>1, <4>2
      <4> QED BY <4>3 DEF Quiet
    <3> QED BY <3>1
  <2> QED BY <2>2, <2>3, <2>4, <2>5
<1>8. ~ Quiet.rd /\ ~ Quiet.wr
  BY DEF Quiet
<1>9. Asking' <=> r.rd \/ r.wr
  BY <1>4 DEF Asking
<1> QED BY <1>4, <1>5, <1>6, <1>7, <1>8, <1>9

-----------------------------------------------------------------------------
(* The controller.                                                         *)

(* Where a flush and an invalidation begin and end. *)
LEMMA Draining ==
  ASSUME CacheType, FlushPhase, ctl.st = "INVAL_CLEAR" => ctl.invalidating,
         NEW x, CtlStep(x)
  PROVE  /\ ctl'.flushing => ctl.flushing \/ FlushTake
         /\ ctl'.invalidating => ctl.invalidating \/ InvalTake
         /\ ctl'.flush_done => ctl.flushing /\ ~ ctl'.flushing
         /\ ctl'.invalidate_done => ctl.invalidating /\ ~ ctl'.invalidating
         /\ ctl'.st = "INVAL_CLEAR" => ctl'.invalidating
<1>a. ctl \in CtlRegs
  BY DEF CacheType, CtlType
<1>b. /\ Strobed \in CtlRegs /\ Strobed.st = ctl.st /\ Strobed.flushing = ctl.flushing
      /\ Strobed.invalidating = ctl.invalidating
      /\ Strobed.flush_done = FALSE /\ Strobed.invalidate_done = FALSE
  BY <1>a, StrobedFrame DEF Strobed, CtlRegs
<1>c. ctl.st \in FlushStates => ctl.flushing
  BY DEF FlushPhase
<1> HIDE DEF Strobed
<1>1. CASE InitClear
  <2>1. CASE Goto("IDLE")
    BY <1>b, <2>1 DEF Goto, Becomes, Live, CtlRegs
  <2>2. CASE Becomes([Strobed EXCEPT !.clr_set = @ + 1])
    BY <1>b, <2>2 DEF Becomes, Live, CtlRegs
  <2> QED BY <1>1, <2>1, <2>2 DEF InitClear
<1>2. CASE Take
  BY <1>b, <1>2 DEF Take, Becomes, Live, CtlRegs
<1>3. CASE StartFlush
  BY <1>b, <1>3 DEF StartFlush, Becomes, Live, CtlRegs
<1>4. CASE StartInvalidate
  BY <1>b, <1>4 DEF StartInvalidate, Becomes, Live, CtlRegs
<1>5. CASE Rest
  BY <1>b, <1>5 DEF Rest, Becomes, Live, CtlRegs
<1>6. CASE LookupHit \/ LookupMiss
  <2>1. CASE LookupHit
    BY <1>b, <2>1 DEF LookupHit, Becomes, Live, CtlRegs
  <2>2. CASE LookupMiss
    BY <1>b, <2>2 DEF LookupMiss, Becomes, Live, CtlRegs
  <2> QED BY <1>6, <2>1, <2>2
<1>7. CASE RdResp \/ WrCommit
  <2>1. CASE RdResp
    BY <1>b, <2>1 DEF RdResp, Becomes, Live, CtlRegs
  <2>2. CASE WrCommit
    BY <1>b, <2>2 DEF WrCommit, Becomes, Live, CtlRegs
  <2> QED BY <1>7, <2>1, <2>2
<1>8. CASE \/ WbLoad \/ WbPrime \/ WbReq(x) \/ WbStream(x) \/ WbGap
           \/ FillReq(x) \/ FillStream(x) \/ PostFillWait \/ FlushWait
  <2>1. PICK s \in States \ {"INVAL_CLEAR"} : Goto(s)
    <3>1. CASE WbLoad \/ WbPrime \/ PostFillWait \/ FlushWait
      BY <3>1 DEF WbLoad, WbPrime, PostFillWait, FlushWait, States, ServeStates,
         WriteBackStates, FillStates, FlushStates
    <3>2. CASE WbReq(x) \/ WbStream(x) \/ FillReq(x) \/ FillStream(x)
      BY <3>2 DEF WbReq, WbStream, FillReq, FillStream, States, ServeStates,
         WriteBackStates, FillStates, FlushStates
    <3>3. CASE WbGap
      BY <3>3 DEF WbGap, States, ServeStates, WriteBackStates, FillStates, FlushStates
    <3> QED BY <1>8, <3>1, <3>2, <3>3
  <2> QED BY <1>b, <2>1 DEF Goto, Becomes, Live, CtlRegs
<1>9. CASE FlushCheck
  <2>1. CASE Becomes([Strobed EXCEPT !.blk = [set |-> LookupSet, way |-> ctl.scan.way],
                !.victim_tag = tags.q[ctl.scan.way].tag, !.st = "WB_LOAD"])
    BY <1>b, <2>1 DEF Becomes, Live, CtlRegs
  <2>2. CASE Goto("FLUSH_ADVANCE")
    BY <1>b, <2>2 DEF Goto, Becomes, Live, CtlRegs
  <2> QED BY <1>9, <2>1, <2>2 DEF FlushCheck
<1>10. CASE FlushAdvance
  <2>1. ctl.flushing
    BY <1>c, <1>10 DEF FlushAdvance, FlushStates
  <2>2. CASE Becomes([Strobed EXCEPT !.flushing = FALSE, !.flush_done = TRUE, !.st = "IDLE"])
    BY <1>b, <2>1, <2>2 DEF Becomes, Live, CtlRegs
  <2>3. CASE Becomes([Strobed EXCEPT !.scan = NextScan, !.st = "FLUSH_WAIT"])
    BY <1>b, <2>1, <2>3 DEF Becomes, Live, CtlRegs
  <2> QED BY <1>10, <2>2, <2>3 DEF FlushAdvance
<1>11. CASE InvalClear
  <2>1. ctl.invalidating
    BY <1>11 DEF InvalClear
  <2>2. CASE Becomes([Strobed EXCEPT !.invalidating = FALSE, !.invalidate_done = TRUE,
                                     !.st = "IDLE"])
    BY <1>b, <2>1, <2>2 DEF Becomes, Live, CtlRegs
  <2>3. CASE Becomes([Strobed EXCEPT !.clr_set = @ + 1])
    BY <1>b, <2>1, <2>3 DEF Becomes, Live, CtlRegs
  <2> QED BY <1>11, <2>2, <2>3 DEF InvalClear
<1> QED BY <1>1, <1>2, <1>3, <1>4, <1>5, <1>6, <1>7, <1>8, <1>9, <1>10, <1>11 DEF CtlStep
-----------------------------------------------------------------------------
(* The front end.                                                          *)

(* What it does of requests that nothing blocks, and of pulses. *)
LEMMA FrontTurns ==
  ASSUME CacheType, ReqStep(CtlOut), req.probe = "none", Asking => ~ Blocked
  PROVE  /\ req'.probe = "none"
         /\ req'.held = IF ctl.st = "INIT_CLEAR" /\ req.held = {} /\ Asking /\ NewReq(FALSE)
                          THEN {Asked}
                          ELSE IF ReqTake THEN {} ELSE req.held
         /\ req'.rd_l \in BOOLEAN /\ req'.wr_l \in BOOLEAN
         /\ req'.rd_l => port.rd
         /\ req'.wr_l => port.wr
         /\ Asking /\ ctl.st # "INIT_CLEAR" =>
              req'.rd_l = port.rd /\ req'.wr_l = port.wr
         /\ Asking /\ ctl.st = "INIT_CLEAR" => ~ req'.rd_l /\ ~ req'.wr_l
         /\ req'.flush_pending => FlushAsked /\ ~ FlushTake
         /\ req'.invalidate_pending => InvalAsked /\ ~ InvalTake
<1> DEFINE i == CtlOut
<1>1. /\ req'.probe = ProbeNext(i) /\ req'.held = HeldNext(i)
      /\ req'.rd_l = (Tracks(i) /\ port.rd) /\ req'.wr_l = (Tracks(i) /\ port.wr)
      /\ req'.flush_pending => (req.flush_pending \/ FlushRise) /\ ~ i.flush_take
      /\ req'.invalidate_pending => (req.invalidate_pending \/ InvalidateRise) /\ ~ i.inval_take
  BY DEF ReqStep
<1>2. /\ i.flushing = ctl.flushing /\ i.invalidating = ctl.invalidating
      /\ i.init_busy = (ctl.st = "INIT_CLEAR") /\ i.req_take = ReqTake
      /\ i.flush_take = FlushTake /\ i.inval_take = InvalTake /\ i.can_lookup = CanLookup
  BY DEF CtlOut
<1>3. /\ ~ CanLookup
      /\ ~ ProbeAccept(i) /\ ~ ProbeMiss(i) /\ ~ ProbeOrphan(i)
  BY <1>2 DEF CanLookup, ProbeAccept, ProbeMiss, ProbeOrphan, Asking, Blocked, BlockNormalReq
<1>4. BlockNormalReq(i.flushing, i.invalidating) = Blocked
  BY <1>2 DEF Blocked
<1>5. Capture(i) <=> ctl.st = "INIT_CLEAR" /\ req.held = {} /\ Asking /\ NewReq(FALSE)
  <2>1. CASE Asking
    <3>1. ~ Blocked
      BY <2>1
    <3> QED BY <1>2, <1>4, <2>1, <3>1 DEF Capture, ReqPending, NewReq
  <2>2. CASE ~ Asking
    BY <2>2 DEF Capture, NewReq, Asking
  <2> QED BY <2>1, <2>2
<1>6. ~ Refetch(i)
  BY <1>3 DEF Refetch
<1>7. Tracks(i) <=> ctl.st # "INIT_CLEAR" /\ ~ Blocked
  BY <1>2, <1>4 DEF Tracks
<1>8. port.rd \in BOOLEAN /\ port.wr \in BOOLEAN
  BY DEF CacheType, Port
<1> HIDE DEF i
<1>9. ProbeNext(i) = "none"
  <2>1. ~ (req.probe = "lookup" /\ i.hit) /\ ~ (req.probe = "pending")
    OBVIOUS
  <2> QED BY <1>2, <1>3, <2>1 DEF ProbeNext
<1>10. HeldNext(i) = IF Capture(i) THEN {Asked} ELSE IF ReqTake THEN {} ELSE req.held
  BY <1>2, <1>6 DEF HeldNext
<1>11. /\ req'.held = IF ctl.st = "INIT_CLEAR" /\ req.held = {} /\ Asking /\ NewReq(FALSE)
                        THEN {Asked}
                        ELSE IF ReqTake THEN {} ELSE req.held
       /\ req'.probe = "none"
  BY <1>1, <1>5, <1>9, <1>10
<1> QED BY <1>1, <1>2, <1>7, <1>8, <1>11 DEF FlushRise, InvalidateRise, FlushAsked, InvalAsked

-----------------------------------------------------------------------------
(* The steps.                                                              *)

(* A request that is on is not blocked. *)
LEMMA NotBlocked ==
  ASSUME DrainApart
  PROVE  Asking => ~ Blocked /\ ~ ctl.flushing /\ ~ ctl.invalidating
BY DEF DrainApart, Blocked, BlockNormalReq, FlushStart, InvalidateStart, FlushRise,
       InvalidateRise, FlushAsked, InvalAsked

(* What was asked for goes from one stage to the next. *)
LEMMA DrainStep ==
  ASSUME TInv, WaitsTurn, Next
  PROVE  (DrainStages /\ DrainApart)'
<1>1. PICK x \in Answers : CtlStep(x) /\ ReqStep(CtlOut) /\ ClientStep
  BY DEF Next, CacheStep
<1>2. /\ TypeOK /\ CacheType /\ FlushPhase /\ DrainStages /\ DrainApart
      /\ req.probe = "none" /\ ~ (port.rd /\ port.wr)
  BY DEF TInv, IInv, TypeOK, NoProbe
<1>3. /\ ctl'.flushing => ctl.flushing \/ FlushTake
      /\ ctl'.invalidating => ctl.invalidating \/ InvalTake
      /\ ctl'.flush_done => ctl.flushing /\ ~ ctl'.flushing
      /\ ctl'.invalidate_done => ctl.invalidating /\ ~ ctl'.invalidating
      /\ ctl'.st = "INVAL_CLEAR" => ctl'.invalidating
  BY <1>1, <1>2, Draining DEF DrainStages
<1>4. /\ req'.flush_pending => FlushAsked /\ ~ FlushTake
      /\ req'.invalidate_pending => InvalAsked /\ ~ InvalTake
  BY <1>1, <1>2, FrontTurns, NotBlocked
<1>5. /\ draining /\ Asking' => Asking
      /\ port'.flush \/ port'.invalidate => ~ draining /\ ~ Asking /\ ~ Asking'
      /\ ~ (port'.flush /\ port'.invalidate)
  BY <1>1, <1>2, ClientTurns DEF TInv
<1>6. draining' = \/ port'.flush \/ port'.invalidate
                  \/ draining /\ ~ ctl.flush_done /\ ~ ctl.invalidate_done
  BY <1>1 DEF ClientStep
<1>7. /\ FlushTake => FlushAsked
      /\ InvalTake => InvalAsked
  BY DEF FlushTake, InvalTake, FlushStart, InvalidateStart, FlushRise, InvalidateRise,
         FlushAsked, InvalAsked
<1>8. DrainStages'
  BY <1>2, <1>3, <1>4, <1>5, <1>7 DEF DrainStages, DrainApart, FlushAsked, InvalAsked
<1>9. DrainApart'
  BY <1>2, <1>3, <1>4, <1>5, <1>6, <1>7 DEF DrainStages, DrainApart, FlushAsked, InvalAsked
<1> QED BY <1>8, <1>9

(* A request is noticed once, taken once and answered once. *)
LEMMA TurnStep ==
  ASSUME TInv, WaitsTurn, Next
  PROVE  /\ InTurn' /\ NoProbe' /\ ~ (port'.rd /\ port'.wr)
         /\ ctl.st \in {"RD_RESP", "WR_COMMIT"} => Taken /\ Told'
         /\ ctl.st \notin {"RD_RESP", "WR_COMMIT"} => ctl'.ok = FALSE
<1>1. PICK x \in Answers : CtlStep(x) /\ ReqStep(CtlOut) /\ ClientStep
  BY DEF Next, CacheStep
<1>2. /\ TypeOK /\ CacheType /\ ReqType /\ port \in Port /\ FlushPhase /\ DrainStages /\ DrainApart
      /\ req.probe = "none" /\ ctl.resp_l = FALSE /\ ~ (port.rd /\ port.wr)
  BY DEF TInv, IInv, TypeOK, CacheType, CtlType, CtlRegs, NoProbe
<1>3. Asking => ~ Blocked /\ ~ ctl.flushing /\ ~ ctl.invalidating
  BY <1>2, NotBlocked
<1>4. /\ req'.probe = "none"
      /\ req'.held = IF ctl.st = "INIT_CLEAR" /\ req.held = {} /\ Asking /\ NewReq(FALSE)
                       THEN {Asked}
                       ELSE IF ReqTake THEN {} ELSE req.held
      /\ req'.rd_l => port.rd
      /\ req'.wr_l => port.wr
      /\ Asking /\ ctl.st # "INIT_CLEAR" => req'.rd_l = port.rd /\ req'.wr_l = port.wr
      /\ Asking /\ ctl.st = "INIT_CLEAR" => ~ req'.rd_l /\ ~ req'.wr_l
  BY <1>1, <1>2, <1>3, FrontTurns
<1>5. /\ Asking /\ ~ ctl.ok =>
           /\ port'.rd = port.rd /\ port'.wr = port.wr
           /\ port'.at = port.at /\ port'.din = port.din
      /\ Asking /\ ctl.ok => ~ Asking'
      /\ ~ (port'.rd /\ port'.wr)
  BY <1>1, <1>2, ClientTurns
<1>6. /\ Serving /\ ctl.st \notin {"RD_RESP", "WR_COMMIT"} => Serving' /\ ctl'.cur = ctl.cur
      /\ ctl.st \in {"RD_RESP", "WR_COMMIT"} => Serving /\ ~ Serving'
      /\ ReqTake => ~ Serving /\ Serving' /\ ctl'.cur = FrontReq
      /\ ~ Serving /\ ~ ReqTake => ~ Serving'
  BY <1>1, <1>2, Moving
<1>7. /\ ctl.st \in {"RD_RESP", "WR_COMMIT"} => ctl'.ok = TRUE
      /\ ctl.st \notin {"RD_RESP", "WR_COMMIT"} => ctl'.ok = FALSE
      /\ ctl'.resp_l = FALSE
  <2>1. /\ ctl'.resp_l = (req.probe = "resp")
        /\ ctl'.ok = (ctl.resp_l \/ ctl.st \in {"RD_RESP", "WR_COMMIT"})
    BY <1>1, <1>2, Answering
  <2> QED BY <1>2, <2>1
<1>8. NoProbe'
  BY <1>4, <1>7 DEF NoProbe
<1>9. ReqTake <=> ctl.st = "IDLE" /\ (req.held # {} \/ NewReq(Blocked))
  BY DEF ReqTake, Valid, ReqValid, ReqPending
<1>10. Serving => ctl.st \notin {"INIT_CLEAR", "IDLE"}
  BY DEF Serving, ServeStates, WriteBackStates, FillStates
<1>11. Asking /\ ~ ctl.ok => Asking' /\ Asked' = Asked
  BY <1>5 DEF Asking, Asked
<1>12. CASE Away
  <2>1. ~ ReqTake /\ ctl.st \notin {"RD_RESP", "WR_COMMIT"}
    BY <1>6, <1>9, <1>12 DEF Away, NewReq, Asking
  <2>2. req'.held = {} /\ ~ Serving' /\ ~ ctl'.ok /\ Unnoticed'
    BY <1>4, <1>6, <1>7, <1>12, <2>1 DEF Away, Asking, Unnoticed
  <2> QED BY <1>5, <1>7, <1>8, <2>1, <2>2 DEF InTurn, Away, Fresh
<1>13. CASE Fresh
  <2>1. ctl.st \in {"INIT_CLEAR", "IDLE"}
    BY <1>2, <1>3, <1>13 DEF Fresh, Serving, FlushPhase, DrainStages, CacheType, CtlType, CtlRegs, States
  <2>2. NewReq(FALSE) /\ NewReq(Blocked)
    BY <1>3, <1>13 DEF Fresh, NewReq, Unnoticed, Asking
  <2>3. CASE ctl.st = "INIT_CLEAR"
    <3>1. ~ ReqTake
      BY <1>9, <2>3
    <3>2. Kept'
      BY <1>4, <1>6, <1>7, <1>11, <1>13, <2>2, <2>3, <3>1 DEF Fresh, Kept
    <3> QED BY <1>5, <1>7, <1>8, <2>3, <3>2 DEF InTurn
  <2>4. CASE ctl.st = "IDLE"
    <3>1. ReqTake
      BY <1>9, <2>2, <2>4
    <3>2. FrontReq = Asked
      BY <1>2, <1>13 DEF FrontReq, ReqPending, Fresh, Asked, Unnoticed, Port, ReqType, ReqRegs
    <3>3. Taken'
      BY <1>4, <1>5, <1>6, <1>7, <1>11, <1>13, <2>4, <3>1, <3>2 DEF Fresh, Taken, Noticed
    <3> QED BY <1>5, <1>7, <1>8, <2>4, <3>3 DEF InTurn
  <2> QED BY <2>1, <2>3, <2>4
<1>14. CASE Kept
  <2>1. ctl.st \in {"INIT_CLEAR", "IDLE"}
    BY <1>2, <1>3, <1>14 DEF Kept, Serving, FlushPhase, DrainStages, CacheType, CtlType, CtlRegs, States
  <2>2. req.held # {} /\ FrontReq = Asked
    BY <1>14 DEF Kept, FrontReq, ReqPending
  <2>3. CASE ctl.st = "INIT_CLEAR"
    <3>1. ~ ReqTake
      BY <1>9, <2>3
    <3>2. Kept'
      BY <1>4, <1>6, <1>7, <1>11, <1>14, <2>2, <2>3, <3>1 DEF Kept
    <3> QED BY <1>5, <1>7, <1>8, <2>3, <3>2 DEF InTurn
  <2>4. CASE ctl.st = "IDLE"
    <3>1. ReqTake
      BY <1>9, <2>2, <2>4
    <3>2. Taken'
      BY <1>4, <1>5, <1>6, <1>7, <1>11, <1>14, <2>2, <2>4, <3>1 DEF Kept, Taken, Noticed
    <3> QED BY <1>5, <1>7, <1>8, <2>4, <3>2 DEF InTurn
  <2> QED BY <2>1, <2>3, <2>4
<1>15. CASE Taken
  <2>1. ctl.st \notin {"INIT_CLEAR", "IDLE"} /\ ~ ReqTake /\ req'.held = {} /\ Noticed'
    BY <1>4, <1>5, <1>9, <1>10, <1>15 DEF Taken, Noticed
  <2>2. CASE ctl.st \in {"RD_RESP", "WR_COMMIT"}
    <3>1. Told'
      BY <1>6, <1>7, <1>11, <1>15, <2>1, <2>2 DEF Taken, Told
    <3> QED BY <1>5, <1>8, <1>15, <2>2, <3>1 DEF InTurn
  <2>3. CASE ctl.st \notin {"RD_RESP", "WR_COMMIT"}
    <3>1. Taken'
      BY <1>6, <1>7, <1>11, <1>15, <2>1, <2>3 DEF Taken
    <3> QED BY <1>5, <1>7, <1>8, <2>3, <3>1 DEF InTurn
  <2> QED BY <2>2, <2>3
<1>16. CASE Told
  <2>1. ~ NewReq(FALSE) /\ ~ NewReq(Blocked)
    BY <1>16 DEF Told, Noticed, NewReq
  <2>2. ~ ReqTake /\ ctl.st \notin {"RD_RESP", "WR_COMMIT"}
    BY <1>6, <1>9, <1>16, <2>1 DEF Told
  <2>3. Away'
    BY <1>4, <1>5, <1>6, <1>7, <1>16, <2>1, <2>2 DEF Told, Away
  <2> QED BY <1>5, <1>7, <1>8, <2>2, <2>3 DEF InTurn
<1> QED BY <1>12, <1>13, <1>14, <1>15, <1>16 DEF TInv, InTurn

(* The invariant holds after reset, and a clock keeps it. *)
LEMMA TInvInit == Init => TInv
<1> SUFFICES ASSUME Init PROVE TInv
  OBVIOUS
<1>1. IInv
  BY InvInit
<1>2. /\ port = Quiet /\ draining = FALSE /\ ctl.st = "INIT_CLEAR"
      /\ ctl.ok = FALSE /\ ctl.flushing = FALSE /\ ctl.invalidating = FALSE
      /\ ctl.flush_done = FALSE /\ ctl.invalidate_done = FALSE /\ ctl.resp_l = FALSE
      /\ req.held = {} /\ req.probe = "none"
      /\ req.flush_pending = FALSE /\ req.invalidate_pending = FALSE
  BY DEF Init, CacheInit, ReqInit
<1>3. Away
  BY <1>2 DEF Away, Asking, Quiet, Serving, ServeStates, WriteBackStates, FillStates
<1> QED BY <1>1, <1>2, <1>3 DEF TInv, DrainStages, DrainApart, FlushAsked, InvalAsked, NoProbe,
       Quiet, InTurn

LEMMA TInvNext ==
  ASSUME WaitsTurn, TInv, [Next]_vars
  PROVE  TInv'
<1>1. CASE Next
  <2>1. IInv'
    BY InvNext DEF TInv
  <2> QED BY <1>1, <2>1, DrainStep, TurnStep DEF TInv
<1>2. CASE UNCHANGED vars
  <2>1. IInv'
    BY InvNext DEF TInv
  <2>2. /\ DrainStages' = DrainStages /\ DrainApart' = DrainApart /\ NoProbe' = NoProbe
        /\ port' = port /\ Away' = Away /\ Fresh' = Fresh /\ Kept' = Kept /\ Taken' = Taken
        /\ Told' = Told
    BY <1>2 DEF vars, DrainStages, DrainApart, NoProbe, Away, Fresh, Kept, Taken, Told,
       FlushAsked, InvalAsked, Asking, Asked, Noticed, Unnoticed, Serving
  <2> QED BY <2>1, <2>2 DEF TInv, InTurn
<1> QED BY <1>1, <1>2

(* Whoever keeps requests and flushes apart sees ok only while a request   *)
(* of its is on: jtframe_cache_ctrl answers each of them once.             *)
THEOREM EachAnsweredOnce ==
  ASSUME WaitsTurn
  PROVE  Spec => []OkAnswersRequest
<1>1. TInv => OkAnswersRequest
  BY DEF TInv, InTurn, Away, Fresh, Kept, Taken, Told, OkAnswersRequest
<1> QED BY <1>1, TInvInit, TInvNext, PTL DEF Spec
-----------------------------------------------------------------------------
(* The words.                                                              *)

(* The last word written is in the lane, from the clock of its ok, which   *)
(* is when the requester counts it as written.                             *)
Visible == IF ctl.ok /\ port.wr
             THEN [latest EXCEPT ![LineOf(port.at)][port.at.off] = port.din]
             ELSE latest

LatestStored == \A a \in Addr : Stored[a] = Visible[LineOf(a)][a.off]
AnswerStored == ctl.ok /\ port.rd => ctl.dout = Stored[port.at]

LInv == TInv /\ RInv /\ LatestStored /\ AnswerStored

LEMMA LInvInit == Init => LInv
<1> SUFFICES ASSUME Init PROVE LInv
  OBVIOUS
<1>1. ctl.ok = FALSE /\ latest = mem
  BY DEF Init, CacheInit
<1>2. LatestStored /\ AnswerStored
  BY <1>1, StoredInit DEF LatestStored, AnswerStored, Visible
<1> QED BY <1>2, TInvInit, RInvInit DEF LInv

LEMMA LInvNext ==
  ASSUME WaitsTurn, "invalidate" \notin Uses, LInv, [Next]_vars
  PROVE  LInv'
<1>1. TInv' /\ RInv'
  BY TInvNext, RInvNext DEF LInv
<1>2. CASE UNCHANGED vars
  <2>1. Stored' = Stored
    BY <1>2 DEF vars, Stored, Holders
  <2>2. Visible' = Visible /\ ctl' = ctl /\ port' = port
    BY <1>2 DEF vars, Visible
  <2> QED BY <1>1, <2>1, <2>2 DEF LInv, LatestStored, AnswerStored
<1>3. CASE Next
  <2>1. PICK x \in Answers : CtlStep(x) /\ ReqStep(CtlOut) /\ ClientStep
    BY <1>3 DEF Next, CacheStep
  <2>2. /\ port \in Port /\ latest \in [Line -> [Off -> Val]] /\ TypeOK /\ ~ (port.rd /\ port.wr)
        /\ ctl.resp_l = FALSE
    BY DEF LInv, TInv, IInv, TypeOK, CacheType, CtlType, CtlRegs, NoProbe
  <2>3. latest' = Visible
    BY <2>1 DEF ClientStep, Visible, LineOf
  <2>4. /\ InTurn'
        /\ ctl.st \in {"RD_RESP", "WR_COMMIT"} => Taken /\ Told'
        /\ ctl.st \notin {"RD_RESP", "WR_COMMIT"} => ctl'.ok = FALSE
    BY <1>3, TurnStep DEF LInv
  <2>5. CASE ctl.st \notin {"RD_RESP", "WR_COMMIT"}
    <3>1. Stored' = Stored
      BY <1>3, <2>5, StoredKept DEF LInv
    <3>2. Visible' = Visible
      BY <2>3, <2>4, <2>5 DEF Visible
    <3> QED BY <1>1, <2>4, <2>5, <3>1, <3>2 DEF LInv, LatestStored, AnswerStored
  <2>6. CASE ctl.st \in {"RD_RESP", "WR_COMMIT"}
    <3>1. Taken /\ Told' /\ ctl.ok = FALSE
      BY <2>2, <2>4, <2>6 DEF Taken, TypeOK, CacheType, CtlType, CtlRegs
    <3>2. /\ port'.rd = port.rd /\ port'.wr = port.wr
          /\ port'.at = port.at /\ port'.din = port.din
          /\ ctl'.ok
      BY <2>1, <2>2, <3>1, ClientTurns DEF Taken, Told
    <3>3. ctl.cur.wr = (port.wr /\ ~ port.rd) /\ ctl.cur.at = port.at /\ ctl.cur.din = port.din
          /\ (port.rd \/ port.wr)
      BY <3>1 DEF Taken, Asked, Asking
    <3>4. CASE ctl.st = "RD_RESP"
      <4>1. ~ ctl.cur.wr /\ ctl'.dout = Stored[ctl.cur.at]
        BY <2>1, <2>2, <3>4, ReadStored DEF LInv
      <4>2. Stored' = Stored
        BY <1>3, <3>4, StoredKept DEF LInv
      <4>3. ~ port'.wr /\ Visible' = Visible
        BY <2>2, <2>3, <3>1, <3>2, <3>3, <4>1 DEF Visible
      <4> QED BY <1>1, <3>2, <3>3, <4>1, <4>2, <4>3 DEF LInv, LatestStored, AnswerStored
    <3>5. CASE ctl.st = "WR_COMMIT"
      <4>1. ctl.cur.wr /\ Stored' = [Stored EXCEPT ![ctl.cur.at] = ctl.cur.din]
        BY <1>3, <3>5, WriteStored DEF LInv
      <4>2. Visible = latest /\ port'.wr /\ ~ port'.rd
        BY <2>2, <3>1, <3>2, <3>3, <4>1 DEF Visible
      <4>3. Visible' = [latest EXCEPT ![LineOf(port.at)][port.at.off] = port.din]
        BY <2>3, <3>2, <4>2 DEF Visible, LineOf
      <4>4. LatestStored'
        <5>1. ASSUME NEW a \in Addr PROVE Stored'[a] = Visible'[LineOf(a)][a.off]
          <6>1. /\ Stored[a] = latest[LineOf(a)][a.off]
                /\ LineOf(a) \in Line /\ a.off \in Off
                /\ LineOf(port.at) \in Line /\ port.at.off \in Off /\ port.at \in Addr
            BY <2>2, <4>2 DEF LInv, LatestStored, LineOf, Line, Addr, Port
          <6>2. a = port.at <=> LineOf(a) = LineOf(port.at) /\ a.off = port.at.off
            BY <6>1 DEF LineOf, Addr
          <6>3. Stored'[a] = IF a = port.at THEN port.din ELSE Stored[a]
            BY <3>3, <4>1 DEF Stored
          <6>4. Visible'[LineOf(a)][a.off]
                  = IF a = port.at THEN port.din ELSE latest[LineOf(a)][a.off]
            BY <2>2, <4>3, <6>1, <6>2
          <6> QED BY <6>1, <6>3, <6>4
        <5> QED BY <5>1 DEF LatestStored
      <4> QED BY <1>1, <4>2, <4>4 DEF LInv, AnswerStored
    <3> QED BY <2>6, <3>4, <3>5
  <2> QED BY <2>5, <2>6
<1> QED BY <1>2, <1>3

(* Whoever keeps requests and flushes apart reads the word written last,   *)
(* whatever was filled, evicted, written back or flushed since.            *)
THEOREM ReadsTheLatest ==
  ASSUME WaitsTurn, "invalidate" \notin Uses
  PROVE  Spec => []ReadLatest
<1>1. LInv => ReadLatest
  <2> SUFFICES ASSUME LInv, ctl.ok, port.rd
               PROVE  ctl.dout = latest[LineOf(port.at)][port.at.off]
    BY DEF ReadLatest
  <2>1. ctl.dout = Stored[port.at] /\ port.at \in Addr /\ Visible = latest
    BY DEF LInv, AnswerStored, TInv, IInv, TypeOK, CacheType, Port, Visible
  <2> QED BY <2>1 DEF LInv, LatestStored
<1> QED BY <1>1, LInvInit, LInvNext, PTL DEF Spec

=============================================================================
