---------------------------- MODULE CacheProofs ----------------------------
(***************************************************************************)
(* The safety of a cache lane, for every geometry and every use of it: the *)
(* lemmas on the wires and on the clock edge that all later proofs cite,   *)
(* type correctness, and the invariant of CacheInvariant, which is         *)
(* inductive, with what follows from it.                                   *)
(***************************************************************************)
EXTENDS CacheInvariant, WellFoundedInduction, TLAPS

-----------------------------------------------------------------------------
(* Arithmetic of the geometry.                                             *)

(* A non-empty set of naturals has a least element,                        *)
LEMMA LeastExists ==
  ASSUME NEW T, T \subseteq Nat, T # {}
  PROVE  \E x \in T : \A y \in T : x <= y
<1>1. IsWellFoundedOn(OpToRel(<, Nat), Nat)
  BY NatLessThanWellFounded
<1>2. PICK x \in T : \A y \in T : ~ (<<y, x>> \in OpToRel(<, Nat))
  BY <1>1, WFMin
<1>3. \A y \in T : ~ (y < x)
  BY <1>2 DEF OpToRel
<1> QED BY <1>3

(* and so have ways ...                                                    *)
LEMMA LeastWay ==
  ASSUME NEW T, T \subseteq Way, T # {}
  PROVE  \E x \in T : \A y \in T : x <= y
<1>1. T \subseteq Nat
  BY GeometryAssumption DEF Way
<1> QED BY <1>1, LeastExists

(* ... which also have a greatest one, the way that is compared last.      *)
LEMMA GreatestWay ==
  ASSUME NEW T, T \subseteq Way, T # {}
  PROVE  \E x \in T : \A y \in T : y <= x
<1> DEFINE M == {Ways - 1 - w : w \in T}
<1>1. M \subseteq Nat
  BY GeometryAssumption DEF Way
<1>2. M # {}
  OBVIOUS
<1> HIDE DEF M
<1>3. PICK m \in M : \A y \in M : m <= y
  BY <1>1, <1>2, LeastExists
<1> USE DEF M
<1>4. PICK x \in T : m = Ways - 1 - x
  OBVIOUS
<1>5. ASSUME NEW y \in T PROVE y <= x
  <2>1. m <= Ways - 1 - y
    BY <1>3
  <2> QED BY <2>1, <1>4, GeometryAssumption DEF Way
<1> QED BY <1>4, <1>5

(* Zero is an index of everything.                                         *)
LEMMA ZeroIn == /\ 0 \in Way /\ 0 \in Set /\ 0 \in Tag /\ 0 \in Off /\ 0 \in Val
                /\ ZeroAddr \in Addr /\ ZeroBlock \in Block
                /\ NoRequest \in Request /\ NoEntry \in Entry
<1>1. 0 \in Way /\ 0 \in Set /\ 0 \in Tag /\ 0 \in Off /\ 0 \in Val
  BY GeometryAssumption DEF Way, Set, Tag, Off, Val
<1> QED BY <1>1 DEF ZeroAddr, ZeroBlock, NoRequest, NoEntry, Addr, Block, Request, Entry

-----------------------------------------------------------------------------
(* The tag store.                                                          *)

(* A hit names a way whose registered entry is valid and has the tag.      *)
LEMMA HitWayMatches ==
  ASSUME NEW t, Hit(t)
  PROVE  HitWay(t) \in Way /\ tags.q[HitWay(t)].valid /\ tags.q[HitWay(t)].tag = t
<1>1. \E w \in Matches(t) : \A v \in Matches(t) : v <= w
  BY GreatestWay DEF Matches, Hit
<1>2. HitWay(t) \in Matches(t)
  BY <1>1 DEF HitWay
<1> QED BY <1>2 DEF Matches

(* The victim is a way of the set.                                         *)
LEMMA VictimType ==
  ASSUME TagsType, NEW s \in Set
  PROVE  VictimWay(s) \in Way /\ VictimTag(s) \in Tag /\ VictimDirty(s) \in BOOLEAN
<1>1. tags.repl[s] \in Way
  BY DEF TagsType, TagStore
<1>2. tags.q[tags.repl[s]] \in Entry
  BY <1>1 DEF TagsType, TagStore
<1>3. VictimWay(s) \in Way
  <2>1. CASE Invalid = {}
    BY <2>1, <1>1 DEF VictimWay
  <2>2. CASE Invalid # {}
    <3>1. \E w \in Invalid : \A v \in Invalid : w <= v
      BY <2>2, LeastWay DEF Invalid
    <3>2. VictimWay(s) \in Invalid
      BY <2>2, <3>1 DEF VictimWay
    <3> QED BY <3>2 DEF Invalid
  <2> QED BY <2>1, <2>2
<1>4. VictimTag(s) \in Tag /\ VictimDirty(s) \in BOOLEAN
  BY <1>2, ZeroIn DEF VictimTag, VictimDirty, Entry
<1> QED BY <1>3, <1>4

(* Every operation of the tag store keeps its type.                        *)
LEMMA TagStoreType ==
  ASSUME TagsType, NEW rs \in Set, NEW s \in Set, NEW w \in Way, NEW e \in Entry,
         \/ TagsRead(rs) \/ TagsClear(rs, s)
         \/ TagsUpdate(rs, s, w, e) \/ TagsAdvance(rs, s, w)
  PROVE  TagsType'
<1> USE DEF TagsType, TagStore
<1>1. CASE TagsRead(rs)
  BY <1>1 DEF TagsRead
<1>2. CASE TagsClear(rs, s)
  BY <1>2, ZeroIn DEF TagsClear
<1>3. CASE TagsUpdate(rs, s, w, e)
  BY <1>3 DEF TagsUpdate
<1>4. CASE TagsAdvance(rs, s, w)
  <2>1. NextWay(w) \in Way
    BY GeometryAssumption DEF NextWay, Way
  <2> QED BY <1>4, <2>1 DEF TagsAdvance
<1> QED BY <1>1, <1>2, <1>3, <1>4

-----------------------------------------------------------------------------
(* The wires.                                                              *)

(* The request the controller takes is one that was asked for.             *)
LEMMA FrontReqType ==
  ASSUME ReqType, port \in Port
  PROVE  Asked \in Request /\ FrontReq \in Request
<1>1. Asked \in Request
  BY DEF Asked, Port, Request
<1>2. CASE ReqPending
  <2>1. PICK r \in Request : req.held = {r}
    BY <1>2 DEF ReqType, ReqRegs, ReqPending
  <2>2. FrontReq = r
    BY <1>2, <2>1 DEF FrontReq
  <2> QED BY <1>1, <2>2
<1>3. CASE ~ ReqPending
  BY <1>1, <1>3 DEF FrontReq, Asked, Port, Request
<1> QED BY <1>1, <1>2, <1>3

(* Whatever is looked up lies in the tag store.                            *)
LEMMA LookupType ==
  ASSUME CacheType
  PROVE  /\ LookupSet \in Set /\ LookupTag \in Tag /\ TagRdSet \in Set
         /\ VictimBlk \in Block /\ HitNow \in BOOLEAN
         /\ HitNow => HitBlk \in Block
<1>1. /\ req.probe_at \in Addr
      /\ ctl.scan \in Block
      /\ ctl.cur.at \in Addr
  BY DEF CacheType, ReqType, ReqRegs, CtlType, CtlRegs, Request
<1>2. LookupSet \in Set /\ LookupTag \in Tag
  BY <1>1 DEF LookupSet, LookupTag, Addr, Block
<1>3. FrontReq.at.set \in Set
  BY FrontReqType DEF CacheType, Request, Addr
<1>4. TagRdSet \in Set
  BY <1>1, <1>3, ZeroIn DEF TagRdSet, Addr, Block
<1>5. VictimBlk \in Block
  BY <1>2, VictimType DEF VictimBlk, Block, CacheType
<1>6. HitNow \in BOOLEAN /\ (HitNow => HitBlk \in Block)
  BY <1>2, HitWayMatches DEF HitNow, HitBlk, Hit, Block
<1> QED BY <1>2, <1>4, <1>5, <1>6

-----------------------------------------------------------------------------
(* The clock edge of the controller's registers.                           *)

(* The strobes change nothing of what the controller decides on.           *)
LEMMA StrobedFrame ==
  ASSUME CacheType
  PROVE  /\ Strobed \in CtlRegs
         /\ Strobed.st = ctl.st /\ Strobed.flushing = ctl.flushing
         /\ Strobed.invalidating = ctl.invalidating
         /\ Strobed.cur = ctl.cur /\ Strobed.blk = ctl.blk
         /\ Strobed.victim_tag = ctl.victim_tag
         /\ Strobed.scan = ctl.scan /\ Strobed.clr_set = ctl.clr_set
         /\ ~ Strobed.flush_done /\ ~ Strobed.invalidate_done
<1>1. ctl \in CtlRegs
  BY DEF CacheType, CtlType
<1>2. req.probe_at.off \in Off /\ (req.probe = "resp") \in BOOLEAN
  BY DEF CacheType, ReqType, ReqRegs, Addr
<1>3. HitNow => HitBlk \in Block
  BY LookupType
<1> QED BY <1>1, <1>2, <1>3 DEF Strobed, CtlRegs

(* What becomes of the registers, c being what the state's code assigns.   *)
LEMMA BecomesFrame ==
  ASSUME CacheType, NEW c \in CtlRegs, Becomes(c)
  PROVE  /\ CtlType'
         /\ ctl'.st = c.st /\ ctl'.flushing = c.flushing
         /\ ctl'.blk = c.blk /\ ctl'.clr_set = c.clr_set
         /\ ctl'.flush_done = c.flush_done
         /\ ctl'.invalidate_done = c.invalidate_done
         /\ c.st \in ServeStates /\ ~ c.flushing => ctl'.cur = c.cur
         /\ c.st \in WriteBackStates => ctl'.victim_tag = c.victim_tag
         /\ c.flushing => ctl'.scan = c.scan
<1>1. /\ Live(c) \in CtlRegs
      /\ Live(c).st = c.st /\ Live(c).flushing = c.flushing
      /\ Live(c).blk = c.blk /\ Live(c).clr_set = c.clr_set
      /\ Live(c).flush_done = c.flush_done
      /\ Live(c).invalidate_done = c.invalidate_done
      /\ c.st \in ServeStates /\ ~ c.flushing => Live(c).cur = c.cur
      /\ c.st \in WriteBackStates => Live(c).victim_tag = c.victim_tag
      /\ c.flushing => Live(c).scan = c.scan
  BY ZeroIn DEF Live, CtlRegs
<1>2. CASE ctl.resp_l
  <2>1. data[ctl.probe_blk][ctl.probe_off] \in Val
    BY DEF CacheType, CtlType, CtlRegs
  <2>2. ctl' = [Live(c) EXCEPT !.ok = TRUE,
                               !.dout = data[ctl.probe_blk][ctl.probe_off]]
    BY <1>2 DEF Becomes
  <2> HIDE DEF Live
  <2> QED BY <1>1, <2>1, <2>2 DEF CtlType, CtlRegs
<1>3. CASE ~ ctl.resp_l
  BY <1>1, <1>3 DEF Becomes, CtlType
<1> QED BY <1>2, <1>3

(* A step of the state machine that assigns nothing but the state.         *)
LEMMA GotoFrame ==
  ASSUME CacheType, NEW s \in States, Goto(s)
  PROVE  /\ CtlType'
         /\ ctl'.st = s /\ ctl'.flushing = ctl.flushing
         /\ ctl'.blk = ctl.blk /\ ctl'.clr_set = ctl.clr_set
         /\ ~ ctl'.flush_done /\ ~ ctl'.invalidate_done
         /\ s \in ServeStates /\ ~ ctl.flushing => ctl'.cur = ctl.cur
         /\ s \in WriteBackStates => ctl'.victim_tag = ctl.victim_tag
         /\ ctl.flushing => ctl'.scan = ctl.scan
<1> DEFINE c == [Strobed EXCEPT !.st = s]
<1> HIDE DEF Strobed
<1>1. /\ c \in CtlRegs
      /\ c.st = s /\ c.flushing = ctl.flushing
      /\ c.blk = ctl.blk /\ c.clr_set = ctl.clr_set
      /\ ~ c.flush_done /\ ~ c.invalidate_done
      /\ c.cur = ctl.cur /\ c.victim_tag = ctl.victim_tag /\ c.scan = ctl.scan
  BY StrobedFrame DEF CtlRegs
<1>2. Becomes(c)
  BY DEF Goto
<1> HIDE DEF c
<1> QED BY <1>1, <1>2, BecomesFrame

(* The registers of the request front end.                                 *)
LEMMA ReqStepType ==
  ASSUME CacheType, ReqStep(CtlOut)
  PROVE  ReqType'
<1>1. Asked \in Request
  BY FrontReqType DEF CacheType
<1>2. /\ ctl.flushing \in BOOLEAN /\ ctl.invalidating \in BOOLEAN
      /\ port \in Port /\ req \in ReqRegs
  BY DEF CacheType, CtlType, CtlRegs, ReqType
<1>3. [wr |-> FALSE, at |-> req.probe_at, din |-> 0] \in Request
  BY <1>2, ZeroIn DEF ReqRegs, Request
<1>4. ProbeNext(CtlOut) \in {"none", "pending", "lookup", "resp"}
  BY DEF ProbeNext
<1>5. HeldNext(CtlOut) \in {{}} \cup {{r} : r \in Request}
  BY <1>1, <1>2, <1>3 DEF HeldNext, ReqRegs
<1>6. ProbeAtNext(CtlOut) \in Addr
  BY <1>2, ZeroIn DEF ProbeAtNext, ReqRegs, Port
<1>7. req' \in ReqRegs
  BY <1>2, <1>4, <1>5, <1>6 DEF ReqStep, ReqRegs, Port
<1> QED BY <1>7 DEF ReqType

-----------------------------------------------------------------------------
(* The requester.                                                          *)

(* Whatever the client asks for is of the port's type.                     *)
LEMMA RequestsType ==
  ASSUME TypeOK
  PROVE  Requests \subseteq Port
<1>1. Quiet \in Port
  BY ZeroIn DEF Quiet, Port
<1>2. port \in Port
  BY DEF TypeOK, CacheType
<1>3. Reads \subseteq Port
  BY <1>1 DEF Reads, Port
<1>4. Writes \subseteq Port
  <2>1. \A a \in Addr, v \in Val :
          [Quiet EXCEPT !.wr = TRUE, !.at = a, !.din = v] \in Port
    BY <1>1 DEF Port
  <2>2. ASSUME NEW p \in Writes PROVE p \in Port
    <3>1. PICK W \in {{[Quiet EXCEPT !.wr = TRUE, !.at = a, !.din = v] : v \in Val} :
                      a \in Addr} : p \in W
      BY DEF Writes
    <3>2. PICK a \in Addr : W = {[Quiet EXCEPT !.wr = TRUE, !.at = a, !.din = v] : v \in Val}
      OBVIOUS
    <3> QED BY <2>1, <3>1, <3>2
  <2> QED BY <2>2
<1>5. CASE Asking
  BY <1>1, <1>2, <1>5 DEF Requests
<1>6. CASE ~ Asking
  BY <1>1, <1>3, <1>4, <1>6 DEF Requests
<1> QED BY <1>5, <1>6

(* The front end's registers keep their types, whatever its client does. *)
LEMMA ClientType ==
  ASSUME TypeOK, ClientStep
  PROVE  /\ port' \in Port
         /\ latest' \in [Line -> [Off -> Val]]
         /\ draining' \in BOOLEAN
<1>2. port \in Port /\ ctl \in CtlRegs
  BY DEF TypeOK, CacheType, CtlType
<1>3. Requests \subseteq Port
  BY RequestsType
<1>4. ASSUME NEW r \in Port, NEW p \in Drains(r) PROVE p \in Port
  <2>1. \E d : p = [r EXCEPT !.flush = (d = "flush"), !.invalidate = (d = "invalidate")]
    BY DEF Drains
  <2> QED BY <2>1 DEF Port
<1>5. port' \in Port
  BY <1>3, <1>4 DEF ClientStep
<1>6. latest' \in [Line -> [Off -> Val]]
  <2>1. [tag |-> port.at.tag, set |-> port.at.set] \in Line
        /\ port.at.off \in Off /\ port.din \in Val
    BY <1>2 DEF Port, Addr, Line
  <2> QED BY <2>1 DEF ClientStep, TypeOK
<1>7. draining' \in BOOLEAN
  BY <1>2, <1>5 DEF ClientStep, TypeOK, CtlRegs, Port
<1> QED BY <1>5, <1>6, <1>7

-----------------------------------------------------------------------------
(* The controller, state by state.                                         *)

Memories == /\ data \in [Block -> [Off -> Val]]
            /\ mem \in [Line -> [Off -> Val]]

(* A step that keeps the data RAM and the memory, and assigns c.           *)
LEMMA AssignType ==
  ASSUME CacheType, NEW c \in CtlRegs, Becomes(c),
         TagsType', UNCHANGED <<data, mem>>
  PROVE  CtlType' /\ TagsType' /\ Memories'
<1>1. CtlType'
  BY BecomesFrame
<1>2. Memories'
  BY DEF CacheType, Memories
<1> QED BY <1>1, <1>2

(* Reading the tags through port 0 keeps them typed.                       *)
LEMMA ReadType ==
  ASSUME CacheType, TagsRead(TagRdSet)
  PROVE  TagsType'
<1>1. TagRdSet \in Set /\ TagsType
  BY LookupType DEF CacheType
<1> QED BY <1>1, ZeroIn, TagStoreType

(* So do the controller's, in each state of its FSM. *)
LEMMA CtlStepType ==
  ASSUME CacheType, NEW x, CtlStep(x)
  PROVE  CtlType' /\ TagsType' /\ Memories'
<1> USE DEF States, ServeStates, WriteBackStates, FillStates, FlushStates
<1>0. /\ TagRdSet \in Set /\ ctl \in CtlRegs /\ TagsType /\ Memories
      /\ ctl.cur \in Request /\ ctl.cur.at \in Addr /\ ctl.scan \in Block
      /\ ctl.blk \in Block /\ ctl.clr_set \in Set
      /\ LookupSet \in Set
  BY LookupType DEF CacheType, CtlType, CtlRegs, Request, Memories
<1>a. /\ Strobed \in CtlRegs /\ Strobed.st = ctl.st
      /\ Strobed.scan = ctl.scan /\ Strobed.clr_set = ctl.clr_set
  BY StrobedFrame
<1>b. ASSUME NEW c \in CtlRegs, Becomes(c), TagsRead(TagRdSet), UNCHANGED <<data, mem>>
      PROVE  CtlType' /\ TagsType' /\ Memories'
  BY <1>b, AssignType, ReadType
<1>c. ASSUME NEW s \in States, Goto(s)
      PROVE  CtlType'
  BY <1>c, GotoFrame
<1>d. ASSUME NEW s \in States, Goto(s), TagsRead(TagRdSet), UNCHANGED <<data, mem>>
      PROVE  CtlType' /\ TagsType' /\ Memories'
  BY <1>d, <1>c, <1>0, ReadType DEF Memories
<1>e. ASSUME NEW s \in Set, TagsClear(TagRdSet, s) PROVE TagsType'
  BY <1>e, <1>0, ZeroIn, TagStoreType
<1>f. ASSUME NEW w \in Way, NEW t \in Tag, NEW s \in Set,
             \/ TagsUpdate(TagRdSet, s, w, Clean(t))
             \/ TagsUpdate(TagRdSet, s, w, Dirty(t))
      PROVE  TagsType'
  <2>1. Clean(t) \in Entry /\ Dirty(t) \in Entry
    BY DEF Clean, Dirty, Entry
  <2> QED BY <1>f, <1>0, <2>1, TagStoreType
<1> HIDE DEF Strobed
<1>1. CASE InitClear
  <2>1. TagsType'
    BY <1>0, <1>1, <1>e DEF InitClear
  <2>2. CASE ClearDone
    BY <1>0, <1>1, <2>1, <2>2, <1>c DEF InitClear, Memories
  <2>3. CASE ~ ClearDone
    <3>1. [Strobed EXCEPT !.clr_set = @ + 1] \in CtlRegs
      BY <1>0, <1>a, <2>3, GeometryAssumption DEF CtlRegs, ClearDone, Set
    <3> QED BY <1>1, <2>1, <2>3, <3>1, AssignType DEF InitClear
  <2> QED BY <2>2, <2>3
<1>2. CASE Take
  <2>1. [Strobed EXCEPT !.cur = FrontReq, !.st = "LOOKUP"] \in CtlRegs
    BY <1>a, FrontReqType DEF CtlRegs, CacheType
  <2> QED BY <1>2, <1>b, <2>1 DEF Take
<1>3. CASE StartFlush
  <2>1. [Strobed EXCEPT !.flushing = TRUE, !.scan = ZeroBlock,
                        !.st = "FLUSH_CHECK"] \in CtlRegs
    BY <1>a, ZeroIn DEF CtlRegs
  <2> QED BY <1>3, <1>b, <2>1 DEF StartFlush
<1>4. CASE StartInvalidate
  <2>1. [Strobed EXCEPT !.invalidating = TRUE, !.clr_set = 0,
                        !.st = "INVAL_CLEAR"] \in CtlRegs
    BY <1>a, ZeroIn DEF CtlRegs
  <2> QED BY <1>4, <1>b, <2>1 DEF StartInvalidate
<1>5. CASE Rest
  BY <1>5, <1>a, <1>b DEF Rest
<1>6. CASE LookupHit
  <2>1. [Strobed EXCEPT !.blk = HitBlk,
           !.st = IF ctl.cur.wr THEN "WR_COMMIT" ELSE "RD_RESP"] \in CtlRegs
    BY <1>6, <1>a, LookupType DEF CtlRegs, LookupHit
  <2> QED BY <1>6, <1>b, <2>1 DEF LookupHit
<1>7. CASE LookupMiss
  <2>1. [Strobed EXCEPT !.blk = VictimBlk, !.victim_tag = VictimTag(LookupSet),
           !.st = IF VictimDirty(LookupSet) THEN "WB_LOAD" ELSE "FILL_REQ"] \in CtlRegs
    BY <1>0, <1>a, LookupType, VictimType DEF CtlRegs
  <2>2. VictimWay(LookupSet) \in Way /\ ctl.cur.at.set \in Set
    BY <1>0, VictimType DEF Addr
  <2>3. TagsType'
    BY <1>0, <1>7, <2>2, ZeroIn, TagStoreType DEF LookupMiss
  <2> QED BY <1>7, <2>1, <2>3, AssignType DEF LookupMiss
<1>8. CASE RdResp
  <2>1. data[ctl.blk][ctl.cur.at.off] \in Val
    BY <1>0 DEF Memories, Addr
  <2>2. [Strobed EXCEPT !.dout = data[ctl.blk][ctl.cur.at.off],
                        !.ok = TRUE, !.st = "IDLE"] \in CtlRegs
    BY <1>a, <2>1 DEF CtlRegs
  <2> QED BY <1>8, <1>b, <2>2 DEF RdResp
<1>9. CASE WrCommit
  <2>1. [Strobed EXCEPT !.ok = TRUE, !.st = "IDLE"] \in CtlRegs
    BY <1>a DEF CtlRegs
  <2>2. CtlType'
    BY <1>9, <2>1, BecomesFrame DEF WrCommit
  <2>3. TagsType'
    BY <1>0, <1>9, <1>f DEF WrCommit, Addr, Block
  <2>4. Memories'
    BY <1>0, <1>9 DEF WrCommit, Memories, Request, Addr
  <2> QED BY <2>2, <2>3, <2>4
<1>10. CASE WbLoad
  BY <1>10, <1>d DEF WbLoad
<1>11. CASE WbPrime
  BY <1>11, <1>d DEF WbPrime
<1>12. CASE WbReq(x)
  BY <1>12, <1>d DEF WbReq
<1>13. CASE WbStream(x)
  <2>1. VictimLine \in Line
    BY <1>0 DEF VictimLine, Line, CtlRegs, Addr, Block
  <2>2. Memories'
    BY <1>0, <1>13, <2>1 DEF WbStream, Memories
  <2> QED BY <1>13, <1>c, <2>2, ReadType DEF WbStream
<1>14. CASE WbGap
  <2>1. ctl.scan.set \in Set /\ ctl.scan.way \in Way /\ ctl.victim_tag \in Tag
    BY <1>0 DEF Block, CtlRegs
  <2>2. TagsType'
    BY <1>14, <2>1, <1>f, ReadType DEF WbGap
  <2> QED BY <1>0, <1>14, <1>c, <2>2 DEF WbGap, Memories
<1>15. CASE FillReq(x)
  BY <1>15, <1>d DEF FillReq
<1>16. CASE FillStream(x)
  <2>1. CurLine \in Line
    BY <1>0 DEF CurLine, Line, Addr
  <2>2. Memories'
    BY <1>0, <1>16, <2>1 DEF FillStream, Memories
  <2>3. TagsType'
    BY <1>0, <1>16, <1>f, ReadType DEF FillStream, Addr, Block
  <2> QED BY <1>16, <1>c, <2>2, <2>3 DEF FillStream
<1>17. CASE PostFillWait
  BY <1>17, <1>d DEF PostFillWait
<1>18. CASE FlushWait
  BY <1>18, <1>d DEF FlushWait
<1>19. CASE FlushCheck
  <2>1. tags.q[ctl.scan.way].tag \in Tag /\ ctl.scan.way \in Way
    BY <1>0 DEF Block, TagsType, TagStore, Entry
  <2>2. [Strobed EXCEPT !.blk = [set |-> LookupSet, way |-> ctl.scan.way],
           !.victim_tag = tags.q[ctl.scan.way].tag, !.st = "WB_LOAD"] \in CtlRegs
    BY <1>0, <1>a, <2>1 DEF CtlRegs, Block
  <2> QED BY <1>19, <1>b, <1>d, <2>2 DEF FlushCheck
<1>20. CASE FlushAdvance
  <2>1. [Strobed EXCEPT !.flushing = FALSE, !.flush_done = TRUE, !.st = "IDLE"]
          \in CtlRegs
    BY <1>a DEF CtlRegs
  <2>2. ~ ScanLast => NextScan \in Block
    BY <1>0, GeometryAssumption DEF ScanLast, NextScan, Block, Way, Set
  <2>3. ~ ScanLast => [Strobed EXCEPT !.scan = NextScan, !.st = "FLUSH_WAIT"] \in CtlRegs
    BY <1>a, <2>2 DEF CtlRegs
  <2> QED BY <1>20, <1>b, <2>1, <2>3 DEF FlushAdvance
<1>21. CASE InvalClear
  <2>1. TagsType'
    BY <1>0, <1>21, <1>e DEF InvalClear
  <2>2. [Strobed EXCEPT !.invalidating = FALSE, !.invalidate_done = TRUE,
                        !.st = "IDLE"] \in CtlRegs
    BY <1>a DEF CtlRegs
  <2>3. ~ ClearDone => [Strobed EXCEPT !.clr_set = @ + 1] \in CtlRegs
    BY <1>0, <1>a, GeometryAssumption DEF CtlRegs, ClearDone, Set
  <2> QED BY <1>21, <2>1, <2>2, <2>3, AssignType DEF InvalClear
<1> QED BY <1>1, <1>2, <1>3, <1>4, <1>5, <1>6, <1>7, <1>8, <1>9, <1>10, <1>11,
           <1>12, <1>13, <1>14, <1>15, <1>16, <1>17, <1>18, <1>19, <1>20, <1>21
        DEF CtlStep

-----------------------------------------------------------------------------
(* After reset every register has its type. *)
LEMMA TypeInit == Init => TypeOK
<1> SUFFICES ASSUME Init PROVE TypeOK
  OBVIOUS
<1>1. TagsType
  BY ZeroIn DEF Init, CacheInit, TagsInit, TagsType, TagStore
<1>2. ReqType
  BY ZeroIn DEF Init, CacheInit, ReqInit, ReqType, ReqRegs
<1>3. CtlType
  BY ZeroIn DEF Init, CacheInit, CtlType, CtlRegs, States
<1>4. port \in Port
  BY ZeroIn DEF Init, Quiet, Port
<1>5. data \in [Block -> [Off -> Val]]
  BY ZeroIn DEF Init, CacheInit
<1> QED BY <1>1, <1>2, <1>3, <1>4, <1>5 DEF Init, TypeOK, CacheType

(* Every clock of a lane keeps the types. *)
LEMMA TypeNext == TypeOK /\ [Next]_vars => TypeOK'
<1> SUFFICES ASSUME TypeOK, [Next]_vars PROVE TypeOK'
  OBVIOUS
<1>1. CASE Next
  <2>1. PICK x \in Answers : CacheStep(x) /\ ClientStep
    BY <1>1 DEF Next
  <2>2. CtlType' /\ TagsType' /\ Memories'
    BY <2>1, CtlStepType DEF TypeOK, CacheStep
  <2>3. ReqType'
    BY <2>1, ReqStepType DEF TypeOK, CacheStep
  <2>4. /\ port' \in Port
        /\ latest' \in [Line -> [Off -> Val]]
        /\ draining' \in BOOLEAN
    BY <2>1, ClientType
  <2> QED BY <2>2, <2>3, <2>4 DEF TypeOK, CacheType, Memories
<1>2. CASE UNCHANGED vars
  BY <1>2 DEF vars, TypeOK, CacheType, TagsType, ReqType, CtlType
<1> QED BY <1>1, <1>2

(* Every register of the lane, and everything behind it, holds a value of  *)
(* its width in every reachable state, for every geometry and every use.   *)
THEOREM TypeCorrect == Spec => []TypeOK
BY TypeInit, TypeNext, PTL DEF Spec

-----------------------------------------------------------------------------
(* What the operations of the tag store do to its entries.                 *)

(* A clock that only reads the tag RAM leaves it and shows the set asked for. *)
LEMMA ReadEffect ==
  ASSUME TagsType, NEW rs \in Set, TagsRead(rs)
  PROVE  tags'.ram = tags.ram /\ tags'.q = tags.ram[rs]
BY DEF TagsRead, TagsType, TagStore

(* So does one that moves the pointer of a set to its next way. *)
LEMMA AdvanceEffect ==
  ASSUME TagsType, NEW rs \in Set, NEW s \in Set, NEW w \in Way, TagsAdvance(rs, s, w)
  PROVE  tags'.ram = tags.ram /\ tags'.q = tags.ram[rs]
BY DEF TagsAdvance, TagsType, TagStore

(* A write of the tag RAM changes one way of one set. *)
LEMMA UpdateEffect ==
  ASSUME TagsType, NEW rs \in Set, NEW s \in Set, NEW w \in Way, NEW e \in Entry,
         TagsUpdate(rs, s, w, e)
  PROVE  \A r \in Set, v \in Way :
           tags'.ram[r][v] = IF r = s /\ v = w THEN e ELSE tags.ram[r][v]
BY DEF TagsUpdate, TagsType, TagStore

(* A clear empties every way of one set. *)
LEMMA ClearEffect ==
  ASSUME TagsType, NEW rs \in Set, NEW s \in Set, TagsClear(rs, s)
  PROVE  \A r \in Set, v \in Way :
           tags'.ram[r][v] = IF r = s THEN NoEntry ELSE tags.ram[r][v]
BY DEF TagsClear, TagsType, TagStore

(* A probe looks the tags up only while a flush writes back.               *)
LEMMA ProbeWaits ==
  ASSUME ReqStep(CtlOut), ~ CanLookup
  PROVE  req'.probe # "lookup"
<1>1. req'.probe = ProbeNext(CtlOut) /\ ~ CtlOut.can_lookup
  BY DEF ReqStep, CtlOut
<1>2. ProbeNext(CtlOut) # "lookup"
  BY <1>1 DEF ProbeNext
<1> QED BY <1>1, <1>2

-----------------------------------------------------------------------------
(* The parts of the invariant that speak of the controller.                *)
Control ==
  /\ Cleared /\ FlushPhase /\ LookupFresh /\ CheckFresh
  /\ BlkPlaced /\ MissAbsent /\ FillPresent /\ VictimHeld /\ WrittenBack
  /\ Scanned /\ FlushedAll /\ InvalidateDoneEmpty

(* A step that leaves entries, lines and memory alone.                     *)
StoreKept == tags'.ram = tags.ram /\ data' = data /\ mem' = mem

(* A step that keeps entries, lines and memory keeps what relates them. *)
LEMMA KeepsCoherence ==
  ASSUME UniqueTags, CleanMatchesMemory, StoreKept, ctl.st # "INIT_CLEAR"
  PROVE  UniqueTags' /\ CleanMatchesMemory'
BY DEF UniqueTags, CleanMatchesMemory, StoreKept

(* The states a step enters without touching a tag, a line or a register.  *)
LEMMA WaitStep ==
  ASSUME IInv, StoreKept, NEW s \in States, Goto(s),
         \/ ctl.st = "WB_LOAD" /\ s = "WB_PRIME"
         \/ ctl.st = "WB_PRIME" /\ s = "WB_REQ"
         \/ ctl.st = "WB_REQ" /\ s \in {"WB_REQ", "WB_STREAM"}
         \/ ctl.st = "WB_STREAM" /\ s = "WB_STREAM"
         \/ ctl.st = "FILL_REQ" /\ s \in {"FILL_REQ", "FILL_STREAM"}
         \/ ctl.st = "FILL_STREAM" /\ s = "FILL_STREAM"
         \/ ctl.st = "WB_GAP" /\ s = "FILL_REQ" /\ ~ ctl.flushing
         \/ ctl.st = "POSTFILL_WAIT" /\ s \in {"WR_COMMIT", "RD_RESP"}
  PROVE  Control'
<1> USE DEF States, ServeStates, WriteBackStates, FillStates, FlushStates
<1>1. /\ ctl'.st = s /\ ctl'.flushing = ctl.flushing
      /\ ctl'.blk = ctl.blk /\ ctl'.clr_set = ctl.clr_set
      /\ ~ ctl'.flush_done /\ ~ ctl'.invalidate_done
      /\ s \in ServeStates /\ ~ ctl.flushing => ctl'.cur = ctl.cur
      /\ s \in WriteBackStates => ctl'.victim_tag = ctl.victim_tag
      /\ ctl.flushing => ctl'.scan = ctl.scan
  BY GotoFrame DEF IInv, TypeOK
<1>2. Cleared' /\ FlushPhase' /\ LookupFresh' /\ CheckFresh' /\ FlushedAll' /\ InvalidateDoneEmpty'
  BY <1>1 DEF IInv, Cleared, FlushPhase, LookupFresh, CheckFresh, FlushedAll, InvalidateDoneEmpty
<1>3. BlkPlaced' /\ FillPresent' /\ WrittenBack'
  BY <1>1 DEF IInv, StoreKept, BlkPlaced, FillPresent, WrittenBack, Present, FlushPhase
<1>4. MissAbsent'
  BY <1>1 DEF IInv, StoreKept, MissAbsent, Present
<1>5. VictimHeld'
  BY <1>1 DEF IInv, StoreKept, VictimHeld, Present, NeedsBack
<1>6. Scanned'
  BY <1>1 DEF IInv, StoreKept, Scanned, NeedsBack, Before
<1> QED BY <1>2, <1>3, <1>4, <1>5, <1>6 DEF Control

(* Starting a request, a flush or an invalidation, or resting.             *)
LEMMA IdleStep ==
  ASSUME IInv, ReqStep(CtlOut), Take \/ StartFlush \/ StartInvalidate \/ Rest
  PROVE  Control' /\ StoreKept
<1> USE DEF States, ServeStates, WriteBackStates, FillStates, FlushStates
<1>0. /\ CacheType /\ TagsType /\ ctl.st = "IDLE" /\ ~ ctl.flushing
      /\ TagRdSet \in Set /\ ctl \in CtlRegs /\ ~ CanLookup
  BY LookupType DEF IInv, TypeOK, CacheType, CtlType, FlushPhase, CanLookup,
     Take, StartFlush, StartInvalidate, Rest, ReqTake, FlushTake, InvalTake
<1>1. StoreKept /\ tags'.q = tags.ram[TagRdSet] /\ req'.probe # "lookup"
  BY <1>0, ReadEffect, ProbeWaits DEF Take, StartFlush, StartInvalidate, Rest, StoreKept
<1>2. /\ Strobed \in CtlRegs
      /\ Strobed.st = "IDLE" /\ ~ Strobed.flushing
      /\ ~ Strobed.flush_done /\ ~ Strobed.invalidate_done
  BY <1>0, StrobedFrame
<1> HIDE DEF Strobed
<1>3. CASE Take
  <2> DEFINE c == [Strobed EXCEPT !.cur = FrontReq, !.st = "LOOKUP"]
  <2>1. /\ c \in CtlRegs /\ c.st = "LOOKUP" /\ ~ c.flushing /\ c.cur = FrontReq
        /\ ~ c.flush_done /\ ~ c.invalidate_done
    BY <1>0, <1>2, FrontReqType DEF CtlRegs, CacheType
  <2>a. Becomes(c)
    BY <1>3 DEF Take
  <2> HIDE DEF c
  <2>2. /\ ctl'.st = "LOOKUP" /\ ~ ctl'.flushing /\ ctl'.cur = FrontReq
        /\ ~ ctl'.flush_done /\ ~ ctl'.invalidate_done
    BY <1>0, <2>1, <2>a, BecomesFrame
  <2>3. TagRdSet = FrontReq.at.set
    BY <1>3 DEF Take, TagRdSet, ReqTake, FlushTake
  <2> QED BY <1>1, <2>2, <2>3 DEF Control, StoreKept, Cleared, FlushPhase, LookupFresh,
        CheckFresh, BlkPlaced, MissAbsent, FillPresent, VictimHeld, WrittenBack,
        Scanned, FlushedAll, InvalidateDoneEmpty
<1>4. CASE StartFlush
  <2> DEFINE c == [Strobed EXCEPT !.flushing = TRUE, !.scan = ZeroBlock,
                                  !.st = "FLUSH_CHECK"]
  <2>1. /\ c \in CtlRegs /\ c.st = "FLUSH_CHECK" /\ c.flushing /\ c.scan = ZeroBlock
        /\ ~ c.flush_done /\ ~ c.invalidate_done
    BY <1>0, <1>2, ZeroIn DEF CtlRegs
  <2> HIDE DEF c
  <2>2. /\ ctl'.st = "FLUSH_CHECK" /\ ctl'.flushing /\ ctl'.scan = ZeroBlock
        /\ ~ ctl'.flush_done /\ ~ ctl'.invalidate_done
    BY <1>0, <1>4, <2>1, BecomesFrame DEF StartFlush, c
  <2>3. TagRdSet = 0
    BY <1>0, <1>4 DEF StartFlush, TagRdSet, FlushTake, ReqTake
  <2>4. \A b \in Block : ~ Before(b, ZeroBlock)
    BY GeometryAssumption DEF Before, ZeroBlock, Block, Set, Way
  <2>5. Scanned'
    BY <2>2, <2>4 DEF Scanned, Before
  <2> QED BY <1>1, <2>2, <2>3, <2>5 DEF Control, StoreKept, Cleared, FlushPhase,
        LookupFresh, CheckFresh, BlkPlaced, MissAbsent, FillPresent, VictimHeld,
        WrittenBack, FlushedAll, InvalidateDoneEmpty, ZeroBlock
<1>5. CASE StartInvalidate
  <2> DEFINE c == [Strobed EXCEPT !.invalidating = TRUE, !.clr_set = 0,
                                  !.st = "INVAL_CLEAR"]
  <2>1. /\ c \in CtlRegs /\ c.st = "INVAL_CLEAR" /\ ~ c.flushing /\ c.clr_set = 0
        /\ ~ c.flush_done /\ ~ c.invalidate_done
    BY <1>0, <1>2, ZeroIn DEF CtlRegs
  <2> HIDE DEF c
  <2>2. /\ ctl'.st = "INVAL_CLEAR" /\ ~ ctl'.flushing /\ ctl'.clr_set = 0
        /\ ~ ctl'.flush_done /\ ~ ctl'.invalidate_done
    BY <1>0, <1>5, <2>1, BecomesFrame DEF StartInvalidate, c
  <2>3. Cleared'
    BY <2>2, GeometryAssumption DEF Cleared, Set
  <2> QED BY <1>1, <2>2, <2>3 DEF Control, StoreKept, FlushPhase, LookupFresh,
        CheckFresh, BlkPlaced, MissAbsent, FillPresent, VictimHeld, WrittenBack,
        Scanned, FlushedAll, InvalidateDoneEmpty
<1>6. CASE Rest
  <2>1. /\ ctl'.st = "IDLE" /\ ~ ctl'.flushing
        /\ ~ ctl'.flush_done /\ ~ ctl'.invalidate_done
    BY <1>0, <1>2, <1>6, BecomesFrame DEF Rest
  <2> QED BY <1>1, <2>1 DEF Control, StoreKept, Cleared, FlushPhase, LookupFresh,
        CheckFresh, BlkPlaced, MissAbsent, FillPresent, VictimHeld, WrittenBack,
        Scanned, FlushedAll, InvalidateDoneEmpty
<1> QED BY <1>1, <1>3, <1>4, <1>5, <1>6

(* The comparison: a hit names the way that holds the line; after a miss   *)
(* no way holds it, and a victim that must be written back is still there. *)
LEMMA LookupStep ==
  ASSUME IInv, ReqStep(CtlOut), LookupHit \/ LookupMiss
  PROVE  Control' /\ StoreKept
<1> USE DEF States, ServeStates, WriteBackStates, FillStates, FlushStates
<1>0. /\ CacheType /\ TagsType /\ ctl.st = "LOOKUP" /\ ~ ctl.flushing
      /\ TagRdSet \in Set /\ ctl \in CtlRegs /\ ctl.cur.at \in Addr
      /\ LookupSet = ctl.cur.at.set /\ LookupTag = ctl.cur.at.tag
      /\ ctl.cur.at.set \in Set
      /\ tags.q = tags.ram[ctl.cur.at.set]
  BY LookupType DEF IInv, TypeOK, CacheType, CtlType, FlushPhase, LookupFresh,
     LookupHit, LookupMiss, LookupSet, LookupTag, CtlRegs, Request, Addr
<1>2. /\ Strobed \in CtlRegs
      /\ ~ Strobed.flushing /\ Strobed.cur = ctl.cur
      /\ ~ Strobed.flush_done /\ ~ Strobed.invalidate_done
  BY <1>0, StrobedFrame
<1> HIDE DEF Strobed
<1>3. CASE LookupHit
  <2> DEFINE c == [Strobed EXCEPT !.blk = HitBlk,
                     !.st = IF ctl.cur.wr THEN "WR_COMMIT" ELSE "RD_RESP"]
  <2>1. HitBlk \in Block /\ HitNow
    BY <1>0, <1>3, LookupType DEF LookupHit
  <2>2. /\ c \in CtlRegs /\ c.st \in {"WR_COMMIT", "RD_RESP"} /\ ~ c.flushing
        /\ c.cur = ctl.cur /\ c.blk = HitBlk
        /\ ~ c.flush_done /\ ~ c.invalidate_done
    BY <1>2, <2>1 DEF CtlRegs
  <2>3. Becomes(c)
    BY <1>3 DEF LookupHit
  <2> HIDE DEF c
  <2>4. /\ ctl'.st \in {"WR_COMMIT", "RD_RESP"} /\ ~ ctl'.flushing
        /\ ctl'.cur = ctl.cur /\ ctl'.blk = HitBlk
        /\ ~ ctl'.flush_done /\ ~ ctl'.invalidate_done
    BY <1>0, <2>2, <2>3, BecomesFrame
  <2>5. StoreKept
    BY <1>0, <1>3, ReadEffect DEF LookupHit, StoreKept
  <2>6. HitBlk.set = ctl.cur.at.set /\ Present(ctl.cur.at.set, HitBlk.way, ctl.cur.at.tag)
    BY <1>0, <2>1, HitWayMatches DEF HitBlk, HitNow, Present
  <2>7. FillPresent'
    BY <2>4, <2>5, <2>6 DEF FillPresent, Present, StoreKept
  <2>8. BlkPlaced'
    BY <2>4, <2>6 DEF BlkPlaced
  <2> QED BY <2>4, <2>5, <2>7, <2>8 DEF Control, Cleared, FlushPhase, LookupFresh,
        CheckFresh, MissAbsent, VictimHeld, WrittenBack, Scanned, FlushedAll,
        InvalidateDoneEmpty
<1>4. CASE LookupMiss
  <2> DEFINE s == ctl.cur.at.set
             c == [Strobed EXCEPT !.blk = VictimBlk, !.victim_tag = VictimTag(LookupSet),
                     !.st = IF VictimDirty(LookupSet) THEN "WB_LOAD" ELSE "FILL_REQ"]
  <2>1. VictimBlk \in Block /\ VictimTag(s) \in Tag /\ VictimWay(s) \in Way
    BY <1>0, LookupType, VictimType
  <2>2. /\ c \in CtlRegs /\ ~ c.flushing
        /\ c.st = IF VictimDirty(s) THEN "WB_LOAD" ELSE "FILL_REQ"
        /\ c.cur = ctl.cur /\ c.blk = VictimBlk /\ c.victim_tag = VictimTag(s)
        /\ ~ c.flush_done /\ ~ c.invalidate_done
    BY <1>0, <1>2, <2>1 DEF CtlRegs
  <2>3. Becomes(c)
    BY <1>4 DEF LookupMiss
  <2> HIDE DEF c
  <2>4. /\ ctl'.st = IF VictimDirty(s) THEN "WB_LOAD" ELSE "FILL_REQ"
        /\ ~ ctl'.flushing /\ ctl'.cur = ctl.cur /\ ctl'.blk = VictimBlk
        /\ VictimDirty(s) => ctl'.victim_tag = VictimTag(s)
        /\ ~ ctl'.flush_done /\ ~ ctl'.invalidate_done
    BY <1>0, <2>2, <2>3, BecomesFrame
  <2>5. StoreKept
    BY <1>0, <1>4, <2>1, AdvanceEffect DEF LookupMiss, StoreKept
  <2>6. \A w \in Way : ~ Present(s, w, ctl.cur.at.tag)
    BY <1>0, <1>4 DEF LookupMiss, HitNow, Hit, Matches, Present
  <2>7. MissAbsent'
    BY <2>4, <2>5, <2>6 DEF MissAbsent, Present, StoreKept
  <2>8. VictimBlk.set = s /\ VictimBlk.way = VictimWay(s)
    BY <1>0 DEF VictimBlk
  <2>9. BlkPlaced'
    BY <2>4, <2>8 DEF BlkPlaced
  <2>10. VictimDirty(s) => /\ Present(s, VictimWay(s), VictimTag(s))
                           /\ tags.ram[s][VictimWay(s)].dirty
    BY <1>0, <2>1 DEF VictimDirty, VictimWay, VictimTag, Invalid, Present,
       TagsType, TagStore
  <2>11. VictimHeld'
    BY <2>4, <2>5, <2>8, <2>10 DEF VictimHeld, Present, NeedsBack, StoreKept
  <2> QED BY <2>4, <2>5, <2>7, <2>9, <2>11 DEF Control, Cleared, FlushPhase,
        LookupFresh, CheckFresh, FillPresent, WrittenBack, Scanned, FlushedAll,
        InvalidateDoneEmpty
<1> QED BY <1>3, <1>4

(* The answer to a read.                                                   *)
LEMMA RdRespStep ==
  ASSUME IInv, RdResp
  PROVE  Control' /\ StoreKept
<1> USE DEF States, ServeStates, WriteBackStates, FillStates, FlushStates
<1>0. /\ CacheType /\ TagsType /\ ctl.st = "RD_RESP" /\ ~ ctl.flushing
      /\ TagRdSet \in Set /\ ctl.blk \in Block /\ ctl.cur.at.off \in Off
      /\ data[ctl.blk][ctl.cur.at.off] \in Val
  BY LookupType DEF IInv, TypeOK, CacheType, CtlType, CtlRegs, FlushPhase, RdResp,
     Request, Addr
<1>1. StoreKept
  BY <1>0, ReadEffect DEF RdResp, StoreKept
<1> DEFINE c == [Strobed EXCEPT !.dout = data[ctl.blk][ctl.cur.at.off],
                                !.ok = TRUE, !.st = "IDLE"]
<1>2. Becomes(c)
  BY DEF RdResp
<1> HIDE DEF Strobed
<1>3. /\ c \in CtlRegs /\ c.st = "IDLE" /\ ~ c.flushing
      /\ ~ c.flush_done /\ ~ c.invalidate_done
  BY <1>0, StrobedFrame DEF CtlRegs
<1> HIDE DEF c
<1>4. /\ ctl'.st = "IDLE" /\ ~ ctl'.flushing
      /\ ~ ctl'.flush_done /\ ~ ctl'.invalidate_done
  BY <1>0, <1>2, <1>3, BecomesFrame
<1> QED BY <1>1, <1>4 DEF Control, Cleared, FlushPhase, LookupFresh, CheckFresh,
      BlkPlaced, MissAbsent, FillPresent, VictimHeld, WrittenBack, Scanned,
      FlushedAll, InvalidateDoneEmpty

(* A write changes the line of the only way that holds it, and marks it.   *)
LEMMA WrCommitStep ==
  ASSUME IInv, WrCommit
  PROVE  Control' /\ UniqueTags' /\ CleanMatchesMemory'
<1> USE DEF States, ServeStates, WriteBackStates, FillStates, FlushStates
<1> DEFINE s == ctl.cur.at.set
           w == ctl.blk.way
           e == Dirty(ctl.cur.at.tag)
<1>0. /\ CacheType /\ TagsType /\ ctl.st = "WR_COMMIT" /\ ~ ctl.flushing
      /\ TagRdSet \in Set /\ ctl.blk \in Block /\ ctl.cur.at \in Addr
      /\ s \in Set /\ w \in Way /\ e \in Entry
      /\ ctl.blk = [set |-> s, way |-> w]
      /\ Present(s, w, ctl.cur.at.tag)
  BY LookupType DEF IInv, TypeOK, CacheType, CtlType, CtlRegs, FlushPhase, BlkPlaced,
     FillPresent, WrCommit, Request, Addr, Block, Dirty, Entry
<1>1. \A r \in Set, v \in Way :
        tags'.ram[r][v] = IF r = s /\ v = w THEN e ELSE tags.ram[r][v]
  BY <1>0, UpdateEffect DEF WrCommit
<1>2. \A b \in Block : b # ctl.blk => data'[b] = data[b]
  BY <1>0 DEF WrCommit, CacheType
<1> DEFINE c == [Strobed EXCEPT !.ok = TRUE, !.st = "IDLE"]
<1>3. Becomes(c) /\ mem' = mem
  BY DEF WrCommit
<1> HIDE DEF Strobed
<1>4. /\ c \in CtlRegs /\ c.st = "IDLE" /\ ~ c.flushing
      /\ ~ c.flush_done /\ ~ c.invalidate_done
  BY <1>0, StrobedFrame DEF CtlRegs
<1> HIDE DEF c
<1>5. /\ ctl'.st = "IDLE" /\ ~ ctl'.flushing
      /\ ~ ctl'.flush_done /\ ~ ctl'.invalidate_done
  BY <1>0, <1>3, <1>4, BecomesFrame
<1>6. Control'
  BY <1>5 DEF Control, Cleared, FlushPhase, LookupFresh, CheckFresh,
      BlkPlaced, MissAbsent, FillPresent, VictimHeld, WrittenBack, Scanned,
      FlushedAll, InvalidateDoneEmpty
<1>7. UniqueTags'
  <2> SUFFICES ASSUME NEW r \in Set, NEW u \in Way, NEW v \in Way,
                      tags'.ram[r][u].valid, tags'.ram[r][v].valid,
                      tags'.ram[r][u].tag = tags'.ram[r][v].tag
               PROVE  u = v
    BY DEF UniqueTags
  <2>1. e.tag = ctl.cur.at.tag
    BY DEF Dirty
  <2>2. \A n \in Way : tags'.ram[r][n].valid =>
          tags.ram[r][n].valid /\ tags'.ram[r][n].tag = tags.ram[r][n].tag
    BY <1>0, <1>1, <2>1 DEF Present
  <2> QED BY <1>0, <2>2 DEF IInv, UniqueTags
<1>8. CleanMatchesMemory'
  BY <1>0, <1>1, <1>2, <1>3 DEF IInv, CleanMatchesMemory, Block, Dirty
<1> QED BY <1>6, <1>7, <1>8

(* A burst that ends has copied the victim to memory.  The line is dirty   *)
(* in its way and no other way holds it, so no clean copy goes stale.      *)
LEMMA WbStreamStep ==
  ASSUME IInv, NEW x, WbStream(x), x.rdy
  PROVE  Control' /\ UniqueTags' /\ CleanMatchesMemory'
<1> USE DEF States, ServeStates, WriteBackStates, FillStates, FlushStates
<1> DEFINE b == ctl.blk
<1>0. /\ CacheType /\ TagsType /\ ctl.st = "WB_STREAM"
      /\ TagRdSet \in Set /\ b \in Block /\ VictimLine \in Line
      /\ Present(b.set, b.way, ctl.victim_tag) /\ NeedsBack(b)
      /\ VictimLine = [tag |-> ctl.victim_tag, set |-> b.set]
      /\ data[b] \in [Off -> Val]
  BY LookupType DEF IInv, TypeOK, CacheType, CtlType, CtlRegs, BlkPlaced,
     VictimHeld, WbStream, Request, Addr, Block, VictimLine, Line
<1>1. tags'.ram = tags.ram /\ data' = data
  BY <1>0, ReadEffect DEF WbStream
<1>2. mem' = [mem EXCEPT ![VictimLine] = data[b]] /\ Goto("WB_GAP")
  BY DEF WbStream
<1>3. /\ ctl'.st = "WB_GAP" /\ ctl'.flushing = ctl.flushing /\ ctl'.blk = b
      /\ ~ ctl'.flush_done /\ ~ ctl'.invalidate_done
      /\ ~ ctl.flushing => ctl'.cur = ctl.cur
      /\ ctl'.victim_tag = ctl.victim_tag
      /\ ctl.flushing => ctl'.scan = ctl.scan
  BY <1>0, <1>2, GotoFrame
<1>4. /\ Cleared' /\ FlushPhase' /\ LookupFresh' /\ CheckFresh' /\ FlushedAll'
      /\ InvalidateDoneEmpty' /\ FillPresent'
  BY <1>0, <1>3 DEF IInv, Cleared, FlushPhase, LookupFresh, CheckFresh, FlushedAll,
     InvalidateDoneEmpty, FillPresent
<1>5. BlkPlaced' /\ MissAbsent' /\ VictimHeld'
  BY <1>0, <1>1, <1>3 DEF IInv, BlkPlaced, MissAbsent, VictimHeld, Present, NeedsBack
<1>6. Scanned'
  BY <1>0, <1>1, <1>3 DEF IInv, Scanned, NeedsBack, Before
<1>7. VictimLine' = VictimLine
  BY <1>0, <1>3 DEF VictimLine
<1>8. WrittenBack'
  BY <1>0, <1>1, <1>2, <1>3, <1>7 DEF WrittenBack, CacheType
<1>9. UniqueTags'
  BY <1>0, <1>1 DEF IInv, UniqueTags
<1>10. CleanMatchesMemory'
  <2> SUFFICES ASSUME NEW d \in Block, tags.ram[d.set][d.way].valid,
                      ~ tags.ram[d.set][d.way].dirty
               PROVE  data[d] = mem'[[tag |-> tags.ram[d.set][d.way].tag, set |-> d.set]]
    BY <1>1 DEF CleanMatchesMemory
  <2> DEFINE l == [tag |-> tags.ram[d.set][d.way].tag, set |-> d.set]
  <2>1. d.set \in Set /\ d.way \in Way /\ l \in Line
    BY <1>0 DEF Block, TagsType, TagStore, Entry, Line
  <2>2. l # VictimLine
    <3> SUFFICES ASSUME l = VictimLine PROVE FALSE
      OBVIOUS
    <3>1. d.set = b.set /\ tags.ram[d.set][d.way].tag = ctl.victim_tag
      BY <1>0
    <3>2. d.way = b.way
      BY <1>0, <2>1, <3>1 DEF IInv, UniqueTags, Present, Block
    <3> QED BY <1>0, <3>1, <3>2 DEF NeedsBack
  <2>3. mem'[l] = mem[l]
    BY <1>0, <1>2, <2>1, <2>2 DEF CacheType
  <2>4. data[d] = mem[l]
    BY <1>0 DEF IInv, CleanMatchesMemory
  <2> QED BY <2>3, <2>4
<1> QED BY <1>4, <1>5, <1>6, <1>8, <1>9, <1>10 DEF Control

(* After a write-back of a flush the scanned line is clean and still there. *)
LEMMA FlushGapStep ==
  ASSUME IInv, WbGap, ctl.flushing
  PROVE  Control' /\ UniqueTags' /\ CleanMatchesMemory'
<1> USE DEF States, ServeStates, WriteBackStates, FillStates, FlushStates
<1> DEFINE s == ctl.scan.set
           w == ctl.scan.way
           e == Clean(ctl.victim_tag)
<1>0. /\ CacheType /\ TagsType /\ ctl.st = "WB_GAP"
      /\ TagRdSet \in Set /\ ctl.blk \in Block
      /\ s \in Set /\ w \in Way /\ e \in Entry
      /\ ctl.blk = ctl.scan /\ ctl.scan = [set |-> s, way |-> w]
      /\ Present(s, w, ctl.victim_tag)
      /\ mem[[tag |-> ctl.victim_tag, set |-> s]] = data[ctl.scan]
  BY LookupType DEF IInv, TypeOK, CacheType, CtlType, CtlRegs, BlkPlaced,
     VictimHeld, WrittenBack, WbGap, Block, VictimLine, Clean, Entry
<1>1. \A r \in Set, v \in Way :
        tags'.ram[r][v] = IF r = s /\ v = w THEN e ELSE tags.ram[r][v]
  BY <1>0, UpdateEffect DEF WbGap
<1>2. Goto("FLUSH_ADVANCE") /\ data' = data /\ mem' = mem
  BY DEF WbGap
<1>3. /\ ctl'.st = "FLUSH_ADVANCE" /\ ctl'.flushing /\ ctl'.scan = ctl.scan
      /\ ~ ctl'.flush_done /\ ~ ctl'.invalidate_done
  BY <1>0, <1>2, GotoFrame
<1>a. e.valid /\ ~ e.dirty /\ e.tag = ctl.victim_tag
  BY DEF Clean
<1>4. /\ Cleared' /\ FlushPhase' /\ LookupFresh' /\ CheckFresh' /\ FlushedAll'
      /\ InvalidateDoneEmpty' /\ FillPresent' /\ BlkPlaced' /\ MissAbsent'
      /\ VictimHeld' /\ WrittenBack'
  BY <1>3 DEF Cleared, FlushPhase, LookupFresh, CheckFresh, FlushedAll,
     InvalidateDoneEmpty, FillPresent, BlkPlaced, MissAbsent, VictimHeld, WrittenBack
<1>5. Scanned'
  <2> SUFFICES ASSUME NEW b \in Block, Before(b, ctl.scan) \/ b = ctl.scan
               PROVE  ~ NeedsBack(b)'
    BY <1>3 DEF Scanned, Before
  <2>1. b.set \in Set /\ b.way \in Way /\ b = [set |-> b.set, way |-> b.way]
    BY DEF Block
  <2>2. CASE b.set = s /\ b.way = w
    BY <1>1, <1>a, <2>1, <2>2 DEF NeedsBack
  <2>3. CASE ~ (b.set = s /\ b.way = w)
    BY <1>0, <1>1, <2>1, <2>3 DEF IInv, Scanned, NeedsBack
  <2> QED BY <2>2, <2>3
<1>6. UniqueTags'
  <2> SUFFICES ASSUME NEW r \in Set, NEW u \in Way, NEW v \in Way,
                      tags'.ram[r][u].valid, tags'.ram[r][v].valid,
                      tags'.ram[r][u].tag = tags'.ram[r][v].tag
               PROVE  u = v
    BY DEF UniqueTags
  <2>1. \A n \in Way : tags'.ram[r][n].valid =>
          tags.ram[r][n].valid /\ tags'.ram[r][n].tag = tags.ram[r][n].tag
    BY <1>0, <1>1, <1>a DEF Present
  <2> QED BY <1>0, <2>1 DEF IInv, UniqueTags
<1>7. CleanMatchesMemory'
  <2> SUFFICES ASSUME NEW b \in Block, tags'.ram[b.set][b.way].valid,
                      ~ tags'.ram[b.set][b.way].dirty
               PROVE  data[b] = mem[[tag |-> tags'.ram[b.set][b.way].tag, set |-> b.set]]
    BY <1>2 DEF CleanMatchesMemory
  <2>1. b.set \in Set /\ b.way \in Way /\ b = [set |-> b.set, way |-> b.way]
    BY DEF Block
  <2>2. CASE b.set = s /\ b.way = w
    BY <1>0, <1>1, <1>a, <2>1, <2>2
  <2>3. CASE ~ (b.set = s /\ b.way = w)
    BY <1>0, <1>1, <2>1, <2>3 DEF IInv, CleanMatchesMemory
  <2> QED BY <2>2, <2>3
<1> QED BY <1>4, <1>5, <1>6, <1>7 DEF Control

(* A refill puts the line in a way while no way holds it.                  *)
LEMMA FillStreamStep ==
  ASSUME IInv, NEW x, FillStream(x), x.rdy
  PROVE  Control' /\ UniqueTags' /\ CleanMatchesMemory'
<1> USE DEF States, ServeStates, WriteBackStates, FillStates, FlushStates
<1> DEFINE s == ctl.cur.at.set
           w == ctl.blk.way
           t == ctl.cur.at.tag
           e == Clean(t)
<1>0. /\ CacheType /\ TagsType /\ ctl.st = "FILL_STREAM" /\ ~ ctl.flushing
      /\ TagRdSet \in Set /\ ctl.blk \in Block
      /\ s \in Set /\ w \in Way /\ e \in Entry
      /\ ctl.blk = [set |-> s, way |-> w]
      /\ \A v \in Way : ~ Present(s, v, t)
  BY LookupType DEF IInv, TypeOK, CacheType, CtlType, CtlRegs, BlkPlaced, FlushPhase,
     MissAbsent, FillStream, Block, Clean, Entry, Request, Addr
<1>1. \A r \in Set, v \in Way :
        tags'.ram[r][v] = IF r = s /\ v = w THEN e ELSE tags.ram[r][v]
  BY <1>0, UpdateEffect DEF FillStream
<1>2. Goto("POSTFILL_WAIT") /\ data' = [data EXCEPT ![ctl.blk] = mem[CurLine]] /\ mem' = mem
  BY DEF FillStream
<1>3. /\ ctl'.st = "POSTFILL_WAIT" /\ ~ ctl'.flushing /\ ctl'.cur = ctl.cur
      /\ ctl'.blk = ctl.blk
      /\ ~ ctl'.flush_done /\ ~ ctl'.invalidate_done
  BY <1>0, <1>2, GotoFrame
<1>a. e.valid /\ ~ e.dirty /\ e.tag = t
  BY DEF Clean
<1>b. BlkPlaced'
  BY <1>0, <1>3 DEF BlkPlaced
<1>c. Cleared' /\ FlushPhase' /\ FlushedAll' /\ InvalidateDoneEmpty' /\ Scanned'
  BY <1>3 DEF Cleared, FlushPhase, FlushedAll, InvalidateDoneEmpty, Scanned
<1>4. LookupFresh' /\ CheckFresh' /\ MissAbsent' /\ VictimHeld' /\ WrittenBack'
  BY <1>3 DEF LookupFresh, CheckFresh, MissAbsent, VictimHeld, WrittenBack
<1>5. FillPresent'
  <2>1. tags'.ram[s][w] = e
    BY <1>0, <1>1
  <2>2. ctl'.cur.at.set = s /\ ctl'.blk.way = w /\ ctl'.cur.at.tag = t
    BY <1>3
  <2> QED BY <1>a, <2>1, <2>2 DEF FillPresent, Present
<1>6. UniqueTags'
  <2> SUFFICES ASSUME NEW r \in Set, NEW u \in Way, NEW v \in Way,
                      tags'.ram[r][u].valid, tags'.ram[r][v].valid,
                      tags'.ram[r][u].tag = tags'.ram[r][v].tag
               PROVE  u = v
    BY DEF UniqueTags
  <2>1. CASE r # s
    BY <1>0, <1>1, <2>1 DEF IInv, UniqueTags
  <2>2. CASE r = s
    <3>1. \A n \in Way : n # w => tags'.ram[s][n] = tags.ram[s][n]
      BY <1>0, <1>1
    <3>2. tags'.ram[s][w].tag = t
      BY <1>0, <1>1, <1>a
    <3>3. \A n \in Way : n # w /\ tags'.ram[s][n].valid => tags'.ram[s][n].tag # t
      BY <1>0, <3>1 DEF Present
    <3>4. CASE u = w \/ v = w
      BY <2>2, <3>2, <3>3, <3>4
    <3>5. CASE u # w /\ v # w
      BY <1>0, <2>2, <3>1, <3>5 DEF IInv, UniqueTags
    <3> QED BY <3>4, <3>5
  <2> QED BY <2>1, <2>2
<1>7. CleanMatchesMemory'
  <2> SUFFICES ASSUME NEW b \in Block, tags'.ram[b.set][b.way].valid,
                      ~ tags'.ram[b.set][b.way].dirty
               PROVE  data'[b] = mem[[tag |-> tags'.ram[b.set][b.way].tag, set |-> b.set]]
    BY <1>2 DEF CleanMatchesMemory
  <2>1. b.set \in Set /\ b.way \in Way /\ b = [set |-> b.set, way |-> b.way]
        /\ data \in [Block -> [Off -> Val]]
    BY <1>0 DEF Block, CacheType
  <2>2. CASE b = ctl.blk
    BY <1>0, <1>1, <1>2, <1>a, <2>1, <2>2 DEF CurLine
  <2>3. CASE b # ctl.blk
    BY <1>0, <1>1, <1>2, <2>1, <2>3 DEF IInv, CleanMatchesMemory
  <2> QED BY <2>2, <2>3
<1> QED BY <1>b, <1>c, <1>4, <1>5, <1>6, <1>7 DEF Control

(* The scan of a flush: entries are read a clock before they are checked.  *)
LEMMA FlushScanStep ==
  ASSUME IInv, ReqStep(CtlOut), FlushWait \/ FlushCheck \/ FlushAdvance
  PROVE  Control' /\ StoreKept
<1> USE DEF States, ServeStates, WriteBackStates, FillStates, FlushStates
<1>0. /\ CacheType /\ TagsType /\ ctl.flushing
      /\ TagRdSet \in Set /\ ctl \in CtlRegs /\ ctl.scan \in Block
      /\ ctl.scan.set \in Set /\ ctl.scan.way \in Way
  BY LookupType DEF IInv, TypeOK, CacheType, CtlType, CtlRegs, FlushPhase, Block,
     FlushWait, FlushCheck, FlushAdvance
<1>1. StoreKept /\ tags'.q = tags.ram[TagRdSet]
  BY <1>0, ReadEffect DEF FlushWait, FlushCheck, FlushAdvance, StoreKept
<1>2. /\ Strobed \in CtlRegs
      /\ Strobed.flushing /\ Strobed.scan = ctl.scan
      /\ ~ Strobed.flush_done /\ ~ Strobed.invalidate_done
  BY <1>0, StrobedFrame
<1>a. \A b \in Block : Before(b, ctl.scan) => ~ NeedsBack(b)
  BY <1>0 DEF IInv, Scanned
<1> HIDE DEF Strobed
<1>3. CASE FlushWait
  <2>1. /\ ctl'.st = "FLUSH_CHECK" /\ ctl'.flushing /\ ctl'.scan = ctl.scan
        /\ ~ ctl'.flush_done /\ ~ ctl'.invalidate_done
    BY <1>0, <1>3, GotoFrame DEF FlushWait
  <2>2. TagRdSet = ctl.scan.set /\ ~ CanLookup
    BY <1>0, <1>3 DEF FlushWait, TagRdSet, ReqTake, FlushTake, CanLookup
  <2>3. CheckFresh'
    BY <1>1, <2>1, <2>2, ProbeWaits DEF CheckFresh, StoreKept
  <2>4. Scanned'
    BY <1>a, <1>1, <2>1 DEF Scanned, NeedsBack, Before, StoreKept
  <2> QED BY <2>1, <2>3, <2>4, <1>1 DEF Control, Cleared, FlushPhase, LookupFresh,
        BlkPlaced, MissAbsent, FillPresent, VictimHeld, WrittenBack, FlushedAll,
        InvalidateDoneEmpty
<1>4. CASE FlushCheck
  <2> DEFINE e == tags.q[ctl.scan.way]
             c == [Strobed EXCEPT !.blk = [set |-> LookupSet, way |-> ctl.scan.way],
                                  !.victim_tag = e.tag, !.st = "WB_LOAD"]
  <2>1. /\ ctl.st = "FLUSH_CHECK" /\ e = tags.ram[ctl.scan.set][ctl.scan.way]
        /\ LookupSet = ctl.scan.set
        /\ [set |-> LookupSet, way |-> ctl.scan.way] = ctl.scan
    BY <1>0, <1>4 DEF IInv, FlushCheck, CheckFresh, LookupSet, Block
  <2>2. CASE e.valid /\ e.dirty
    <3>1. /\ c \in CtlRegs /\ c.st = "WB_LOAD" /\ c.flushing /\ c.scan = ctl.scan
          /\ c.blk = ctl.scan /\ c.victim_tag = e.tag
          /\ ~ c.flush_done /\ ~ c.invalidate_done
      <4>1. e.tag \in Tag
        BY <1>0 DEF TagsType, TagStore, Entry
      <4> QED BY <1>0, <1>2, <2>1, <4>1 DEF CtlRegs
    <3>2. Becomes(c)
      BY <1>4, <2>2 DEF FlushCheck
    <3> HIDE DEF c
    <3>3. /\ ctl'.st = "WB_LOAD" /\ ctl'.flushing /\ ctl'.scan = ctl.scan
          /\ ctl'.blk = ctl.scan /\ ctl'.victim_tag = e.tag
          /\ ~ ctl'.flush_done /\ ~ ctl'.invalidate_done
      BY <1>0, <3>1, <3>2, BecomesFrame
    <3>4. VictimHeld'
      BY <1>1, <2>1, <2>2, <3>3 DEF VictimHeld, Present, NeedsBack, StoreKept
    <3>5. Scanned'
      BY <1>a, <1>1, <3>3 DEF Scanned, NeedsBack, Before, StoreKept
    <3>6. BlkPlaced' /\ MissAbsent' /\ FillPresent' /\ WrittenBack'
      BY <3>3 DEF BlkPlaced, MissAbsent, FillPresent, WrittenBack
    <3> QED BY <1>1, <3>3, <3>4, <3>5, <3>6 DEF Control, Cleared, FlushPhase, LookupFresh,
          CheckFresh, FlushedAll, InvalidateDoneEmpty
  <2>3. CASE ~ (e.valid /\ e.dirty)
    <3>1. /\ ctl'.st = "FLUSH_ADVANCE" /\ ctl'.flushing /\ ctl'.scan = ctl.scan
          /\ ~ ctl'.flush_done /\ ~ ctl'.invalidate_done
      BY <1>0, <1>4, <2>3, GotoFrame DEF FlushCheck
    <3>2. ~ NeedsBack(ctl.scan)
      BY <2>1, <2>3 DEF NeedsBack
    <3>3. Scanned'
      BY <1>a, <1>1, <3>1, <3>2 DEF Scanned, NeedsBack, Before, StoreKept
    <3> QED BY <1>1, <3>1, <3>3 DEF Control, Cleared, FlushPhase, LookupFresh,
          CheckFresh, BlkPlaced, MissAbsent, FillPresent, VictimHeld, WrittenBack,
          FlushedAll, InvalidateDoneEmpty
  <2> QED BY <2>2, <2>3
<1>5. CASE FlushAdvance
  <2>1. ctl.st = "FLUSH_ADVANCE"
    BY <1>5 DEF FlushAdvance
  <2>2. \A b \in Block : Before(b, ctl.scan) \/ b = ctl.scan => ~ NeedsBack(b)
    BY <1>0, <2>1 DEF IInv, Scanned
  <2>3. CASE ScanLast
    <3> DEFINE c == [Strobed EXCEPT !.flushing = FALSE, !.flush_done = TRUE, !.st = "IDLE"]
    <3>1. c \in CtlRegs /\ c.st = "IDLE" /\ ~ c.flushing /\ ~ c.invalidate_done
      BY <1>2 DEF CtlRegs
    <3>2. Becomes(c)
      BY <1>5, <2>3 DEF FlushAdvance
    <3> HIDE DEF c
    <3>3. ctl'.st = "IDLE" /\ ~ ctl'.flushing /\ ~ ctl'.invalidate_done
      BY <1>0, <3>1, <3>2, BecomesFrame
    <3>4. \A b \in Block : Before(b, ctl.scan) \/ b = ctl.scan
      <4> SUFFICES ASSUME NEW b \in Block, b # ctl.scan PROVE Before(b, ctl.scan)
        OBVIOUS
      <4>1. b = [set |-> b.set, way |-> b.way]
            /\ ctl.scan = [set |-> ctl.scan.set, way |-> ctl.scan.way]
        BY <1>0 DEF Block
      <4>2. b.set # ctl.scan.set \/ b.way # ctl.scan.way
        BY <4>1
      <4> QED BY <1>0, <2>3, <4>2, GeometryAssumption DEF Before, ScanLast, Block, Set, Way
    <3>5. FlushedAll'
      BY <1>1, <2>2, <3>4 DEF FlushedAll, NeedsBack, StoreKept
    <3> QED BY <1>1, <3>3, <3>5 DEF Control, Cleared, FlushPhase, LookupFresh,
          CheckFresh, BlkPlaced, MissAbsent, FillPresent, VictimHeld, WrittenBack,
          Scanned, InvalidateDoneEmpty
  <2>4. CASE ~ ScanLast
    <3> DEFINE c == [Strobed EXCEPT !.scan = NextScan, !.st = "FLUSH_WAIT"]
    <3>1. NextScan \in Block
      BY <1>0, <2>4, GeometryAssumption DEF ScanLast, NextScan, Block, Way, Set
    <3>2. /\ c \in CtlRegs /\ c.st = "FLUSH_WAIT" /\ c.flushing /\ c.scan = NextScan
          /\ ~ c.flush_done /\ ~ c.invalidate_done
      BY <1>2, <3>1 DEF CtlRegs
    <3>3. Becomes(c)
      BY <1>5, <2>4 DEF FlushAdvance
    <3> HIDE DEF c
    <3>4. /\ ctl'.st = "FLUSH_WAIT" /\ ctl'.flushing /\ ctl'.scan = NextScan
          /\ ~ ctl'.flush_done /\ ~ ctl'.invalidate_done
      BY <1>0, <3>2, <3>3, BecomesFrame
    <3>5. ASSUME NEW b \in Block, Before(b, NextScan)
          PROVE  Before(b, ctl.scan) \/ b = ctl.scan
      <4>1. b = [set |-> b.set, way |-> b.way]
            /\ ctl.scan = [set |-> ctl.scan.set, way |-> ctl.scan.way]
        BY <1>0 DEF Block
      <4>2. b.set \in Set /\ b.way \in Way
        BY DEF Block
      <4>3. Before(b, ctl.scan) \/ (b.set = ctl.scan.set /\ b.way = ctl.scan.way)
        BY <1>0, <3>5, <4>2, GeometryAssumption DEF Before, NextScan, Set, Way
      <4> QED BY <4>1, <4>3
    <3>6. Scanned'
      BY <1>1, <2>2, <3>4, <3>5 DEF Scanned, NeedsBack, Before, StoreKept
    <3> QED BY <1>1, <3>4, <3>6 DEF Control, Cleared, FlushPhase, LookupFresh,
          CheckFresh, BlkPlaced, MissAbsent, FillPresent, VictimHeld, WrittenBack,
          FlushedAll, InvalidateDoneEmpty
  <2> QED BY <2>3, <2>4
<1> QED BY <1>3, <1>4, <1>5

(* Clearing the tags only drops entries; when it is done none is left.     *)
LEMMA ClearStep ==
  ASSUME IInv, InitClear \/ InvalClear
  PROVE  Control' /\ UniqueTags' /\ CleanMatchesMemory'
<1> USE DEF States, ServeStates, WriteBackStates, FillStates, FlushStates
<1>0. /\ CacheType /\ TagsType /\ ctl.st \in {"INIT_CLEAR", "INVAL_CLEAR"}
      /\ ~ ctl.flushing /\ TagRdSet \in Set /\ ctl.clr_set \in Set
      /\ TagsClear(TagRdSet, ctl.clr_set) /\ data' = data /\ mem' = mem
  BY LookupType DEF IInv, TypeOK, CacheType, CtlType, CtlRegs, FlushPhase,
     InitClear, InvalClear
<1>1. \A r \in Set, v \in Way :
        tags'.ram[r][v] = IF r = ctl.clr_set THEN NoEntry ELSE tags.ram[r][v]
  BY <1>0, ClearEffect
<1>2. \A r \in Set, v \in Way :
        /\ r <= ctl.clr_set => ~ tags'.ram[r][v].valid
        /\ tags'.ram[r][v].valid => tags'.ram[r][v] = tags.ram[r][v]
  BY <1>0, <1>1 DEF IInv, Cleared, NoEntry, Set
<1>3. /\ Strobed \in CtlRegs /\ Strobed.st = ctl.st
      /\ ~ Strobed.flushing /\ Strobed.clr_set = ctl.clr_set
      /\ ~ Strobed.flush_done /\ ~ Strobed.invalidate_done
  BY <1>0, StrobedFrame
<1> HIDE DEF Strobed
<1>4. CASE ~ ClearDone
  <2> DEFINE c == [Strobed EXCEPT !.clr_set = @ + 1]
  <2>1. /\ c \in CtlRegs /\ c.st = ctl.st /\ ~ c.flushing
        /\ c.clr_set = ctl.clr_set + 1
        /\ ~ c.flush_done /\ ~ c.invalidate_done
    BY <1>0, <1>3, <1>4, GeometryAssumption DEF CtlRegs, ClearDone, Set
  <2>2. Becomes(c)
    BY <1>4 DEF InitClear, InvalClear
  <2> HIDE DEF c
  <2>3. /\ ctl'.st = ctl.st /\ ~ ctl'.flushing /\ ctl'.clr_set = ctl.clr_set + 1
        /\ ~ ctl'.flush_done /\ ~ ctl'.invalidate_done
    BY <1>0, <2>1, <2>2, BecomesFrame
  <2>4. Cleared'
    BY <1>0, <1>2, <2>3 DEF Cleared, Set
  <2>5. Control'
    BY <1>0, <2>3, <2>4 DEF Control, FlushPhase, LookupFresh, CheckFresh, BlkPlaced,
       MissAbsent, FillPresent, VictimHeld, WrittenBack, Scanned, FlushedAll,
       InvalidateDoneEmpty
  <2>6. UniqueTags'
    BY <1>0, <1>2, <2>3 DEF IInv, UniqueTags
  <2>7. CleanMatchesMemory'
    <3>1. \A b \in Block : b.set \in Set /\ b.way \in Way
      BY DEF Block
    <3> QED BY <1>0, <1>2, <2>3, <3>1 DEF IInv, CleanMatchesMemory
  <2> QED BY <2>5, <2>6, <2>7
<1>5. CASE ClearDone
  <2> DEFINE c == [Strobed EXCEPT !.st = "IDLE"]
             d == [Strobed EXCEPT !.invalidating = FALSE, !.invalidate_done = TRUE,
                                  !.st = "IDLE"]
  <2>1. /\ c \in CtlRegs /\ c.st = "IDLE" /\ ~ c.flushing /\ ~ c.flush_done
        /\ d \in CtlRegs /\ d.st = "IDLE" /\ ~ d.flushing /\ ~ d.flush_done
    BY <1>3 DEF CtlRegs
  <2>2. Becomes(c) \/ Becomes(d)
    BY <1>5 DEF InitClear, InvalClear, Goto
  <2> HIDE DEF c, d
  <2>3. ctl'.st = "IDLE" /\ ~ ctl'.flushing /\ ~ ctl'.flush_done
    BY <1>0, <2>1, <2>2, BecomesFrame
  <2>4. \A r \in Set, v \in Way : ~ tags'.ram[r][v].valid
    BY <1>2, <1>5, GeometryAssumption DEF ClearDone, Set
  <2>5. Control'
    BY <2>3, <2>4 DEF Control, Cleared, FlushPhase, LookupFresh, CheckFresh, BlkPlaced,
       MissAbsent, FillPresent, VictimHeld, WrittenBack, Scanned, FlushedAll,
       InvalidateDoneEmpty
  <2>6. UniqueTags' /\ CleanMatchesMemory'
    BY <2>4 DEF UniqueTags, CleanMatchesMemory, Block
  <2> QED BY <2>5, <2>6
<1> QED BY <1>4, <1>5

-----------------------------------------------------------------------------
(* The invariant is inductive.                                             *)

(* After reset every entry is invalid. *)
LEMMA InvInit == Init => IInv
<1> SUFFICES ASSUME Init PROVE IInv
  OBVIOUS
<1>1. TypeOK
  BY TypeInit
<1>2. /\ ctl.st = "INIT_CLEAR" /\ ctl.clr_set = 0 /\ ~ ctl.flushing
      /\ ~ ctl.flush_done /\ ~ ctl.invalidate_done
  BY DEF Init, CacheInit
<1>3. Cleared
  BY <1>2, GeometryAssumption DEF Cleared, Set
<1> QED BY <1>1, <1>2, <1>3 DEF IInv, FlushPhase, LookupFresh, CheckFresh, BlkPlaced,
      MissAbsent, FillPresent, VictimHeld, WrittenBack, Scanned, FlushedAll,
      UniqueTags, CleanMatchesMemory, InvalidateDoneEmpty,
      ServeStates, WriteBackStates, FillStates, FlushStates

(* Every clock of a lane keeps the invariant. *)
LEMMA InvNext == IInv /\ [Next]_vars => IInv'
<1> SUFFICES ASSUME IInv, [Next]_vars PROVE IInv'
  OBVIOUS
<1> USE DEF States, ServeStates, WriteBackStates, FillStates, FlushStates
<1>1. TypeOK' /\ CacheType /\ TagsType
  BY TypeNext DEF IInv, TypeOK, CacheType
<1>2. CASE UNCHANGED vars
  BY <1>1, <1>2 DEF vars, IInv, Cleared, FlushPhase, LookupFresh, CheckFresh, BlkPlaced,
     MissAbsent, FillPresent, VictimHeld, WrittenBack, Scanned, FlushedAll,
     UniqueTags, CleanMatchesMemory, InvalidateDoneEmpty, Present, NeedsBack,
     VictimLine
<1>3. CASE Next
  <2> SUFFICES Control' /\ UniqueTags' /\ CleanMatchesMemory'
    BY <1>1 DEF IInv, Control
  <2>1. PICK x \in Answers : CtlStep(x) /\ ReqStep(CtlOut)
    BY <1>3 DEF Next, CacheStep
  <2>a. ASSUME StoreKept, ctl.st # "INIT_CLEAR" PROVE UniqueTags' /\ CleanMatchesMemory'
    BY <2>a, KeepsCoherence DEF IInv
  <2>b. TagRdSet \in Set
    BY <1>1, LookupType
  <2>c. ASSUME TagsRead(TagRdSet), UNCHANGED <<data, mem>> PROVE StoreKept
    BY <2>b, <2>c, <1>1, ReadEffect DEF StoreKept
  <2>2. CASE InitClear \/ InvalClear
    BY <2>2, ClearStep
  <2>3. CASE Take \/ StartFlush \/ StartInvalidate \/ Rest
    <3>1. ctl.st = "IDLE"
      BY <2>3 DEF Take, StartFlush, StartInvalidate, Rest, ReqTake, FlushTake, InvalTake
    <3> QED BY <2>1, <2>3, <2>a, <3>1, IdleStep
  <2>4. CASE LookupHit \/ LookupMiss
    <3>1. ctl.st = "LOOKUP"
      BY <2>4 DEF LookupHit, LookupMiss
    <3> QED BY <2>1, <2>4, <2>a, <3>1, LookupStep
  <2>5. CASE RdResp
    <3>1. ctl.st = "RD_RESP"
      BY <2>5 DEF RdResp
    <3> QED BY <2>5, <2>a, <3>1, RdRespStep
  <2>6. CASE WrCommit
    BY <2>6, WrCommitStep
  <2>7. CASE WbLoad
    BY <2>7, <2>a, <2>c, WaitStep DEF WbLoad
  <2>8. CASE WbPrime
    BY <2>8, <2>a, <2>c, WaitStep DEF WbPrime
  <2>9. CASE WbReq(x)
    BY <2>9, <2>a, <2>c, WaitStep DEF WbReq
  <2>10. CASE WbStream(x)
    <3>1. CASE x.rdy
      BY <2>10, <3>1, WbStreamStep
    <3>2. CASE ~ x.rdy
      BY <2>10, <3>2, <2>a, <2>c, WaitStep DEF WbStream
    <3> QED BY <3>1, <3>2
  <2>11. CASE WbGap
    <3>1. CASE ctl.flushing
      BY <2>11, <3>1, FlushGapStep
    <3>2. CASE ~ ctl.flushing
      BY <2>11, <3>2, <2>a, <2>c, WaitStep DEF WbGap
    <3> QED BY <3>1, <3>2
  <2>12. CASE FillReq(x)
    BY <2>12, <2>a, <2>c, WaitStep DEF FillReq
  <2>13. CASE FillStream(x)
    <3>1. CASE x.rdy
      BY <2>13, <3>1, FillStreamStep
    <3>2. CASE ~ x.rdy
      BY <2>13, <3>2, <2>a, <2>c, WaitStep DEF FillStream
    <3> QED BY <3>1, <3>2
  <2>14. CASE PostFillWait
    BY <2>14, <2>a, <2>c, WaitStep DEF PostFillWait
  <2>15. CASE FlushWait \/ FlushCheck \/ FlushAdvance
    <3>1. ctl.st # "INIT_CLEAR"
      BY <2>15 DEF FlushWait, FlushCheck, FlushAdvance
    <3> QED BY <2>1, <2>15, <2>a, <3>1, FlushScanStep
  <2> QED BY <2>1, <2>2, <2>3, <2>4, <2>5, <2>6, <2>7, <2>8, <2>9, <2>10, <2>11,
             <2>12, <2>13, <2>14, <2>15 DEF CtlStep
<1> QED BY <1>2, <1>3

(* Theorem: the inductive invariant of a lane holds in every reachable state of
   jtframe_cache, for every geometry, use and overlap. *)
THEOREM Invariance == Spec => []IInv
BY InvInit, InvNext, PTL DEF Spec

-----------------------------------------------------------------------------
(* A line is never held by two ways of its set.                            *)
THEOREM NoTwoCopies == Spec => []UniqueTags
<1>1. IInv => UniqueTags
  BY DEF IInv
<1> QED BY <1>1, Invariance, PTL

(* A valid line that is not marked dirty equals memory.                    *)
THEOREM CleanIsMemory == Spec => []CleanMatchesMemory
<1>1. IInv => CleanMatchesMemory
  BY DEF IInv
<1> QED BY <1>1, Invariance, PTL

(* When invalidate_done is seen nothing is cached.                         *)
THEOREM InvalidateEmpties == Spec => []InvalidateDoneEmpty
<1>1. IInv => InvalidateDoneEmpty
  BY DEF IInv
<1> QED BY <1>1, Invariance, PTL

(* When flush_done is seen, memory holds every word of the lane: the scan  *)
(* left nothing dirty, and what is clean equals memory.                    *)
THEOREM FlushCompletes == Spec => []FlushDoneCoherent
<1>1. IInv => FlushDoneCoherent
  <2> SUFFICES ASSUME IInv, ctl.flush_done, NEW a \in Addr
               PROVE  Stored[a] = mem[LineOf(a)][a.off]
    BY DEF FlushDoneCoherent
  <2>1. CASE Holders(a) = {}
    BY <2>1 DEF Stored
  <2>2. CASE Holders(a) # {}
    <3> DEFINE w == CHOOSE v \in Holders(a) : TRUE
               b == [set |-> a.set, way |-> w]
    <3>1. w \in Holders(a)
      BY <2>2
    <3> HIDE DEF w
    <3>2. /\ w \in Way /\ ctl.st # "INIT_CLEAR"
          /\ tags.ram[a.set][w].valid /\ tags.ram[a.set][w].tag = a.tag
      BY <3>1 DEF Holders
    <3>3. b \in Block /\ ~ NeedsBack(b)
      BY <3>2 DEF IInv, FlushedAll, Block, Addr
    <3>4. data[b] = mem[LineOf(a)]
      BY <3>2, <3>3 DEF IInv, CleanMatchesMemory, NeedsBack, LineOf
    <3>5. Stored[a] = data[b][a.off]
      BY <2>2 DEF Stored, w
    <3> QED BY <3>4, <3>5
  <2> QED BY <2>1, <2>2
<1> QED BY <1>1, Invariance, PTL

(* Every line stays where it is, and none changes.                         *)
LinesKept == /\ data' = data
             /\ \A s \in Set, w \in Way :
                  /\ tags'.ram[s][w].valid = tags.ram[s][w].valid
                  /\ tags'.ram[s][w].tag = tags.ram[s][w].tag

(* A clock of a flush moves no line, even if it clears a mark. *)
LEMMA FlushKeeps ==
  ASSUME IInv, Next, ctl.flushing
  PROVE  LinesKept
<1> USE DEF States, ServeStates, WriteBackStates, FillStates, FlushStates
<1>1. PICK x \in Answers : CtlStep(x) /\ ReqStep(CtlOut)
  BY DEF Next, CacheStep
<1>2. /\ ctl.st \in FlushStates \cup WriteBackStates /\ CacheType /\ TagsType
      /\ TagRdSet \in Set
  BY LookupType DEF IInv, TypeOK, CacheType, FlushPhase
<1>3. ASSUME TagsRead(TagRdSet), data' = data PROVE LinesKept
  BY <1>2, <1>3, ReadEffect DEF LinesKept
<1>4. CASE WbGap
  <2>1. /\ ctl.scan.set \in Set /\ ctl.scan.way \in Way
        /\ Clean(ctl.victim_tag) \in Entry
        /\ Present(ctl.scan.set, ctl.scan.way, ctl.victim_tag)
    BY <1>2, <1>4 DEF IInv, CacheType, CtlType, CtlRegs, Block, Clean, Entry,
       BlkPlaced, VictimHeld, WbGap
  <2>2. \A r \in Set, v \in Way : tags'.ram[r][v] =
          IF r = ctl.scan.set /\ v = ctl.scan.way THEN Clean(ctl.victim_tag)
                                                  ELSE tags.ram[r][v]
    BY <1>2, <1>4, <2>1, UpdateEffect DEF WbGap
  <2>3. data' = data
    BY <1>4 DEF WbGap
  <2>4. Clean(ctl.victim_tag).valid /\ Clean(ctl.victim_tag).tag = ctl.victim_tag
    BY DEF Clean
  <2>5. ASSUME NEW s \in Set, NEW w \in Way
        PROVE  /\ tags'.ram[s][w].valid = tags.ram[s][w].valid
               /\ tags'.ram[s][w].tag = tags.ram[s][w].tag
    <3>1. CASE s = ctl.scan.set /\ w = ctl.scan.way
      <4>1. tags.ram[s][w] \in Entry
        BY <1>2 DEF TagsType, TagStore
      <4>2. tags.ram[s][w].valid = TRUE
        BY <2>1, <3>1, <4>1 DEF Present, Entry
      <4>3. Clean(ctl.victim_tag).valid = TRUE
        BY DEF Clean
      <4> QED BY <2>1, <2>2, <2>4, <3>1, <4>2, <4>3 DEF Present
    <3>2. CASE ~ (s = ctl.scan.set /\ w = ctl.scan.way)
      BY <2>2, <3>2
    <3> QED BY <3>1, <3>2
  <2> QED BY <2>3, <2>5 DEF LinesKept
<1>5. CASE WbLoad \/ WbPrime \/ WbReq(x) \/ WbStream(x)
  BY <1>3, <1>5 DEF WbLoad, WbPrime, WbReq, WbStream
<1>6. CASE FlushWait \/ FlushCheck \/ FlushAdvance
  BY <1>3, <1>6 DEF FlushWait, FlushCheck, FlushAdvance
<1>7. WbGap \/ (WbLoad \/ WbPrime \/ WbReq(x) \/ WbStream(x))
      \/ (FlushWait \/ FlushCheck \/ FlushAdvance)
  BY <1>1, <1>2 DEF CtlStep, InitClear, Take, StartFlush, StartInvalidate, Rest,
     LookupHit, LookupMiss, RdResp, WrCommit, FillReq, FillStream, PostFillWait,
     InvalClear, ReqTake, FlushTake, InvalTake
<1> QED BY <1>4, <1>5, <1>6, <1>7

(* While a flush runs no line enters, leaves or changes: the reads it lets *)
(* through see the same lines as before.                                   *)
THEOREM FlushIsTransparent == Spec => FlushKeepsLines
<1>1. IInv /\ Next /\ ctl.flushing => LinesKept
  BY FlushKeeps
<1>2. IInv /\ [Next]_vars => [ctl.flushing => LinesKept]_vars
  BY <1>1
<1> QED BY <1>2, Invariance, PTL DEF Spec, FlushKeepsLines, LinesKept

=============================================================================
