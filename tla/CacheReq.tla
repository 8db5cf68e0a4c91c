------------------------------ MODULE CacheReq ------------------------------
(***************************************************************************)
(* The request front end of one cache lane, jtframe_cache_req.sv: edge     *)
(* detection on rd, wr, flush and invalidate, the one-deep latch of a      *)
(* request that could not start, and the probe that lets a read hit be     *)
(* served while a flush writes dirty lines back.                           *)
(*                                                                         *)
(* port is what the requester drives.  req is the module's registers.  i   *)
(* is what the controller drives in the same clock:                        *)
(*   flushing, invalidating, init_busy, req_take, flush_take, inval_take,  *)
(*   can_lookup (flush_rd_can_lookup) and hit (flush_rd_hit).              *)
(***************************************************************************)
EXTENDS CacheTags

VARIABLES
  port,   \* rd, wr, at, din, flush, invalidate
  req     \* registers of the front end

Request == [wr: BOOLEAN, at: Addr, din: Val]

Port == [rd: BOOLEAN, wr: BOOLEAN, at: Addr, din: Val,
         flush: BOOLEAN, invalidate: BOOLEAN]

ZeroAddr == [tag |-> 0, set |-> 0, off |-> 0]

ReqInit ==
  req = [flush_l |-> FALSE, flush_pending |-> FALSE,
         invalidate_l |-> FALSE, invalidate_pending |-> FALSE,
         rd_l |-> FALSE, wr_l |-> FALSE,
         held |-> {},
         probe |-> "none", probe_at |-> ZeroAddr, wait_drop |-> FALSE]

(* held is req_pending with the request it latched, {} or one request.     *)
(* probe is flush_rd_pending, flush_rd_lookup or flush_rd_resp: at most    *)
(* one of them is set, since a probe is only accepted when none is.  Its   *)
(* address probe_at is shown as ZeroAddr once nothing reads it any more.   *)
ReqRegs ==
  [flush_l: BOOLEAN, flush_pending: BOOLEAN,
   invalidate_l: BOOLEAN, invalidate_pending: BOOLEAN,
   rd_l: BOOLEAN, wr_l: BOOLEAN,
   held: {{}} \cup {{r} : r \in Request},
   probe: {"none", "pending", "lookup", "resp"},
   probe_at: Addr, wait_drop: BOOLEAN]

ReqType == req \in ReqRegs

FlushRise       == port.flush /\ ~ req.flush_l
InvalidateRise  == port.invalidate /\ ~ req.invalidate_l
FlushStart_fault == FlushRise
FlushStart      == FlushRise \/ req.flush_pending
InvalidateStart == InvalidateRise \/ req.invalidate_pending

BlockNormalReq(flushing, invalidating) ==
  flushing \/ FlushStart \/ invalidating \/ InvalidateStart

NewReq_fault(block) == ~ block /\ (port.rd \/ port.wr)

NewReq(block) == ~ block /\ ((port.rd /\ ~ req.rd_l) \/ (port.wr /\ ~ req.wr_l))

(* What the requester asks for in this clock: rd wins over wr.             *)
Asked == [wr |-> port.wr /\ ~ port.rd, at |-> port.at, din |-> port.din]

ReqPending == req.held # {}

ReqValid(block) == ReqPending \/ NewReq(block)

(* The request the controller takes.  A wr edge counts only when there is  *)
(* no rd edge.                                                             *)
FrontReq == IF ReqPending
              THEN CHOOSE r \in req.held : TRUE
              ELSE [Asked EXCEPT !.wr = port.wr /\ ~ req.wr_l
                                        /\ ~ (port.rd /\ ~ req.rd_l)]

(* A read seen during a flush becomes a probe of the tags.                 *)
ProbeAccept(i) ==
  /\ i.flushing /\ port.rd
  /\ req.probe = "none" /\ ~ req.wait_drop /\ ~ ReqPending

ProbeMiss(i)   == req.probe = "lookup" /\ ~ i.hit
ProbeOrphan(i) == ~ i.flushing /\ req.probe = "pending" /\ ~ ReqPending

Capture_fault(i) == ~ ReqPending /\ (port.rd \/ port.wr) /\ ~ (i.flushing /\ port.rd)

(* A request is latched when its edge arrives during the tag clear, or for *)
(* as long as its level is seen while normal requests are blocked.         *)
Capture(i) ==
  LET block == BlockNormalReq(i.flushing, i.invalidating) IN
  /\ ~ ReqPending
  /\ \/ i.init_busy /\ NewReq(block)
     \/ block /\ (port.rd \/ port.wr) /\ ~ (i.flushing /\ port.rd)

ProbeNext(i) ==
  CASE ProbeAccept(i)                          -> "pending"
    [] i.can_lookup                            -> "lookup"
    [] req.probe = "lookup" /\ i.hit           -> "resp"
    [] req.probe = "pending" /\ ~ i.can_lookup
                             /\ ~ ProbeOrphan(i) -> "pending"
    [] OTHER                                   -> "none"

(* A probe that missed, or that the flush left behind, becomes a request.  *)
Refetch(i) == ProbeMiss(i) \/ ProbeOrphan(i)

HeldNext(i) ==
  CASE Capture(i)                                   -> {Asked}
    [] ~ Capture(i) /\ Refetch(i) ->
         {[wr |-> FALSE, at |-> req.probe_at, din |-> 0]}
    [] ~ Capture(i) /\ ~ Refetch(i) /\ i.req_take   -> {}
    [] OTHER                                        -> req.held

ProbeAtNext(i) ==
  CASE ProbeAccept(i) -> port.at
    [] ~ ProbeAccept(i) /\ (ProbeNext(i) # "none" \/ req.probe = "resp") -> req.probe_at
    [] OTHER -> ZeroAddr

(* Edges of rd and wr are only tracked while normal requests may start.    *)
Tracks(i) == ~ i.init_busy /\ ~ BlockNormalReq(i.flushing, i.invalidating)

ReqStep(i) ==
  req' = [flush_l            |-> port.flush,
          flush_pending      |-> /\ ~ i.flush_take
                                 /\ req.flush_pending \/ (FlushRise /\ ~ i.flushing),
          invalidate_l       |-> port.invalidate,
          invalidate_pending |-> /\ ~ i.inval_take
                                 /\ \/ req.invalidate_pending
                                    \/ InvalidateRise /\ ~ i.invalidating,
          rd_l               |-> Tracks(i) /\ port.rd,
          wr_l               |-> Tracks(i) /\ port.wr,
          held               |-> HeldNext(i),
          probe              |-> ProbeNext(i),
          probe_at           |-> ProbeAtNext(i),
          wait_drop          |-> \/ Refetch(i) \/ req.probe = "resp"
                                 \/ req.wait_drop /\ port.rd]

=============================================================================
