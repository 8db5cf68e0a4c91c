------------------------------- MODULE RamRq -------------------------------
(***************************************************************************)
(* The requester of a slot that can be written to, jtframe_ram_rq.v, 16    *)
(* bits wide, with FASTWR=0 and AUTOTOGGLE=0, which no generated port sets. *)
(* With ERASE=1, the default, it first writes 0 to each of its cells.  A   *)
(* request is then a rise of the client's cs, which must stay up until ok. *)
(*                                                                         *)
(* r is the registers; i is as in LineCache, with wr from the client.      *)
(***************************************************************************)
EXTENDS Naturals

CONSTANT Size  \* cells of the RAM, 2^AW

RamReset(erase) ==
  [last_cs |-> FALSE, req_l |-> FALSE, rnw |-> TRUE, addr |-> 0,
   data_ok |-> FALSE, dout |-> 0, erased |-> ~ erase, erase_cnt |-> 0]

Rises(r, i) == i.cs /\ ~ r.last_cs
Fast(r, i)  == r.erased /\ ~ i.we /\ Rises(r, i)

RamReq(r, i)  == r.req_l \/ Fast(r, i)
RamRnw(r, i)  == IF Fast(r, i) THEN ~ i.wr ELSE r.rnw
RamAddr(r, i) == IF Fast(r, i) THEN i.a ELSE r.addr

(* A cell is counted when the selector takes its write, the last one too.  *)
EraseStep(r, i) ==
  LET counts == i.we /\ r.req_l
  IN [last_cs   |-> r.last_cs,
      req_l     |-> ~ i.we,
      rnw       |-> i.we /\ r.rnw,
      addr      |-> IF i.we \/ r.req_l THEN r.addr ELSE r.erase_cnt,
      dout      |-> r.dout,
      data_ok   |-> r.data_ok,
      erased    |-> counts /\ r.erase_cnt + 1 = Size,
      erase_cnt |-> IF counts THEN (r.erase_cnt + 1) % Size ELSE r.erase_cnt]

ServeStep_fault(r, i) ==
  [last_cs   |-> i.cs,
   req_l     |-> ~ i.we /\ RamReq(r, i),
   rnw       |-> RamRnw(r, i),
   addr      |-> RamAddr(r, i),
   dout      |-> IF i.we /\ i.dst THEN i.din ELSE r.dout,
   data_ok   |-> (i.we /\ i.rdy) \/ (r.data_ok /\ ~ Fast(r, i)),
   erased    |-> r.erased,
   erase_cnt |-> r.erase_cnt]

ServeStep(r, i) ==
  [last_cs   |-> i.cs,
   req_l     |-> ~ i.we /\ RamReq(r, i),
   rnw       |-> RamRnw(r, i),
   addr      |-> RamAddr(r, i),
   dout      |-> IF i.we /\ i.dst THEN i.din ELSE r.dout,
   data_ok   |-> (i.we /\ i.rdy) \/ (r.data_ok /\ i.cs /\ ~ Fast(r, i)),
   erased    |-> r.erased,
   erase_cnt |-> r.erase_cnt]

RamStep(r, i) == IF r.erased THEN ServeStep(r, i) ELSE EraseStep(r, i)
=============================================================================
