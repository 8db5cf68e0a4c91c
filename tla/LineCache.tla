----------------------------- MODULE LineCache -----------------------------
(***************************************************************************)
(* The large ROM cache of a slot, jtframe_romrq_lcache.v: direct-mapped,   *)
(* with lines of one SDRAM burst.  Tag and index of a line are kept        *)
(* together as the number of the line.  clr is tied to 0 in every slot.    *)
(*                                                                         *)
(* c is the cache's registers and i what it sees in this clock: cs and a   *)
(* from its client, we while its slot is the one selected, and dst, rdy    *)
(* and din from the SDRAM controller.                                      *)
(***************************************************************************)
EXTENDS Naturals

CONSTANTS TagRam,    \* TAG_RAM: the tags are in block RAM, read through a register
          LineLen,   \* half-words of a line
          Lines      \* entries of the cache

Index      == 0 .. Lines - 1
LineOf(a)  == a \div LineLen
IndexOf(l) == l % Lines

Blank == [k \in 0 .. LineLen - 1 |-> 0]

LineReset ==
  [valid |-> [x \in Index |-> FALSE], tags |-> [x \in Index |-> 0],
   data |-> [x \in Index |-> Blank],
   q |-> Blank, tag_q |-> 0, valid_l |-> FALSE, read |-> 0, ok_l |-> FALSE,
   hit_l |-> FALSE, fill_ok |-> FALSE, filling |-> FALSE, receiving |-> FALSE,
   pending |-> FALSE, req_line |-> 0, fill_line |-> 0, beat |-> 0, fill |-> Blank]

-----------------------------------------------------------------------------
(* read is the address of the clock before, which the RAMs were read for.  *)
Hit(c, i) ==
  IF TagRam THEN c.valid_l /\ c.tag_q = LineOf(c.read)
  ELSE LET x == IndexOf(LineOf(i.a)) IN c.valid[x] /\ c.tags[x] = LineOf(i.a)

HitHeld(c, i)  == c.hit_l /\ LineOf(i.a) = LineOf(c.read)
FillMatch(c)   == LineOf(c.read) = c.fill_line

LineReq(c, i) ==
  /\ ~ c.filling /\ ~ Hit(c, i)
  /\ IF TagRam THEN c.ok_l /\ ~ (c.fill_ok /\ FillMatch(c)) ELSE i.cs

(* The address goes with the line the request was first made for.          *)
Wanted(c, i) == LineOf(IF TagRam THEN c.read ELSE i.a)
LineAddr_fault(c, i) == LineLen * Wanted(c, i)
LineAddr(c, i) == LineLen * (IF c.pending THEN c.req_line ELSE Wanted(c, i))

DataOk_fault(c, i) ==
  /\ ~ c.filling
  /\ IF TagRam THEN c.ok_l /\ (c.fill_ok \/ (Hit(c, i) /\ c.hit_l))
     ELSE i.cs /\ Hit(c, i) /\ (c.fill_ok \/ c.hit_l)

DataOk(c, i) ==
  /\ ~ c.filling
  /\ IF TagRam
     THEN c.ok_l /\ ((Hit(c, i) /\ HitHeld(c, i)) \/ (c.fill_ok /\ FillMatch(c)))
     ELSE i.cs /\ Hit(c, i) /\ (c.fill_ok \/ HitHeld(c, i))

LineDout(c, i) ==
  (IF c.fill_ok THEN c.fill ELSE c.q)[(IF TagRam THEN c.read ELSE i.a) % LineLen]

-----------------------------------------------------------------------------
Chosen(c, i)    == i.we /\ ~ c.filling
FillWrite(c, i) == i.we /\ (i.dst \/ c.receiving)
FillDone(c, i)  == FillWrite(c, i) /\ i.rdy

Beat(c) == IF c.filling THEN c.beat ELSE 0
NextFill(c, i) ==
  IF FillWrite(c, i) THEN [c.fill EXCEPT ![Beat(c)] = i.din] ELSE c.fill

(* A request keeps its line until its slot has been selected for it.       *)
Pending_stuck(c, i) == c.pending \/ LineReq(c, i)
Pending(c, i) == (c.pending \/ LineReq(c, i)) /\ ~ Chosen(c, i)

(* The RAMs are read before they are written.                              *)
LineStep(c, i) ==
  LET done == FillDone(c, i)
      w    == IndexOf(c.fill_line)
      r    == IndexOf(LineOf(i.a))
  IN [valid     |-> IF done THEN [c.valid EXCEPT ![w] = TRUE] ELSE c.valid,
      tags      |-> IF done THEN [c.tags EXCEPT ![w] = c.fill_line] ELSE c.tags,
      data      |-> IF done THEN [c.data EXCEPT ![w] = NextFill(c, i)] ELSE c.data,
      q         |-> c.data[r],
      tag_q     |-> c.tags[r],
      valid_l   |-> c.valid[r],
      read      |-> i.a,
      ok_l      |-> i.cs,
      hit_l     |-> Hit(c, i) /\ (IF TagRam THEN c.ok_l ELSE i.cs) /\ ~ c.filling,
      fill_ok   |-> done,
      filling   |-> (c.filling \/ i.we) /\ ~ done,
      receiving |-> IF FillWrite(c, i) THEN ~ i.rdy ELSE c.receiving,
      pending   |-> Pending(c, i),
      req_line  |-> IF LineReq(c, i) /\ ~ c.pending THEN Wanted(c, i) ELSE c.req_line,
      fill_line |-> IF Chosen(c, i) THEN c.req_line ELSE c.fill_line,
      beat      |-> IF FillWrite(c, i) THEN (Beat(c) + 1) % 4
                    ELSE IF Chosen(c, i) THEN 0 ELSE c.beat,
      fill      |-> NextFill(c, i)]
=============================================================================
