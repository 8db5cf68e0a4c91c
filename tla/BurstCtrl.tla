----------------------------- MODULE BurstCtrl -----------------------------
(***************************************************************************)
(* The burst sequencer, jtframe_burst_ctrl.v: from a rd or wr level to     *)
(* ACTIVE, one READ or WRITE, a beat per clock until the requester drops   *)
(* the level or the page ends, STOP and PRECHARGE.                         *)
(*                                                                         *)
(* p is the request port in this clock, go that nothing freezes the        *)
(* sequencer.                                                              *)
(***************************************************************************)
EXTENDS Naturals

CONSTANTS
  Page     \* 2^COLW: cells in a row

ASSUME PageAssumption == Page \in Nat \ {0}

VARIABLE burst

Row(a)      == a \div Page
PageLast(a) == a % Page = Page - 1

(* States that only wait for the next one.                                 *)
After == [ACT   |-> "TRCD1", TRCD1 |-> "TRCD2",
          WACK  |-> "WDATA", WDATA |-> "WRITE_CMD",
          READ_CMD |-> "CL1", CL1  |-> "CL2",
          TWR1  |-> "TWR2",  TWR2  |-> "PRE", PRE |-> "TRP1"]

BurstStates == DOMAIN After \cup
  {"IDLE", "TRCD2", "WRITE_CMD", "WRITE", "CL2", "RDATA", "STOP", "TRP1"}

BurstInit == burst = [st |-> "IDLE", ba |-> 0, addr |-> 0, write |-> FALSE, wait |-> FALSE]

BurstIdle == burst.st = "IDLE"
Last      == PageLast(burst.addr)
NextCell  == IF Last THEN burst.addr ELSE burst.addr + 1

Frozen(go) == ~ go /\ UNCHANGED burst

IdleStay(p, go) == go /\ burst.st = "IDLE" /\ ~ p.rd /\ ~ p.wr /\ UNCHANGED burst

Accept(p, go) ==
  /\ go /\ burst.st = "IDLE" /\ (p.rd \/ p.wr)
  /\ burst' = [burst EXCEPT !.st = "ACT", !.addr = p.addr, !.ba = p.ba, !.write = p.wr]

Pass(go) ==
  /\ go /\ burst.st \in DOMAIN After
  /\ burst' = [burst EXCEPT !.st = After[burst.st]]

Command(go) ==
  /\ go /\ burst.st = "TRCD2"
  /\ burst' = [burst EXCEPT !.st = IF burst.write THEN "WACK" ELSE "READ_CMD"]

WriteBeat(p, go) ==
  /\ go /\ burst.st \in {"WRITE_CMD", "WRITE"}
  /\ burst' = [burst EXCEPT !.addr = NextCell,
                            !.st = IF Last \/ ~ p.wr THEN "STOP" ELSE "WRITE"]

(* After a write burst the data of the next read is announced a clock late.*)
CasLatency(go) ==
  /\ go /\ burst.st = "CL2"
  /\ burst' = IF burst.wait THEN [burst EXCEPT !.wait = FALSE]
                            ELSE [burst EXCEPT !.st = "RDATA"]

ReadBeat(p, go) ==
  /\ go /\ burst.st = "RDATA"
  /\ burst' = [burst EXCEPT !.addr = NextCell,
                            !.st = IF Last \/ ~ p.rd THEN "STOP" ELSE "RDATA"]

Stop_fault(go) ==
  /\ go /\ burst.st = "STOP"
  /\ burst' = [burst EXCEPT !.st = "TRP1"]

Stop(go) ==
  /\ go /\ burst.st = "STOP"
  /\ burst' = [burst EXCEPT !.st = IF burst.write THEN "TWR1" ELSE "PRE"]

Finish(go) ==
  /\ go /\ burst.st = "TRP1"
  /\ burst' = [burst EXCEPT !.st = "IDLE", !.wait = burst.write]

BurstStep(p, go) ==
  \/ Frozen(go) \/ IdleStay(p, go) \/ Accept(p, go) \/ Pass(go) \/ Command(go)
  \/ WriteBeat(p, go) \/ CasLatency(go) \/ ReadBeat(p, go) \/ Stop(go) \/ Finish(go)

-----------------------------------------------------------------------------
(* What the sequencer puts on the pins and hands back in a state.          *)
Nop == [op |-> "NOP", ba |-> 0, a |-> 0]

BurstCmd(p) ==
  CASE burst.st = "ACT"       -> [op |-> "ACTIVE", ba |-> burst.ba, a |-> Row(burst.addr)]
    [] burst.st = "WRITE_CMD" -> [op |-> "WRITE", ba |-> burst.ba, a |-> burst.addr]
    [] burst.st = "READ_CMD"  -> [op |-> "READ", ba |-> burst.ba, a |-> burst.addr]
    [] burst.st = "WRITE" /\ ~ p.wr -> [op |-> "STOP", ba |-> burst.ba, a |-> 0]
    [] burst.st = "STOP"      -> [op |-> "STOP", ba |-> burst.ba, a |-> 0]
    [] burst.st = "PRE"       -> [op |-> "PRECHARGE", ba |-> burst.ba, a |-> 0]
    [] OTHER                  -> Nop

Drives(p)    == burst.st \in {"WRITE_CMD", "WRITE"} /\ p.wr
BurstAck     == burst.st \in {"WACK", "READ_CMD"}
BurstDok     == burst.st = "RDATA"
BurstRdy_fault(p) == burst.st \in {"WRITE_CMD", "WRITE", "RDATA"} /\ Last
BurstRdy(p)  == \/ burst.st \in {"WRITE_CMD", "WRITE"} /\ (Last \/ ~ p.wr)
                \/ burst.st = "RDATA" /\ (Last \/ ~ p.rd)

=============================================================================
