------------------------------- MODULE Dwnld -------------------------------
(***************************************************************************)
(* jtframe_dwnld.v: the bytes of a ROM file become writes to the SDRAM or  *)
(* to PROMs.  A write stays up until the controller acknowledges it, and a *)
(* byte that comes meanwhile is kept.                                      *)
(*                                                                         *)
(* line is what the host drives: wr, rom (a ROM is being sent) and a byte, *)
(* known by its position in the file, with the kind of place it goes to.   *)
(***************************************************************************)
EXTENDS Naturals

VARIABLE dwn   \* seen: line, a clock later; prog and pend: bytes, with their flags

Kinds == {"header", "sdram", "prom"}
Lines == [wr: BOOLEAN, rom: BOOLEAN, byte: Nat, kind: Kinds]

DwnType == dwn \in [seen: Lines, prog: Nat, we: BOOLEAN, prom: BOOLEAN,
                    pend: Nat, pendwe: BOOLEAN]

DwnInit ==
  dwn = [seen |-> [wr |-> FALSE, rom |-> FALSE, byte |-> 0, kind |-> "header"],
         prog |-> 0, we |-> FALSE, prom |-> FALSE, pend |-> 0, pendwe |-> FALSE]

Taken == dwn.seen.wr /\ dwn.seen.rom /\ dwn.seen.kind # "header"

Write(d, k) == [d EXCEPT !.prog = k, !.we = TRUE, !.prom = FALSE]
Keep(d, k)  == [d EXCEPT !.pend = k, !.pendwe = TRUE]

ToProm(k) == [dwn EXCEPT !.prog = k, !.prom = TRUE, !.we = FALSE]

(* As it was without the register in reserve.                              *)
ToSdram_fault(k, ack) == Write(dwn, k)

ToSdram(k, ack) ==
  CASE dwn.we /\ ~ ack               -> [Keep(dwn, k) EXCEPT !.prom = FALSE]
    [] dwn.we /\ ack /\ dwn.pendwe   -> Keep(Write(dwn, dwn.pend), k)
    [] ~ dwn.we \/ (ack /\ ~ dwn.pendwe) -> Write(dwn, k)

NoByte_fault(ack) ==
  CASE ack             -> [dwn EXCEPT !.we = FALSE, !.prom = FALSE, !.pendwe = FALSE]
    [] ~ ack /\ ~ dwn.seen.rom -> [dwn EXCEPT !.prom = FALSE, !.pendwe = @ /\ dwn.we]
    [] ~ ack /\ dwn.seen.rom   -> dwn

NoByte_stuck(ack) ==
  CASE ack /\ dwn.pendwe   -> [Write(dwn, dwn.pend) EXCEPT !.pendwe = FALSE]
    [] ack /\ ~ dwn.pendwe -> [dwn EXCEPT !.we = FALSE, !.prom = FALSE]
    [] ~ ack               -> dwn

NoByte(ack) ==
  CASE ack /\ dwn.pendwe       -> [Write(dwn, dwn.pend) EXCEPT !.pendwe = FALSE]
    [] ack /\ ~ dwn.pendwe     -> [dwn EXCEPT !.we = FALSE, !.prom = FALSE]
    [] ~ ack /\ ~ dwn.seen.rom -> [dwn EXCEPT !.prom = FALSE, !.pendwe = @ /\ dwn.we]
    [] ~ ack /\ dwn.seen.rom   -> dwn

DwnRegs(ack) ==
  IF ~ Taken THEN NoByte(ack)
  ELSE IF dwn.seen.kind = "prom" THEN ToProm(dwn.seen.byte)
  ELSE ToSdram(dwn.seen.byte, ack)

DwnStep(line, ack) == dwn' = [DwnRegs(ack) EXCEPT !.seen = line]

=============================================================================
