------------------------------ MODULE RamSlot ------------------------------
(***************************************************************************)
(* The selector of the slots that share a bank, jtframe_ramslot_ctrl.v:    *)
(* one slot at a time owns the bank, from the clock its request is taken   *)
(* to the one in which its last data come.                                 *)
(*                                                                         *)
(* s is the registers; req the slots that ask, each with the address, the  *)
(* data and the direction of what it asks for in asks; ack and rdy come    *)
(* from the bank.  16-bit slots, no byte masks.                            *)
(***************************************************************************)
EXTENDS Naturals

CONSTANT Slots
ASSUME SlotsAssumption == Slots \subseteq Nat

SlotReset == [sel |-> {}, rd |-> FALSE, wr |-> FALSE, addr |-> 0, din |-> 0]

Accepts(s, rdy)  == s.sel = {} \/ rdy
Active(s, req)   == req \ s.sel
ActHot(s, req)   == {n \in Active(s, req) : \A k \in Active(s, req) : n <= k}

SlotStep(s, req, asks, ack, rdy) ==
  IF ~ Accepts(s, rdy) THEN [s EXCEPT !.rd = @ /\ ~ ack, !.wr = @ /\ ~ ack]
  ELSE IF ActHot(s, req) = {}
       THEN [s EXCEPT !.sel = {}, !.rd = @ /\ ~ ack, !.wr = @ /\ ~ ack]
  ELSE LET n == CHOOSE n \in ActHot(s, req) : TRUE
       IN [sel |-> {n}, rd |-> asks[n].rnw, wr |-> ~ asks[n].rnw,
           addr |-> asks[n].addr, din |-> asks[n].din]
=============================================================================
