----------------------------- MODULE DwnldQueue -----------------------------
(***************************************************************************)
(* jtframe_dwnld among a host and a controller that respect it: the bytes  *)
(* for the SDRAM come in their order, none while both registers hold one   *)
(* and no acknowledge frees them, the PROMs' come when the SDRAM has taken *)
(* all of its own, and only a write is acknowledged.                       *)
(***************************************************************************)
EXTENDS Dwnld

VARIABLES
  came,     \* position of the SDRAM's next byte to take
  gone      \* position of the SDRAM's next byte to be acknowledged

qvars == <<dwn, came, gone>>

QInit == DwnInit /\ came \in Nat /\ gone = came

ForSdramNow == Taken /\ dwn.seen.kind = "sdram"
ForPromNow  == Taken /\ dwn.seen.kind = "prom"

Respects(line, ack) ==
  /\ ack => dwn.we
  /\ ForSdramNow /\ dwn.we /\ dwn.pendwe => ack
  /\ ForPromNow /\ dwn.we => ack /\ ~ dwn.pendwe
  /\ line.wr /\ line.rom /\ line.kind = "sdram" => line.byte = came'

QStep(line, ack) ==
  /\ DwnStep(line, ack)
  /\ came' = IF ForSdramNow THEN came + 1 ELSE came
  /\ gone' = IF ack THEN gone + 1 ELSE gone
  /\ Respects(line, ack)

QNext == \E line \in Lines, ack \in BOOLEAN : QStep(line, ack)

QSpec == QInit /\ [][QNext]_qvars

-----------------------------------------------------------------------------
(* The registers hold exactly the bytes taken and not yet acknowledged, in *)
(* their order: none is lost, none is written twice.                       *)
Exact ==
  /\ ~ dwn.we => ~ dwn.pendwe /\ came = gone
  /\ dwn.we /\ ~ dwn.pendwe => dwn.prog = gone /\ came = gone + 1
  /\ dwn.we /\ dwn.pendwe => dwn.prog = gone /\ dwn.pend = gone + 1 /\ came = gone + 2

=============================================================================
