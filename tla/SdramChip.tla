----------------------------- MODULE SdramChip -----------------------------
(***************************************************************************)
(* What the controller needs of the SDRAM, after the simulation model the  *)
(* repository tests with (hdl/ver/mt48lc16m16a2.v): which rows are open,   *)
(* full-page bursts with a CAS latency of two, and the timing checks,      *)
(* counted in clocks of 96 MHz.  One age per kind of event stands for the  *)
(* model's four, one a bank, which is stricter.                            *)
(*                                                                         *)
(* pins is the command, dq the half-word the controller drives, if any.    *)
(***************************************************************************)
EXTENDS Naturals, FiniteSets

CONSTANTS Page, Banks

VARIABLE chip

Nothing == <<>>

tRCD == 2
tRAS == 4
tRC  == 6
tRP  == 2
tRFC == 7
tWR  == 2
tMRD == 2

\* Nothing has happened for long; no bank is open.
ChipInit ==
  chip = [row |-> [b \in Banks |-> Nothing],
          act |-> tRC, pre |-> tRP, ref |-> tRFC, wr |-> tWR, mrd |-> tMRD,
          next |-> "NOP", at |-> Nothing,      \* the command that takes effect at the next clock
          out |-> Nothing, in |-> Nothing]     \* the cells a burst reads and writes

Grow(n, limit) == IF n = limit THEN n ELSE n + 1

NextColumn(c) ==
  IF c = Nothing THEN Nothing
  ELSE LET a == c[2] IN <<c[1], (a \div Page) * Page + ((a + 1) % Page)>>

Precharges(pins, b) == \/ pins.op = "PRECHARGE_ALL"
                       \/ pins.op = "PRECHARGE" /\ pins.ba = b
Closes(pins) == \E b \in Banks : Precharges(pins, b) /\ chip.row[b] # Nothing

(* The cell a WRITE or a beat of its burst stores dq in.                   *)
Storing(pins) ==
  CASE pins.op = "WRITE" -> <<pins.ba, pins.a>>
    [] pins.op = "NOP"   -> chip.in
    [] OTHER             -> Nothing

ReadOut ==
  CASE chip.next = "READ" -> chip.at
    [] chip.next = "STOP" -> Nothing
    [] OTHER              -> NextColumn(chip.out)

ChipStep(pins) ==
  chip' =
    [row |-> [b \in Banks |->
        IF Precharges(pins, b) THEN Nothing
        ELSE IF pins.op = "ACTIVE" /\ pins.ba = b THEN <<pins.a>>
        ELSE chip.row[b]],
     act |-> IF pins.op = "ACTIVE" THEN 1 ELSE Grow(chip.act, tRC),
     pre |-> IF Closes(pins) THEN 1 ELSE Grow(chip.pre, tRP),
     ref |-> IF pins.op = "REFRESH" THEN 1 ELSE Grow(chip.ref, tRFC),
     wr  |-> IF Storing(pins) # Nothing THEN 1 ELSE Grow(chip.wr, tWR),
     mrd |-> IF pins.op = "LOAD_MODE" THEN 1 ELSE Grow(chip.mrd, tMRD),
     next |-> CASE pins.op = "READ" -> "READ"
                [] pins.op \in {"STOP", "PRECHARGE", "PRECHARGE_ALL"} -> "STOP"
                [] OTHER -> "NOP",
     at  |-> IF pins.op = "READ" THEN <<pins.ba, pins.a>> ELSE Nothing,
     out |-> IF pins.op = "WRITE" THEN Nothing ELSE ReadOut,
     in  |-> IF pins.op = "READ" THEN Nothing ELSE NextColumn(Storing(pins))]

-----------------------------------------------------------------------------
(* The checks of the model: the command respects the rows that are open    *)
(* and the time since earlier commands.                                    *)
AllClosed == \A b \in Banks : chip.row[b] = Nothing

Legal(pins) ==
  /\ pins.op = "ACTIVE" =>
       /\ chip.row[pins.ba] = Nothing
       /\ chip.pre >= tRP /\ chip.ref >= tRFC /\ chip.act >= tRC /\ chip.mrd >= tMRD
  /\ pins.op \in {"READ", "WRITE"} =>
       chip.row[pins.ba] = <<pins.a \div Page>> /\ chip.act >= tRCD
  /\ pins.op \in {"PRECHARGE", "PRECHARGE_ALL"} =>
       /\ chip.mrd >= tMRD
       /\ Closes(pins) => chip.act >= tRAS /\ chip.wr >= tWR
  /\ pins.op = "REFRESH" =>
       AllClosed /\ chip.pre >= tRP /\ chip.ref >= tRFC /\ chip.mrd >= tMRD
  /\ pins.op = "LOAD_MODE" =>
       AllClosed /\ chip.pre >= tRP /\ chip.ref >= tRFC

=============================================================================
