---------------------------- MODULE SdramTiming ----------------------------
(***************************************************************************)
(* The checks of the SDRAM the repository tests its controllers with       *)
(* (hdl/ver/mt48lc16m16a2.v) on a controller that keeps several banks at   *)
(* work: which rows are open, and the times since the commands that opened *)
(* and closed them, in clocks of 96 or of 48 MHz.                          *)
(***************************************************************************)
EXTENDS Naturals

CONSTANTS Page, Banks, Burst     \* Burst: half-words of a read burst

VARIABLES timing,
          fast                   \* the clock is 96 MHz, not 48 MHz

Nothing == <<>>

tRCD == IF fast THEN 2 ELSE 1
tRAS == IF fast THEN 4 ELSE 2
tRC  == IF fast THEN 6 ELSE 3
tRP  == IF fast THEN 2 ELSE 1
tRFC == IF fast THEN 7 ELSE 4
tWR  == IF fast THEN 2 ELSE 1
tRRD == IF fast THEN 2 ELSE 1

\* Nothing has happened for long; no row is open.
Rested == [row |-> Nothing, act |-> tRC, pre |-> tRP, wr |-> tWR, auto |-> Nothing]

TimingInit ==
  timing = [bank |-> [b \in Banks |-> Rested], ref |-> tRFC, prev |-> Nothing, rrd |-> tRRD]

Grow(n, limit) == IF n < limit THEN n + 1 ELSE n

Reads(pins)  == pins.op \in {"READ", "READA"}
Writes(pins) == pins.op \in {"WRITE", "WRITEA"}

Precharges(pins, b) == \/ pins.op = "PRECHARGE_ALL"
                       \/ pins.op = "PRECHARGE" /\ pins.ba = b

(* auto counts the clocks until a bank precharges itself, which it does no *)
(* earlier than tRAS allows.                                               *)
SelfCloses(t) == t.auto # Nothing /\ t.auto.left <= 1 /\ t.act >= tRAS

BankAge(t, b, pins) ==
  LET here    == pins.ba = b
      acts    == here /\ pins.op = "ACTIVE"
      closes  == Precharges(pins, b) /\ t.row # Nothing
      auto    == IF here /\ pins.op = "READA"  THEN [left |-> Burst, late |-> FALSE]
                 ELSE IF here /\ pins.op = "WRITEA" THEN [left |-> 1, late |-> TRUE]
                 ELSE IF t.auto = Nothing THEN Nothing
                 ELSE [t.auto EXCEPT !.left = IF @ = 1 THEN 1 ELSE @ - 1]
  IN [row  |-> IF acts THEN <<pins.a>>
               ELSE IF Precharges(pins, b) \/ SelfCloses(t) THEN Nothing ELSE t.row,
      act  |-> IF acts THEN 1 ELSE Grow(t.act, tRC),
      pre  |-> IF closes THEN 1
               ELSE IF SelfCloses(t) THEN IF t.auto.late THEN 0 ELSE 1
               ELSE Grow(t.pre, tRP),
      wr   |-> IF here /\ Writes(pins) THEN 1 ELSE Grow(t.wr, tWR),
      auto |-> IF SelfCloses(t) THEN Nothing ELSE auto]

TimingStep(pins) ==
  timing' =
    [bank |-> [b \in Banks |-> BankAge(timing.bank[b], b, pins)],
     ref  |-> IF pins.op = "REFRESH" THEN 1 ELSE Grow(timing.ref, tRFC),
     prev |-> IF pins.op = "ACTIVE" THEN <<pins.ba>> ELSE timing.prev,
     rrd  |-> IF pins.op = "ACTIVE" THEN 1 ELSE Grow(timing.rrd, tRRD)]

-----------------------------------------------------------------------------
(* The checks on a command that is on the pins.                            *)
MayActivate(pins) ==
  LET t == timing.bank[pins.ba] IN
  /\ t.row = Nothing /\ t.pre >= tRP /\ t.act >= tRC
  /\ timing.ref >= tRFC
  /\ timing.prev # <<pins.ba>> => timing.rrd >= tRRD

MayTransfer(pins) ==
  LET t == timing.bank[pins.ba] IN
  t.row = <<pins.a \div Page>> /\ t.act >= tRCD /\ t.auto = Nothing

MayPrecharge(pins) ==
  \A b \in Banks : LET t == timing.bank[b] IN
    Precharges(pins, b) /\ t.row # Nothing => t.act >= tRAS /\ t.wr >= tWR

MayRefresh ==
  /\ timing.ref >= tRFC
  /\ \A b \in Banks : timing.bank[b].row = Nothing /\ timing.bank[b].pre >= tRP

Legal(pins) ==
  /\ pins.op = "ACTIVE" => MayActivate(pins)
  /\ Reads(pins) \/ Writes(pins) => MayTransfer(pins)
  /\ pins.op \in {"PRECHARGE", "PRECHARGE_ALL"} => MayPrecharge(pins)
  /\ pins.op = "REFRESH" => MayRefresh

=============================================================================
