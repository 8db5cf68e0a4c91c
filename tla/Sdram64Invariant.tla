-------------------------- MODULE Sdram64Invariant --------------------------
(***************************************************************************)
(* The inductive invariant of the controller of the slot-based cores: the  *)
(* state of a bank tells the clock that its access is in, and with it what *)
(* every register, the pins and the SDRAM hold of that access (IInv); it   *)
(* also bounds how long the bank's row has been open and shut (TimesInv).  *)
(***************************************************************************)
EXTENDS Sdram64

(* The first and the last state of a read's data on the pins.              *)
Last(b) == RDY(Geo(b))

Within(b, first, last) == bank[b].st \in first .. last

RowReg(b) == bank[b].row

BankRegs == [st: Nat, row: Nat, prechd: BOOLEAN, actd: BOOLEAN, last_act: BOOLEAN,
             post_act: BOOLEAN, written: BOOLEAN, in_busy: BOOLEAN, in_busy64: BOOLEAN,
             dqm_busy: BOOLEAN, dok: BOOLEAN, br: BOOLEAN]

Typed ==
  /\ auto \in AutoCases
  /\ bank \in [Banks -> BankRegs] /\ \A b \in Banks : bank[b].st < STW(Geo(b))
  /\ latch \in [Banks -> [rd : BOOLEAN, wr : BOOLEAN, a : Nat, match : BOOLEAN]]
  /\ wrl \in [Banks -> BOOLEAN] /\ quiet \in BOOLEAN
  /\ slots \in [Banks -> [st : {"IDLE", "ASK", "WAIT"}, wr : BOOLEAN, a : Addrs \cup {0}, n : Nat]]
  /\ {out.dbusy, out.dbusy64} \subseteq BOOLEAN
  /\ {out.dok, out.rdy} \subseteq [Banks -> BOOLEAN]
  /\ sim.mode = Mode /\ DOMAIN sim.row = Banks /\ DOMAIN sim.dqm = {1, 2}

-----------------------------------------------------------------------------
(* The refresh engine has the chip while every bank rests.                 *)
RefreshInv ==
  /\ rfsh \in RfshRegs /\ fast \in Clocks
  /\ fast => rfsh.cnt <= Batch /\ ~ rfsh.help
  /\ ~ rfsh.rfshing => rfsh.st = 0
  /\ rfsh.rfshing /\ Ends => rfsh.cmd = "NOP"
  /\ out.pins.op \in {"PRECHARGE_ALL", "REFRESH"} => rfsh.rfshing
  /\ rfsh.rfshing => \A b \in Banks : bank[b].st = IDLE /\ ~ bank[b].actd

-----------------------------------------------------------------------------
(* A request and its copies in the latches: a copy outlives its request by *)
(* the clocks that the bank needs to leave READ.                           *)
Asking(b, wr) == slots[b].st = "ASK" /\ slots[b].wr = wr

LatchInv(b) ==
  /\ fast =>
       /\ latch[b].rd => Asking(b, FALSE) \/ bank[b].st = READ + 1
       /\ latch[b].wr => Asking(b, TRUE) \/ (bank[b].st = READ + 1 /\ b \in auto)
       /\ latch[b].rd \/ latch[b].wr => latch[b].a = slots[b].a
       /\ latch[b].match /\ bank[b].st # ACT => RowOf(latch[b].a) = RowReg(b)
       /\ quiet => ~ latch[b].rd /\ ~ latch[b].wr
  /\ wrl[b] => \/ Asking(b, TRUE) /\ Seen(b).wr
               \/ Within(b, READ + 1, IF fast THEN READ + 2 ELSE READ + 1) /\ b \in auto

(* The bank works for the request that its slot shows.                     *)
WorkInv(b) ==
  Within(b, 1, READ) =>
    /\ slots[b].st = "ASK" /\ slots[b].n = 0 /\ ~ out.rdy[b]
    /\ Seen(b).rd = ~ slots[b].wr /\ wrl[b] = slots[b].wr /\ Seen(b).wr = slots[b].wr
    /\ Seen(b).a = slots[b].a

(* What has come or been stored when.                                      *)
Count(b) == IF slots[b].wr THEN 1
            ELSE IF bank[b].st <= DST + 1 THEN 0 ELSE bank[b].st - DST - 1

AnswerInv(b) ==
  /\ bank[b].st = IDLE =>
       \/ /\ slots[b].st \in {"IDLE", "ASK"} /\ slots[b].n = 0
          /\ ~ out.rdy[b] /\ ~ out.dok[b]
       \/ /\ slots[b].st = "WAIT" /\ out.rdy[b]
          /\ ~ Seen(b).rd /\ ~ Seen(b).wr /\ ~ wrl[b]
          /\ IF slots[b].wr THEN slots[b].n = 1 /\ ~ out.dok[b]
             ELSE out.dok[b] /\ slots[b].n = LenOf(b) - 1
  /\ Within(b, READ + 1, Last(b) + 1) =>
       /\ slots[b].st = "WAIT" /\ slots[b].n = Count(b)
       /\ slots[b].wr => b \in auto
       /\ out.rdy[b] <=> bank[b].st = Last(b) + 1
  /\ Last(b) + 1 < bank[b].st =>
       slots[b].st \in {"IDLE", "ASK"} /\ ~ out.rdy[b] /\ slots[b].n = 0
  /\ bank[b].st = READ => bank[b].written = slots[b].wr
  /\ Within(b, READ + 1, Last(b)) /\ ~ (b \in auto) => ~ bank[b].written
  /\ bank[b].dok <=> Within(b, DST, Last(b))
  /\ bank[b].st # IDLE => (out.dok[b] <=> Within(b, DST + 1, Last(b) + 1))

-----------------------------------------------------------------------------
(* What a bank has on the pins.                                            *)
OnPins(b, ops) == out.pins.op \in ops /\ out.pins.ba = b

PinsInv ==
  /\ out.pins.op \in {"NOP", "PRECHARGE", "PRECHARGE_ALL", "REFRESH",
                      "ACTIVE", "READ", "READA", "WRITE", "WRITEA"}
  /\ \A b \in Banks :
       /\ bank[b].st = READ =>
            out.pins = [op |-> TransferOp(b, slots[b].wr), ba |-> b, a |-> slots[b].a]
       /\ OnPins(b, {"PRECHARGE"}) => bank[b].st = 1 /\ ~ bank[b].actd
       /\ OnPins(b, {"ACTIVE"}) => bank[b].st = ACT
  /\ out.pins.op \in {"ACTIVE", "READ", "READA", "WRITE", "WRITEA", "PRECHARGE"} =>
       out.pins.ba \in Banks
  /\ out.pins.op \in {"READ", "READA", "WRITE", "WRITEA"} => bank[out.pins.ba].st = READ
  /\ out.din = IF out.pins.op \in {"WRITE", "WRITEA"}
               THEN <<out.pins.ba, out.pins.a>> ELSE S!Nothing

(* The row that a bank has open, or is opening.                            *)
RowInv(b) ==
  /\ bank[b].actd \/ Within(b, ACT, READ) =>
       IF OnPins(b, {"ACTIVE"}) THEN out.pins.a = RowReg(b)
                                ELSE sim.row[b] = <<RowReg(b)>>
  /\ Within(b, ACT, READ) => RowReg(b) = RowOf(slots[b].a)
  /\ Within(b, 1, ACT - 1) => ~ bank[b].actd
  /\ b \in auto /\ bank[b].actd => Within(b, ACT, READ - 1)

-----------------------------------------------------------------------------
(* The data pins: who uses them until when, and who may not yet.           *)
BusyInv ==
  /\ \A b \in Banks :
       /\ Within(b, READ, Last(b) - 2) => bank[b].in_busy
       /\ bank[b].in_busy => out.dbusy
       /\ bank[b].in_busy64 <=> Within(b, READ, BUSY)
       /\ bank[b].dqm_busy <=> Within(b, READ, Last(b) - 2)
       /\ Within(b, READ, Last(b) - 1) => out.dbusy
       /\ Within(b, READ, BUSY + 1) => out.dbusy64
       /\ bank[b].st = READ => \A c \in Banks \ {b} : ~ Within(c, READ, Last(c))
  /\ out.pins.op \in {"WRITE", "WRITEA"} => \A b \in Banks : ~ Within(b, READ + 1, BUSY)

(* br is a register at 96 MHz: what keeps a bank that was free to transfer *)
(* when it set br from transferring now is in the masks as well.           *)
GrantInv(b) ==
  fast /\ bank[b].br /\ bank[b].st = PRE_RD =>
    \/ ~ out.dbusy /\ (out.dbusy64 => ~ wrl[b])
    \/ \E c \in Banks : bank[c].dqm_busy

Reading(b, first, last) == Within(b, first, last) /\ ~ slots[b].wr

ReadBurst(b, row, col, beat, wait) ==
  [kind |-> "READ", ba |-> b, row |-> row, col |-> col, beat |-> beat, len |-> BurstLen,
   wait |-> wait, stop |-> 0, full |-> FALSE, auto |-> b \in auto]

BurstAt ==
  sim.burst # S!None =>
    LET b == sim.burst.ba IN
    /\ b \in Banks /\ Within(b, READ + 1, BUSY)
    /\ sim.burst = ReadBurst(b, sim.burst.row, sim.burst.col,
                             IF bank[b].st <= DST THEN 0 ELSE bank[b].st - DST,
                             IF bank[b].st = READ + 1 THEN 1 ELSE 0)
    /\ sim.burst.row \in Nat /\ sim.burst.col \in Nat /\ sim.burst.col % BurstLen = 0

DataInv(b) ==
  /\ Reading(b, READ + 1, Last(b)) =>
       /\ sim.burst # S!None /\ sim.burst.ba = b
       /\ (sim.burst.row * Page) + sim.burst.col = slots[b].a
  /\ Reading(b, READ, Last(b) - 2) => ~ Masks(out.pins)
  /\ Reading(b, READ + 1, Last(b) - 1) => ~ sim.dqm[2]
  /\ Reading(b, READ + 2, Last(b)) => ~ sim.dqm[1]
  /\ out.dok[b] /\ slots[b].st = "WAIT" /\ ~ slots[b].wr =>
       out.dout = <<b, slots[b].a + slots[b].n>>

BurstInv == BurstAt /\ \A b \in Banks : DataInv(b)

IInv ==
  /\ Typed /\ RefreshInv /\ PinsInv /\ BusyInv /\ BurstInv
  /\ \A b \in Banks : GrantInv(b) /\ LatchInv(b) /\ WorkInv(b) /\ AnswerInv(b) /\ RowInv(b)

-----------------------------------------------------------------------------
(* The times of the chip, which the state of a bank bounds from below.     *)
Age(b) == timing.bank[b]

(* Nothing is left of the last access, but for a clock of a pause.         *)
Old(b)  == Age(b).act >= T!tRC - 1 /\ Age(b).pre >= T!tRP - 1 /\ Age(b).auto = S!Nothing
Shut(b) == Age(b).row = S!Nothing /\ sim.row[b] = S!Nothing /\ Old(b)

(* An open row that is to be closed may be, wait clocks from now.          *)
Closable(b, wait) ==
  IF Age(b).row = S!Nothing THEN Old(b)
  ELSE Age(b).act >= T!tRAS - wait /\ Age(b).wr >= T!tWR - wait /\ Age(b).auto = S!Nothing

(* A refresh has not yet closed the rows.                                  *)
Closing == (rfsh.rfshing /\ rfsh.cmd = "PRECHARGE_ALL") \/ out.pins.op = "PRECHARGE_ALL"

(* A bank with auto-precharge after its transfer: the clock in which the   *)
(* chip closes the row, and the simulator with the last half-word.         *)
After(b) == b \in auto /\ READ < bank[b].st

SelfClosing(b) ==
  LET past == bank[b].st - READ IN
  /\ IF Age(b).row = S!Nothing THEN Age(b).auto = S!Nothing
     ELSE /\ past <= BurstLen + 1
          /\ \E left \in 1 .. BurstLen, late \in BOOLEAN :
               /\ Age(b).auto = [left |-> left, late |-> late]
               /\ left = 1 \/ left + past <= BurstLen + 1
  /\ sim.row[b] = S!Nothing \/ (sim.burst # S!None /\ sim.burst.ba = b)

(* The row that is open, or being opened, and for how long it has been.    *)
OpenRow(b) ==
  bank[b].actd \/ Within(b, ACT, READ) =>
    IF OnPins(b, {"ACTIVE"}) THEN Shut(b) /\ Age(b).act >= T!tRC /\ Age(b).pre >= T!tRP
    ELSE Age(b).row = <<RowReg(b)>>

OpenFor(b) ==
  /\ Within(b, ACT, READ - 1) \/ (READ <= bank[b].st /\ ~ (b \in auto)) => bank[b].actd
  /\ Within(b, ACT, READ - 1) /\ ~ OnPins(b, {"ACTIVE"}) => Age(b).act >= 1
  /\ READ <= bank[b].st =>
       Age(b).act >= T!tRCD + (bank[b].st - READ) \/ Age(b).act >= T!tRC

(* A bank that rests may close its row, or has closed it.                  *)
MayClose(b) ==
  /\ bank[b].st = IDLE /\ bank[b].actd => Closable(b, 1)
  /\ OnPins(b, {"PRECHARGE"}) => Closable(b, 0)
  /\ bank[b].st = IDLE /\ ~ bank[b].actd => IF Closing THEN Closable(b, 0) ELSE Shut(b)
  /\ Within(b, 1, PRE_ACT) /\ ~ OnPins(b, {"PRECHARGE"}) => Shut(b)

ClosesItself(b) == IF After(b) THEN SelfClosing(b) ELSE Age(b).auto = S!Nothing

Ages(b) == {Age(b).act, Age(b).pre, Age(b).wr} \subseteq Nat /\ Age(b).wr >= 1

AgeInv(b) == Ages(b) /\ OpenRow(b) /\ OpenFor(b) /\ MayClose(b) /\ ClosesItself(b)

(* The steps of the refresh engine, and the pause after a refresh.         *)
PauseInv ==
  /\ timing.ref \in Nat /\ timing.rrd \in Nat /\ timing.rrd >= 1
  /\ rfsh.rfshing =>
       /\ rfsh.st >= 1
       /\ rfsh.cmd = "PRECHARGE_ALL" => rfsh.st = 1
       /\ rfsh.cmd = "REFRESH" => rfsh.st = First + 1
  /\ out.pins.op = "PRECHARGE_ALL" => rfsh.st = 2
  /\ out.pins.op = "REFRESH" =>
       /\ rfsh.st = First + 2
       /\ \A b \in Banks : Shut(b) /\ Age(b).pre >= T!tRP
  /\ timing.ref >= IF ~ rfsh.rfshing \/ rfsh.st <= First THEN T!tRFC - 1
                   ELSE IF rfsh.st <= First + 2 THEN T!tRFC ELSE rfsh.st - First - 2
  /\ out.pins.op = "ACTIVE" =>
       timing.ref >= T!tRFC /\ timing.rrd >= T!tRRD /\ bank[out.pins.ba].post_act

TimesInv == PauseInv /\ \A b \in Banks : AgeInv(b)

=============================================================================
