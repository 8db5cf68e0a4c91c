------------------------- MODULE DownloadInvariant -------------------------
(***************************************************************************)
(* The inductive invariant of a download whose host sends a byte every 16  *)
(* clocks or more, while refreshes fall due at a rate the programming bank *)
(* can bear.  The phase of the host's tick tells how long ago the last     *)
(* byte was taken, the state of the bank how long a write still takes.     *)
(***************************************************************************)
EXTENDS Download

(* What the theorems ask of the parameters: 50 clocks for each refresh     *)
(* that falls due, and no file with one byte for the SDRAM.  Its only      *)
(* write would also have to precharge: at 96 MHz, after a refresh, it ends *)
(* too late for the dump, or for the PROM's byte that follows.             *)
Ordinary ==
  /\ 50 * Batch <= Line /\ 2 * Batch <= MaxDebt
  /\ \A f \in Files : f.prom # f.header + 1 /\ f.first # f.header + 1

-----------------------------------------------------------------------------
(* The host.                                                               *)

(* The bytes for the SDRAM are those from header on, up to here.           *)
SdramEnd == IF full \/ file.prom < FirstLen THEN file.prom ELSE FirstLen

(* The next byte for the SDRAM from byte a on.                             *)
From(a) == IF a < file.header THEN file.header ELSE IF a > SdramEnd THEN SdramEnd ELSE a

HostRegs == [addr: Int, tick: Nat, rom: BOOLEAN, ram: BOOLEAN, wr: BOOLEAN, done: BOOLEAN,
             dumps: BOOLEAN, release: BOOLEAN]

HostInv ==
  /\ pace \in {16, 32} /\ file \in Files /\ full \in BOOLEAN /\ fast \in BOOLEAN
  /\ host \in HostRegs /\ host.addr \in -1 .. Length /\ host.tick < pace
  /\ host.done <=> ~ host.rom /\ ~ host.ram
  /\ ~ (host.rom /\ host.ram)
  /\ host.done => host.tick = 2 /\ host.addr = Length
  /\ host.wr <=> host.tick = 2 /\ ~ host.done
  /\ ~ host.done /\ host.tick # 0 => host.addr >= 0
  /\ ~ host.done /\ host.tick # 1 => host.addr < Length
  /\ ~ host.done => (host.rom <=> host.addr < file.nvram \/ file.nvram = file.len)
  /\ Jumps => host.addr < FirstLen \/ host.addr >= file.prom
  /\ dwn.seen.wr <=> host.tick = 3
  /\ dwn.seen.wr => dwn.seen = [wr |-> TRUE, rom |-> host.rom, byte |-> host.addr, kind |-> KindOf(host.addr)]
  /\ ~ dwn.seen.rom => ~ host.rom \/ host.addr = -1
  /\ came = IF host.tick \in {1, 2, 3} THEN From(host.addr) ELSE From(host.addr + 1)

(* Clocks since the last byte could be taken, and until the next one is.   *)
Age  == IF host.tick < 4 THEN host.tick + pace - 4 ELSE host.tick - 4
Left == pace - Age

-----------------------------------------------------------------------------
(* The programming bank.                                                   *)
Idle == bank.st = IDLE
Last == STW(Geo)

DwnInv ==
  /\ DwnType /\ Exact
  /\ came \in Nat /\ gone \in Nat /\ file.header <= gone
  /\ ~ (dwn.we /\ dwn.prom)

BankInv ==
  /\ bank.st \in 0 .. Last - 1
  /\ {bank.prechd, bank.actd, bank.br, quiet, out.ack} \subseteq BOOLEAN
  /\ bank.st \in 1 .. READ + 1 => dwn.we
  /\ out.ack <=> bank.st = READ + 1
  /\ bank.br => fast
  /\ fast /\ bank.st \in {PRE_ACT, PRE_RD} => bank.br
  /\ bank.actd <=> bank.st \in ACT .. PRE_RD
  /\ Idle /\ ~ bank.prechd => gone = file.header \/ (~ host.rom /\ ~ dwn.we)
  /\ ~ Idle => (bank.prechd <=> ~ bank.actd)
  /\ fast /\ quiet => ~ bank.br /\ (dwn.we => Age = 0)
  /\ fast /\ ~ dwn.we /\ bank.st # READ + 2 => quiet

RfshInv ==
  /\ rfsh \in RfshRegs
  /\ rfsh.rfshing <=> rfsh.st # 0
  /\ rfsh.rfshing => Idle
  /\ rfsh.br => rfsh.cnt # 0 /\ ~ rfsh.rfshing
  /\ ~ rfsh.help

-----------------------------------------------------------------------------
(* Times.                                                                  *)

(* Where a write that has not begun will begin, and what holds it up.      *)
Pos  == IF ~ Idle THEN bank.st ELSE IF bank.prechd THEN PRE_ACT ELSE 0
Hold == IF rfsh.st # 0 THEN Steps - rfsh.st ELSE IF fast /\ Idle /\ ~ bank.br THEN 1 ELSE 0

(* Clocks until the bank is in READ with the write that is on.             *)
ToRead == IF bank.st < READ THEN Hold + READ - Pos ELSE Last - bank.st + READ - PRE_ACT

(* The age at which it is.                                                 *)
Bound == IF fast THEN IF gone = file.header THEN 15 ELSE 13
         ELSE IF gone = file.header THEN 8 ELSE 7

TimeInv ==
  /\ dwn.we /\ bank.st \notin {READ, READ + 1} => ~ dwn.pendwe /\ Age + ToRead <= Bound
  /\ dwn.we /\ bank.st > READ + 1 => fast /\ bank.st - READ >= Age + 1
  /\ bank.st >= READ => Age - (bank.st - READ) <= IF fast THEN 15 ELSE 8
  /\ bank.st \in {READ, READ + 1} /\ ~ dwn.pendwe => Age - (bank.st - READ) <= Bound
  /\ dwn.pendwe => Age = 0 /\ fast /\ bank.st = READ + 1 /\ gone = file.header

(* Clocks until the bank is idle, and until a refresh may start.           *)
ToIdle ==
  IF ~ dwn.we THEN IF Idle THEN 0 ELSE Last - bank.st
  ELSE IF bank.st < READ THEN ToRead + Last - READ
  ELSE IF bank.st <= READ + 1 /\ ~ dwn.pendwe THEN Last - bank.st
  ELSE Last - bank.st + Last - PRE_ACT

Greater(a, b) == IF a < b THEN b ELSE a

ToGrant ==
  IF rfsh.br /\ Idle /\ SeenQuiet THEN 0
  ELSE LET x == Greater(ToIdle, IF rfsh.br THEN 0 ELSE 1)
       IN IF host.done \/ x < Left \/ (fast /\ x = Left) THEN x
          ELSE Greater(ToIdle, Left) + Last

ToPay == IF rfsh.rfshing THEN Steps - rfsh.st ELSE Steps + ToGrant

DebtInv ==
  /\ since \in 0 .. Line
  /\ rfsh.cnt <= Batch
  /\ rfsh.cnt > 0 => since + 40 * (rfsh.cnt - 1) + ToPay <= 50 * Batch

ControlInv == HostInv /\ DwnInv /\ BankInv /\ RfshInv /\ TimeInv /\ DebtInv

-----------------------------------------------------------------------------
(* The chip.                                                               *)

(* The byte of the write that the bank is at, and when its row closes.     *)
Current == IF bank.st > READ + 1 THEN gone - 1 ELSE gone
Closing == READ + (IF fast THEN 2 ELSE 1)

RowOf(k) == WordOf(k) \div Page

Upto(n, limit) == IF n < limit THEN n ELSE limit

(* The command on the pins is the one the bank's or the refresh's state    *)
(* tells.                                                                  *)
PinsInv ==
  /\ rfsh.cmd = "REFRESH" => rfsh.st = First + 1
  /\ bank.st = ACT => out.pins = [op |-> "ACTIVE", ba |-> BankOf(gone), a |-> RowOf(gone)]
  /\ bank.st = READ =>
       /\ out.pins = [op |-> "WRITEA", ba |-> BankOf(gone), a |-> WordOf(gone)]
       /\ out.mask = <<HalfOf(gone)>> /\ out.din = gone
  /\ bank.st \in {IDLE, 1} \ {ACT} => out.pins.op \in {"NOP", "PRECHARGE_ALL", "REFRESH"}
  /\ bank.st \notin {IDLE, 1, ACT, READ} => out.pins.op = "NOP"
  /\ out.pins.op = "REFRESH" => rfsh.st = First + 2
  /\ bank.st > READ + 1 => gone # file.header

(* A bank of the chip, which only the current write opens.                 *)
BankIs(b) ==
  LET t == timing.bank[b] IN
  IF bank.st > ACT /\ b = BankOf(Current) THEN
    /\ t.row = IF bank.st <= Closing THEN <<RowOf(Current)>> ELSE T!Nothing
    /\ t.auto = IF READ < bank.st /\ bank.st <= Closing THEN [left |-> 1, late |-> TRUE]
                ELSE T!Nothing
    /\ t.act = Upto(bank.st - ACT, T!tRC)
    /\ t.pre = IF bank.st <= Closing THEN T!tRP ELSE Upto(bank.st - Closing - 1, T!tRP)
  ELSE
    /\ t.row = T!Nothing /\ t.auto = T!Nothing
    /\ ~ Idle \/ bank.prechd \/ gone = file.header => t.act = T!tRC /\ t.pre = T!tRP
    /\ t.act \in Nat /\ t.pre \in Nat /\ t.pre >= Upto(rfsh.st, T!tRP)

TimingInv ==
  /\ \A b \in Banks : BankIs(b)
  /\ timing.rrd \in Nat /\ timing.ref \in Nat
  /\ timing.rrd >= IF bank.st > ACT THEN Upto(bank.st - ACT, T!tRRD) ELSE T!tRRD
  /\ timing.ref >= IF rfsh.st > First + 2 THEN rfsh.st - First - 2
                   ELSE IF bank.st # IDLE \/ rfsh.st > First THEN T!tRFC ELSE T!tRFC - 1

SimInv ==
  /\ sim.burst = S!None /\ sim.mode = Mode
  /\ sim.row = [b \in Banks |-> IF bank.st \in ACT + 1 .. READ /\ b = BankOf(gone)
                                THEN <<RowOf(gone)>> ELSE S!Nothing]

ChipInv == PinsInv /\ TimingInv /\ SimInv

-----------------------------------------------------------------------------
(* What was written, and what the PROMs have taken.                        *)
Written == IF bank.st = READ + 1 THEN gone + 1 ELSE gone
Past    == IF host.tick \in {1, 2, 3} THEN host.addr ELSE host.addr + 1

DataInv ==
  /\ mem = {Entry(k) : k \in file.header .. Written - 1}
  /\ prom \cup (IF dwn.prom THEN {dwn.prog} ELSE {}) = {k \in file.prom .. RomLen - 1 : k < Past}
  /\ host.release \/ host.dumps \/ ~ rst => host.done
  /\ ~ rst => ~ dwn.we /\ ~ dwn.prom
=============================================================================
