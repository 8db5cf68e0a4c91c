---------------------------- MODULE Sdram64Bank ----------------------------
(***************************************************************************)
(* One bank of the SDRAM controller of the slot-based cores,               *)
(* jtframe_sdram64_bank.v: a one-hot state machine that precharges,        *)
(* activates and reads or writes, each when the bus is granted to it.      *)
(*                                                                         *)
(* s is the bank's registers, g its geometry (len, the half-words its      *)
(* requester takes; auto, auto-precharge) and i what it sees in this       *)
(* clock: rd, wr, match (the open row is the one asked for), bg, help,     *)
(* setp (a refresh starts), and who uses the shared pins: dbusy, dbusy64,  *)
(* dqm, act.                                                               *)
(***************************************************************************)
EXTENDS Naturals

CONSTANTS HF,        \* the clock is 96 MHz, not 48 MHz
          BurstLen   \* half-words of the chip's burst, the longest of the banks

IDLE    == 0
PRE_ACT == IF HF THEN 2 ELSE 1
ACT     == PRE_ACT + 1
PRE_RD  == PRE_ACT + (IF HF THEN 2 ELSE 1)
READ    == PRE_RD + 1
DST     == READ + 2
BUSY    == DST + BurstLen - 1
RDY(g)  == DST + g.len - 1
STW(g)  == BUSY + 1 + (IF g.auto THEN 1 ELSE 0)

BankReset == [st |-> IDLE, prechd |-> FALSE, actd |-> FALSE, row |-> 0,
              last_act |-> FALSE, post_act |-> FALSE, written |-> FALSE,
              in_busy |-> FALSE, in_busy64 |-> FALSE, dqm_busy |-> FALSE,
              dok |-> FALSE, br |-> FALSE]

Wants(i) == i.rd \/ i.wr

RowMatch(g, s, i) == i.match /\ s.actd /\ ~ g.auto

-----------------------------------------------------------------------------
(* What a bank that holds the bus does with it.                            *)
DoPrech(g, s, i) ==
  /\ i.bg /\ s.st = IDLE /\ Wants(i)
  /\ ~ s.prechd /\ ~ RowMatch(g, s, i)

DoAct_tight(g, s, i) ==
  /\ i.bg /\ ~ i.dqm
  /\ \/ s.st = IDLE /\ Wants(i) /\ s.prechd /\ ~ s.actd
     \/ s.st = PRE_ACT

DoAct_masking(g, s, i) ==
  /\ i.bg /\ ~ i.act
  /\ \/ s.st = IDLE /\ Wants(i) /\ s.prechd /\ ~ s.actd
     \/ s.st = PRE_ACT

DoAct(g, s, i) ==
  /\ i.bg /\ ~ i.act /\ ~ i.dqm
  /\ \/ s.st = IDLE /\ Wants(i) /\ s.prechd /\ ~ s.actd
     \/ s.st = PRE_ACT

DoRead_fault(g, s, i) ==
  /\ i.bg /\ ~ i.dbusy /\ ~ i.dqm
  /\ \/ s.st = IDLE /\ Wants(i) /\ RowMatch(g, s, i)
     \/ s.st = PRE_RD

DoRead(g, s, i) ==
  /\ i.bg /\ ~ i.dbusy /\ (~ i.dbusy64 \/ i.rd) /\ ~ i.dqm
  /\ \/ s.st = IDLE /\ Wants(i) /\ RowMatch(g, s, i)
     \/ s.st = PRE_RD

Dbusy(g, s, i)   == s.in_busy \/ DoRead(g, s, i)
Dbusy64(g, s, i) == s.in_busy64 \/ DoRead(g, s, i)
WrBusy(g, s, i)  == DoRead(g, s, i) /\ i.wr

Ack_fault(s) == s.st >= READ

Ack(s)    == s.st = READ
Rdy(g, s) == IF s.written /\ ~ g.auto THEN s.st = READ ELSE s.st = RDY(g)

Rotates(s, i) ==
  \/ s.st = PRE_RD /\ i.bg /\ ~ i.dqm
  \/ s.st = PRE_ACT /\ i.bg /\ ~ i.dqm /\ ~ i.act
  \/ s.st \notin {IDLE, PRE_ACT, PRE_RD}

(* A write ends as soon as its command is out; help keeps an idle bank     *)
(* idle, though not its command off the pins.                              *)
NextSt(g, s, i) ==
  CASE s.st = READ /\ i.wr /\ ~ g.auto    -> IDLE
    [] s.st = IDLE /\ ~ i.help            ->
         IF DoRead(g, s, i) THEN READ
         ELSE IF DoAct(g, s, i) THEN ACT
         ELSE IF DoPrech(g, s, i) THEN 1 ELSE IDLE
    [] s.st = IDLE /\ i.help              -> IDLE
    [] s.st # IDLE /\ ~ (s.st = READ /\ i.wr /\ ~ g.auto) ->
         IF Rotates(s, i) THEN (s.st + 1) % STW(g) ELSE s.st

(* br, a register at 96 MHz (next is the state to come) and a wire at      *)
(* 48 MHz (next is the state now).                                         *)
Asks(s, i, next) ==
  /\ Wants(i)
  /\ \/ (s.st = IDLE \/ next = IDLE) /\ ~ i.help
     \/ next = PRE_ACT
     \/ next = PRE_RD
  /\ next = PRE_RD => ~ (i.dbusy \/ (i.dbusy64 /\ i.wr))

BankStep(g, s, i, row) ==
  LET next == NextSt(g, s, i)
      acts == DoAct(g, s, i)
      shut == DoPrech(g, s, i) \/ i.setp \/ (DoRead(g, s, i) /\ g.auto)
      Window(on, first, last) ==      \* set when first comes, reset after last
        next = first \/ (on /\ s.st # last /\ ~ next < first)
  IN [st        |-> next,
      row       |-> IF acts THEN row ELSE s.row,
      prechd    |-> shut \/ (s.prechd /\ ~ acts),
      actd      |-> ~ shut /\ (s.actd \/ acts),
      last_act  |-> acts,
      post_act  |-> acts \/ s.last_act,
      written   |-> IF DoRead(g, s, i) THEN i.wr ELSE s.written /\ s.st # IDLE,
      in_busy   |-> Window(s.in_busy, READ, IF g.len = 1 THEN READ + 1 ELSE RDY(g) - 2),
      in_busy64 |-> Window(s.in_busy64, READ, BUSY),
      dqm_busy  |-> Window(s.dqm_busy, READ, RDY(g) - 2),
      dok       |-> Window(s.dok, DST, RDY(g)),
      br        |-> HF /\ Asks(s, i, next)]

Br(s, i) == IF HF THEN s.br ELSE Asks(s, i, s.st)

=============================================================================
