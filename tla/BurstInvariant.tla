--------------------------- MODULE BurstInvariant ---------------------------
(***************************************************************************)
(* The inductive invariant of the burst controller, for any requester: the *)
(* sequencer's state tells what is in the two pipeline stages and on the   *)
(* pins, which row is open, how old the last commands are and what the     *)
(* SDRAM of the simulator is doing.                                        *)
(***************************************************************************)
EXTENDS BurstPath

-----------------------------------------------------------------------------
(* The refresh engine, and what keeps the sequencer from the pins.         *)
RefreshInv ==
  /\ fast /\ rfsh.st \in 0 .. 9 /\ rfsh.rfshing \in BOOLEAN
  /\ rfsh.rfshing <=> rfsh.st # 0
  /\ rfsh.cmd \in {"NOP", "PRECHARGE_ALL", "REFRESH"}
  /\ rfsh.cmd = "REFRESH" <=> rfsh.st = 3
  /\ rfsh.cmd = "PRECHARGE_ALL" => rfsh.st \in {0, 1}

Modes == {"IDLE", "PRE", "TRP1", "TRP2", "CMD", "WAIT1", "WAIT2"}

(* Before the mode is set the chip is at rest.                             *)
Untouched == rfsh.st = 0 /\ busy.mode_l = 0 /\ busy.rfsh_l = 0 /\ burst.st = "IDLE" /\ busy.idle = Delay

BusyInv ==
  /\ {busy.init, busy.mode_l, busy.rfsh_l, busy.idle} \subseteq 0 .. Delay
  /\ busy.mode \in Modes /\ busy.fullpage \in BOOLEAN
  /\ rfsh.st >= 2 => busy.rfsh_l = Delay
  /\ busy.init > 0 => busy.mode = "IDLE" /\ ~ busy.fullpage
  /\ busy.mode = "IDLE" /\ ~ busy.fullpage => Untouched
  /\ ModeBusy => ~ busy.fullpage
  /\ CtrlBusy => burst.st = "ACT" \/ (burst.st = "IDLE" /\ busy.idle = Delay)

-----------------------------------------------------------------------------
(* What is in the pipeline.                                                *)
Tells(s, ack, dok, rdy) == (s.ack <=> ack) /\ (s.dok <=> dok) /\ (s.rdy <=> rdy)
Silent(s) == s.dq = Nothing /\ Tells(s, FALSE, FALSE, FALSE)

(* A stage holds a command of the refresh engine or of the mode's FSM.     *)
Calm(s)  == Silent(s) /\ s.cmd.op \in {"NOP", "PRECHARGE_ALL", "REFRESH", "LOAD_MODE"}
Empty(s) == Silent(s) /\ s.cmd.op = "NOP"

Shows(s, op) == s.cmd.op = op /\ s.cmd.ba = burst.ba
InRow(s) == s.cmd.a \in Nat /\ Row(s.cmd.a) = Row(burst.addr)

(* The clock after the one in which the sequencer came to rest.            *)
JustIdle == burst.st = "IDLE" /\ busy.idle = 0

(* CL2 comes twice when the sequencer waits: ack is out in the first.      *)
Acking == io.o.ack

Reads(s) == Shows(s, "READ") /\ s.cmd.a = burst.addr /\ s.dq = Nothing /\ Tells(s, TRUE, FALSE, FALSE)
Acks(s)  == s.cmd.op = "NOP" /\ s.dq = Nothing /\ Tells(s, TRUE, FALSE, FALSE)
Closes(s) == s.cmd.op = "NOP" /\ s.dq = Nothing /\ Tells(s, FALSE, TRUE, TRUE)
Beats(s) == s.cmd.op = "NOP" /\ s.dq = Nothing /\ ~ s.ack /\ ~ s.rdy

CmdPipe ==
  /\ burst.st = "IDLE" => Calm(io.r) /\ Silent(io.o)
       /\ IF JustIdle THEN Shows(io.o, "PRECHARGE") /\ Empty(io.r) ELSE Calm(io.o)
  /\ burst.st = "ACT" => Calm(io.r) /\ Calm(io.o)
  /\ burst.st = "TRCD1" => Silent(io.r) /\ Calm(io.o) /\ Shows(io.r, "ACTIVE") /\ io.r.cmd.a = Row(burst.addr)
  /\ burst.st = "TRCD2" => Empty(io.r) /\ Silent(io.o) /\ Shows(io.o, "ACTIVE") /\ io.o.cmd.a = Row(burst.addr)
  /\ burst.st = "TRP1" => Silent(io.r) /\ Shows(io.r, "PRECHARGE") /\ Silent(io.o)
       /\ io.o.cmd.op = IF burst.write THEN "NOP" ELSE "STOP"

ReadPipe ==
  /\ burst.st = "READ_CMD" => Empty(io.r) /\ Empty(io.o)
  /\ burst.st = "CL1" => Reads(io.r) /\ Empty(io.o)
  /\ burst.st = "CL2" /\ Acking => Reads(io.o) /\ Empty(io.r)
  /\ burst.st = "CL2" /\ ~ Acking => Empty(io.r) /\ Empty(io.o) /\ ~ burst.wait
  /\ burst.st = "RDATA" => Beats(io.r) /\ Beats(io.o)
  /\ burst.st = "STOP" /\ ~ burst.write => Closes(io.r) /\ Beats(io.o)
  /\ burst.st = "PRE" /\ ~ burst.write => Silent(io.r) /\ io.r.cmd.op = "STOP" /\ Closes(io.o)

(* A beat of a write.                                                      *)
Drive(s, ops) == s.cmd.op \in ops /\ ~ s.ack /\ ~ s.dok

WritePipe ==
  /\ burst.st = "WACK" => Empty(io.r) /\ Empty(io.o)
  /\ burst.st = "WDATA" => Acks(io.r) /\ Empty(io.o)
  /\ burst.st = "WRITE_CMD" => Empty(io.r) /\ Acks(io.o)
  /\ burst.st = "WRITE" => /\ Drive(io.r, {"NOP", "WRITE"}) /\ ~ io.r.rdy
                           /\ Drive(io.o, {"NOP", "WRITE"}) /\ ~ io.o.rdy
  /\ burst.st = "STOP" /\ burst.write =>
       /\ Drive(io.r, {"NOP", "WRITE", "STOP"}) /\ io.r.rdy
       /\ Drive(io.o, {"NOP", "WRITE"}) /\ ~ io.o.rdy
  /\ burst.st = "TWR1" => /\ Silent(io.r) /\ io.r.cmd.op = "STOP"
                          /\ Drive(io.o, {"NOP", "WRITE", "STOP"}) /\ io.o.rdy
  /\ burst.st = "TWR2" => Empty(io.r) /\ Silent(io.o) /\ io.o.cmd.op = "STOP"
  /\ burst.st = "PRE" /\ burst.write => Empty(io.r) /\ Empty(io.o)
  /\ \A s \in {io.r, io.o} : s.cmd.op = "WRITE" => Shows(s, "WRITE") /\ InRow(s)

WriteStates == {"WACK", "WDATA", "WRITE_CMD", "WRITE", "TWR1", "TWR2"}
ReadStates  == {"READ_CMD", "CL1", "CL2", "RDATA"}

SeqRegs == [st: BurstStates, ba: Nat, addr: Nat, write: BOOLEAN, wait: BOOLEAN]

SeqInv ==
  /\ burst \in SeqRegs
  /\ burst.st \in WriteStates => burst.write
  /\ burst.st \in ReadStates => ~ burst.write
  /\ CmdPipe /\ ReadPipe /\ WritePipe

(* A mode or a refresh on its way to the pins.                             *)
ControlPipe ==
  /\ io.r.cmd.op = "REFRESH" => rfsh.st = 4
  /\ io.o.cmd.op = "REFRESH" => rfsh.st = 5
  /\ io.r.cmd.op = "LOAD_MODE" => busy.mode = "WAIT1"
  /\ io.o.cmd.op = "LOAD_MODE" => busy.mode = "WAIT2"
  /\ ~ busy.fullpage => io.r.cmd.op # "REFRESH" /\ io.o.cmd.op # "REFRESH"
  /\ busy.mode = "WAIT2" => Empty(io.r)
  /\ busy.fullpage /\ busy.mode_l = Delay => Empty(io.r) /\ Empty(io.o)
  /\ busy.mode = "IDLE" /\ ~ busy.fullpage => Empty(io.r) /\ Empty(io.o)

-----------------------------------------------------------------------------
(* The chip.                                                               *)
Opened == burst.st \in {"READ_CMD", "CL1", "CL2", "RDATA", "WACK", "WDATA", "WRITE_CMD", "WRITE",
                        "STOP", "TWR1", "TWR2", "PRE", "TRP1"} \/ JustIdle

RowInv ==
  /\ burst.st # "IDLE" \/ JustIdle => burst.ba \in {BankA, BankB}
  /\ chip.row = [b \in {BankA, BankB} |->
                   IF Opened /\ b = burst.ba THEN <<Row(burst.addr)>> ELSE C!Nothing]

MinRef == CASE rfsh.st = 0 -> (IF busy.rfsh_l = 4 THEN 5 ELSE IF busy.rfsh_l = 3 THEN 6 ELSE 7)
            [] rfsh.st = 1 -> 7
            [] rfsh.st = 2 -> 5
            [] rfsh.st = 3 -> 6
            [] rfsh.st \in {4, 5} -> 7
            [] rfsh.st > 5 -> rfsh.st - 5

MinAct == CASE burst.st \in {"READ_CMD", "WACK"} -> 1
            [] burst.st \in {"CL1", "WDATA"} -> 2
            [] burst.st \in {"CL2", "WRITE_CMD"} -> 3
            [] burst.st \in {"RDATA", "WRITE"} -> 4
            [] burst.st = "STOP" -> 4
            [] burst.st \in {"TWR1", "PRE"} -> 5
            [] OTHER -> 6

MinPre == IF (burst.st = "IDLE" /\ busy.idle = 1) \/ (burst.st = "ACT" /\ ~ CtrlBusy) THEN 1 ELSE 2

Storing == burst.write /\ burst.st \in {"WRITE", "STOP", "TWR1", "TWR2"}

AgeInv ==
  /\ {chip.act, chip.pre, chip.ref, chip.wr, chip.mrd} \subseteq Nat
  /\ chip.act >= MinAct /\ chip.pre >= MinPre
  /\ chip.ref >= MinRef /\ (~ busy.fullpage => chip.ref >= 7)
  /\ ~ Storing => chip.wr >= 2
  /\ chip.wr >= 1 /\ (chip.in # C!Nothing => Storing)
  /\ chip.mrd >= IF busy.fullpage /\ busy.mode_l = Delay THEN 1 ELSE 2

PathInv == RefreshInv /\ BusyInv /\ SeqInv /\ ControlPipe /\ RowInv /\ AgeInv

-----------------------------------------------------------------------------
(* The bursts in the chip and in the simulator's SDRAM.                    *)
Reading == \/ burst.st = "CL2" /\ ~ Acking
           \/ burst.st = "RDATA"
           \/ burst.st \in {"STOP", "PRE"} /\ ~ burst.write

BurstRegs == [kind: {"READ", "WRITE"}, ba: Nat, row: Nat, col: 0 .. Page - 1, beat: 0 .. Page - 1,
              len: {Page}, wait: 0 .. 2, stop: 0 .. 2, full: {TRUE}, auto: {FALSE}]

Shaped(b) ==
  /\ b \in BurstRegs
  /\ b.kind = IF burst.write THEN "WRITE" ELSE "READ"
  /\ b.ba = burst.ba /\ b.row = Row(burst.addr)

SimInv ==
  /\ sim.row = chip.row
  /\ sim.mode = IF busy.fullpage THEN BurstMode ELSE BootMode
  /\ sim.dqm[1] => burst.st \in {"CL1", "WDATA"}
  /\ sim.dqm[2] => burst.st \in {"READ_CMD", "WACK"}
  /\ sim.burst # S!None =>
       (Reading \/ Storing \/ JustIdle \/ burst.st = "TRP1") /\ Shaped(sim.burst)

(* The mode is loaded in the last of the FSM's steps.                      *)
LoadInv ==
  /\ busy.mode = "WAIT1" => io.r.cmd.op = "LOAD_MODE"
  /\ busy.mode = "WAIT2" => io.o.cmd.op = "LOAD_MODE"

StoreInv ==
  chip.in = IF sim.burst # S!None /\ sim.burst.kind = "WRITE" THEN S!CellOf(sim.burst) ELSE C!Nothing

OutInv ==
  /\ chip.next \in {"NOP", "READ", "STOP"}
  /\ chip.next = "READ" => burst.st = "RDATA" \/ (burst.st = "CL2" /\ ~ Acking)
  /\ Reading =>
       /\ sim.burst # S!None /\ sim.burst.stop = 0 /\ chip.next # "STOP"
       /\ IF chip.next = "READ"
          THEN sim.burst.wait = 1 /\ sim.burst.beat = 0 /\ chip.at = S!CellOf(sim.burst) /\ chip.out = C!Nothing
          ELSE sim.burst.wait = 0 /\ chip.out = S!CellOf(sim.burst) /\ seen = io.dout
  /\ ~ Reading /\ (burst.st = "TRP1" => burst.write) =>
       (JustIdle /\ chip.next = "STOP") \/ chip.out = C!Nothing

TandemInv == SimInv /\ LoadInv /\ StoreInv /\ OutInv
=============================================================================
