---------------------------- MODULE BurstProofs ----------------------------
(***************************************************************************)
(* The burst path is correct for every page, every two lanes of whatever   *)
(* geometry, bank and base, and every history of refreshes, in three       *)
(* layers that each rest on the one before:                                *)
(*   PathInv    the controller: its pipeline, the row that is open and the *)
(*              ages of the last commands, by the state of the sequencer,  *)
(*              whence every command is legal (CommandsLegal);             *)
(*   TandemInv  the chip and the simulator's SDRAM read and write the same *)
(*              cell in the same clock (TandemCorrect);                    *)
(*   LineInv    the lanes: each half-word of a line that is on its way is  *)
(*              the one that belongs there (LinesWritten, LinesFilled).    *)
(* Clocks = {TRUE} is the clock of the cores with cache lanes (HF=1); the  *)
(* times of the chip are counted in it.                                    *)
(***************************************************************************)
EXTENDS BurstInvariant, TLAPS

-----------------------------------------------------------------------------
(* Arithmetic of rows.                                                     *)
LEMMA Division ==
  ASSUME NEW P \in Nat \ {0}, NEW a \in Nat
  PROVE  /\ a \div P \in Nat /\ a % P \in 0 .. P - 1
         /\ a = ((a \div P) * P) + (a % P)
OBVIOUS

(* The quotient and the remainder of a number so composed.                 *)
LEMMA Composed ==
  ASSUME NEW P \in Nat \ {0}, NEW q \in Nat, NEW r \in 0 .. P - 1
  PROVE  (q * P + r) \div P = q /\ (q * P + r) % P = r
OBVIOUS

(* The next column is in the same row unless the column is the last one.   *)
LEMMA SameRow ==
  ASSUME NEW a \in Nat, ~ PageLast(a)
  PROVE  Row(a + 1) = Row(a) /\ (a + 1) % Page = (a % Page) + 1
<1>1. Page \in Nat \ {0}
  BY PageAssumption
<1>2. PICK q \in Nat, r \in 0 .. Page - 1 :
        q = a \div Page /\ r = a % Page /\ a = q * Page + r
  BY <1>1, Division
<1>3. r + 1 \in 0 .. Page - 1
  BY <1>1, <1>2 DEF PageLast
<1>4. (q * Page + (r + 1)) \div Page = q /\ (q * Page + (r + 1)) % Page = r + 1
  BY <1>1, <1>3, Composed
<1>5. q * Page \in Nat
  BY <1>1
<1>6. a + 1 = q * Page + (r + 1)
  BY <1>2, <1>5
<1> QED BY <1>2, <1>4, <1>6 DEF Row

-----------------------------------------------------------------------------
(* What a requester may show the controller.                               *)
Asks(p) == /\ p.ba \in {BankA, BankB} /\ p.addr \in Nat
           /\ p.rd \in BOOLEAN /\ p.wr \in BOOLEAN

go == ~ CtrlBusy

(* The sequencer's next clock.                                             *)
SeqTo(p) ==
  CASE burst.st = "IDLE" -> IF p.rd \/ p.wr THEN "ACT" ELSE "IDLE"
    [] burst.st \in DOMAIN After -> After[burst.st]
    [] burst.st = "TRCD2" -> IF burst.write THEN "WACK" ELSE "READ_CMD"
    [] burst.st \in {"WRITE_CMD", "WRITE"} -> IF Last \/ ~ p.wr THEN "STOP" ELSE "WRITE"
    [] burst.st = "CL2" -> IF burst.wait THEN "CL2" ELSE "RDATA"
    [] burst.st = "RDATA" -> IF Last \/ ~ p.rd THEN "STOP" ELSE "RDATA"
    [] burst.st = "STOP" -> IF burst.write THEN "TWR1" ELSE "PRE"
    [] burst.st = "TRP1" -> "IDLE"

(* The states whose follower is fixed.                                     *)
LEMMA AfterDomain ==
  /\ DOMAIN After = {"ACT", "TRCD1", "WACK", "WDATA", "READ_CMD", "CL1", "TWR1", "TWR2", "PRE"}
  /\ \A s \in DOMAIN After : After[s] \in BurstStates
BY DEF After, BurstStates

(* One clock of the sequencer: its next state, and what it keeps.          *)
LEMMA SeqNext ==
  ASSUME burst \in SeqRegs, NEW p, Asks(p), BurstStep(p, go)
  PROVE  /\ burst' \in SeqRegs
         /\ ~ go => burst' = burst
         /\ go => burst'.st = SeqTo(p)
         /\ go /\ burst.st = "IDLE" /\ (p.rd \/ p.wr) => burst'.addr = p.addr /\ burst'.ba = p.ba
         /\ burst.st # "IDLE" =>
              /\ burst'.ba = burst.ba /\ burst'.write = burst.write
              /\ Row(burst'.addr) = Row(burst.addr)
              /\ burst.st \notin {"WRITE_CMD", "WRITE", "RDATA"} => burst'.addr = burst.addr
              /\ burst.st # "TRP1" => burst'.wait = (burst.wait /\ ~ (go /\ burst.st = "CL2"))
         /\ burst.st = "IDLE" => burst'.wait = burst.wait
<1>1. DOMAIN After = {"ACT", "TRCD1", "WACK", "WDATA", "READ_CMD", "CL1", "TWR1", "TWR2", "PRE"}
      /\ \A s \in DOMAIN After : After[s] \in BurstStates
  BY AfterDomain
<1>2. /\ burst.st \in BurstStates /\ burst.addr \in Nat /\ burst.ba \in Nat
      /\ burst.write \in BOOLEAN /\ burst.wait \in BOOLEAN
  BY DEF SeqRegs
<1>3. BurstStates = {"ACT", "TRCD1", "WACK", "WDATA", "READ_CMD", "CL1", "TWR1", "TWR2", "PRE",
        "IDLE", "TRCD2", "WRITE_CMD", "WRITE", "CL2", "RDATA", "STOP", "TRP1"}
  BY <1>1 DEF BurstStates
<1>4. NextCell \in Nat /\ Row(NextCell) = Row(burst.addr)
  BY <1>2, SameRow DEF NextCell, Last
<1> HIDE DEF go
<1>5. CASE Frozen(go)
  BY <1>2, <1>5 DEF Frozen
<1>6. CASE IdleStay(p, go)
  <2>1. go /\ burst.st = "IDLE" /\ ~ (p.rd \/ p.wr) /\ burst' = burst
    BY <1>6 DEF IdleStay
  <2>2. SeqTo(p) = "IDLE"
    BY <1>1, <2>1 DEF SeqTo, Asks
  <2>3. burst' \in SeqRegs
    BY <2>1
  <2> QED BY <2>1, <2>2, <2>3
<1>7. CASE Accept(p, go)
  <2>1. burst' = [burst EXCEPT !.st = "ACT", !.addr = p.addr, !.ba = p.ba, !.write = p.wr]
        /\ go /\ burst.st = "IDLE" /\ (p.rd \/ p.wr)
    BY <1>7 DEF Accept
  <2>2. burst' \in SeqRegs /\ burst'.st = "ACT" /\ burst'.addr = p.addr /\ burst'.ba = p.ba
        /\ burst'.wait = burst.wait
    BY <1>3, <2>1, LinesAssumption DEF SeqRegs, Asks
  <2> QED BY <1>1, <2>1, <2>2 DEF SeqTo, Asks
<1>8. CASE Pass(go)
  <2>1. burst' = [burst EXCEPT !.st = After[burst.st]] /\ go /\ burst.st \in DOMAIN After
    BY <1>8 DEF Pass
  <2>2. burst' \in SeqRegs /\ burst'.st = After[burst.st] /\ burst'.addr = burst.addr
        /\ burst'.ba = burst.ba /\ burst'.write = burst.write /\ burst'.wait = burst.wait
    BY <1>1, <2>1 DEF SeqRegs
  <2>3. burst.st \notin {"IDLE", "CL2", "TRP1", "WRITE_CMD", "WRITE", "RDATA", "TRCD2", "STOP"}
    BY <1>1, <2>1
  <2> QED BY <1>2, <2>1, <2>2, <2>3 DEF SeqTo
<1>9. CASE Command(go)
  <2>1. burst' = [burst EXCEPT !.st = IF burst.write THEN "WACK" ELSE "READ_CMD"]
        /\ go /\ burst.st = "TRCD2"
    BY <1>9 DEF Command
  <2>2. burst' \in SeqRegs /\ burst'.addr = burst.addr /\ burst'.ba = burst.ba
        /\ burst'.write = burst.write /\ burst'.wait = burst.wait
        /\ burst'.st = IF burst.write THEN "WACK" ELSE "READ_CMD"
    BY <1>3, <2>1 DEF SeqRegs
  <2> QED BY <1>1, <1>2, <2>1, <2>2 DEF SeqTo
<1>10. CASE WriteBeat(p, go)
  <2>1. burst' = [burst EXCEPT !.addr = NextCell, !.st = IF Last \/ ~ p.wr THEN "STOP" ELSE "WRITE"]
        /\ go /\ burst.st \in {"WRITE_CMD", "WRITE"}
    BY <1>10 DEF WriteBeat
  <2>2. burst' \in SeqRegs /\ burst'.addr = NextCell /\ burst'.ba = burst.ba
        /\ burst'.write = burst.write /\ burst'.wait = burst.wait
        /\ burst'.st = IF Last \/ ~ p.wr THEN "STOP" ELSE "WRITE"
    BY <1>3, <1>4, <2>1 DEF SeqRegs
  <2> QED BY <1>1, <1>2, <1>4, <2>1, <2>2 DEF SeqTo
<1>11. CASE CasLatency(go)
  <2>1. burst' = (IF burst.wait THEN [burst EXCEPT !.wait = FALSE] ELSE [burst EXCEPT !.st = "RDATA"])
        /\ go /\ burst.st = "CL2"
    BY <1>11 DEF CasLatency
  <2>2. burst' \in SeqRegs /\ burst'.addr = burst.addr /\ burst'.ba = burst.ba
        /\ burst'.write = burst.write /\ burst'.wait = FALSE
        /\ burst'.st = IF burst.wait THEN "CL2" ELSE "RDATA"
    BY <1>2, <1>3, <2>1 DEF SeqRegs
  <2> QED BY <1>1, <1>2, <2>1, <2>2 DEF SeqTo
<1>12. CASE ReadBeat(p, go)
  <2>1. burst' = [burst EXCEPT !.addr = NextCell, !.st = IF Last \/ ~ p.rd THEN "STOP" ELSE "RDATA"]
        /\ go /\ burst.st = "RDATA"
    BY <1>12 DEF ReadBeat
  <2>2. burst' \in SeqRegs /\ burst'.addr = NextCell /\ burst'.ba = burst.ba
        /\ burst'.write = burst.write /\ burst'.wait = burst.wait
        /\ burst'.st = IF Last \/ ~ p.rd THEN "STOP" ELSE "RDATA"
    BY <1>3, <1>4, <2>1 DEF SeqRegs
  <2> QED BY <1>1, <1>2, <1>4, <2>1, <2>2 DEF SeqTo
<1>13. CASE Stop(go)
  <2>1. burst' = [burst EXCEPT !.st = IF burst.write THEN "TWR1" ELSE "PRE"] /\ go /\ burst.st = "STOP"
    BY <1>13 DEF Stop
  <2>2. burst' \in SeqRegs /\ burst'.addr = burst.addr /\ burst'.ba = burst.ba
        /\ burst'.write = burst.write /\ burst'.wait = burst.wait
        /\ burst'.st = IF burst.write THEN "TWR1" ELSE "PRE"
    BY <1>3, <2>1 DEF SeqRegs
  <2> QED BY <1>1, <1>2, <2>1, <2>2 DEF SeqTo
<1>14. CASE Finish(go)
  <2>1. burst' = [burst EXCEPT !.st = "IDLE", !.wait = burst.write] /\ go /\ burst.st = "TRP1"
    BY <1>14 DEF Finish
  <2>2. burst' \in SeqRegs /\ burst'.addr = burst.addr /\ burst'.ba = burst.ba
        /\ burst'.write = burst.write /\ burst'.st = "IDLE"
    BY <1>3, <2>1 DEF SeqRegs
  <2>3. burst.st \notin DOMAIN After
    BY <1>1, <2>1
  <2>4. SeqTo(p) = "IDLE"
    BY <2>1, <2>3 DEF SeqTo
  <2> QED BY <2>1, <2>2, <2>4
<1> QED BY <1>5, <1>6, <1>7, <1>8, <1>9, <1>10, <1>11, <1>12, <1>13, <1>14 DEF BurstStep

-----------------------------------------------------------------------------
(* A clock of the controller and the chip, for a request p.                *)
Moves(p, start) == SdramStep(p, start, chip.out) /\ C!ChipStep(Pins)

(* One clock of the refresh engine, and when it leaves its idle state.     *)
LEMMA RefreshKept ==
  ASSUME RefreshInv, NEW p, NEW start, SdramStep(p, start, chip.out)
  PROVE  /\ RefreshInv'
         /\ rfsh.st = 0 /\ CtrlBusy => rfsh'.st = 0
         /\ rfsh'.st # rfsh.st => rfsh'.st = rfsh.st + 1 \/ (rfsh.st = 9 /\ rfsh'.st \in {0, 2})
         /\ rfsh.st = 0 /\ rfsh'.st # 0 => IdleOk /\ ~ CtrlBusy /\ rfsh'.st = 1
         /\ rfsh.st # 0 => rfsh'.st # rfsh.st
<1> DEFINE bg == RfshBg(p)
           nr == NoReq(p)
<1>1. Steps = 10 /\ First = 2 /\ fast' = fast
  BY DEF SdramStep, RfshStep, RefreshInv, Steps, First
<1>2. /\ rfsh'.st = StNext(bg, nr) /\ rfsh'.rfshing = Runs(bg, nr)
      /\ rfsh'.cmd = CASE rfsh.st = 0 -> "PRECHARGE_ALL"
                       [] rfsh.st = First -> "REFRESH"
                       [] OTHER -> "NOP"
  BY DEF SdramStep, RfshStep
<1>3. bg => ~ CtrlBusy /\ IdleOk /\ ~ rfsh.rfshing
  BY DEF RfshBg, CtrlBusy, RfshSel
<1> HIDE DEF bg, nr
<1>4. rfsh.st \in 0 .. 9 /\ rfsh.rfshing \in BOOLEAN /\ (rfsh.rfshing <=> rfsh.st # 0)
  BY DEF RefreshInv
<1>5. CASE Again(nr)
  <2>1. rfsh.st = 9 /\ rfsh'.st = 2 /\ rfsh'.rfshing /\ rfsh'.rfshing \in BOOLEAN
    BY <1>1, <1>2, <1>4, <1>5 DEF Again, Runs, StNext, Ends
  <2>2. rfsh'.cmd = "NOP"
    BY <1>1, <1>2, <2>1
  <2> QED BY <1>1, <2>1, <2>2 DEF RefreshInv
<1>6. CASE ~ Again(nr) /\ (rfsh.rfshing \/ bg)
  <2>1. rfsh'.st = IF rfsh.st = 9 THEN 0 ELSE rfsh.st + 1
    BY <1>1, <1>2, <1>4, <1>6 DEF StNext
  <2>2. rfsh'.rfshing \in BOOLEAN /\ (rfsh'.rfshing <=> rfsh.st # 9)
    <3>1. Runs(bg, nr) \in BOOLEAN
      BY DEF Runs
    <3>2. Runs(bg, nr) <=> rfsh.st # 9
      BY <1>1, <1>4, <1>6 DEF Runs, Ends
    <3> QED BY <1>2, <3>1, <3>2
  <2>3. rfsh'.rfshing \in BOOLEAN /\ (rfsh'.rfshing <=> rfsh'.st # 0) /\ rfsh'.st \in 0 .. 9
    BY <1>4, <2>1, <2>2
  <2>4. /\ rfsh'.cmd \in {"NOP", "PRECHARGE_ALL", "REFRESH"}
        /\ rfsh'.cmd = "REFRESH" <=> rfsh'.st = 3
        /\ rfsh'.cmd = "PRECHARGE_ALL" => rfsh'.st \in {0, 1}
    BY <1>1, <1>2, <1>4, <2>1
  <2>5. /\ rfsh.st = 0 /\ CtrlBusy => rfsh'.st = 0
        /\ rfsh'.st # rfsh.st => rfsh'.st = rfsh.st + 1 \/ (rfsh.st = 9 /\ rfsh'.st \in {0, 2})
        /\ rfsh.st = 0 /\ rfsh'.st # 0 => IdleOk /\ ~ CtrlBusy /\ rfsh'.st = 1
        /\ rfsh.st # 0 => rfsh'.st # rfsh.st
    BY <1>3, <1>4, <1>6, <2>1
  <2> QED BY <1>1, <2>3, <2>4, <2>5 DEF RefreshInv
<1>7. CASE ~ Again(nr) /\ ~ (rfsh.rfshing \/ bg)
  <2>1. rfsh.st = 0 /\ rfsh'.st = 0 /\ ~ rfsh'.rfshing /\ rfsh'.rfshing \in BOOLEAN
    BY <1>1, <1>2, <1>4, <1>7 DEF Runs, StNext
  <2>2. rfsh'.cmd = "PRECHARGE_ALL"
    BY <1>2, <2>1, <1>1
  <2> QED BY <1>1, <2>1, <2>2 DEF RefreshInv
<1> QED BY <1>5, <1>6, <1>7

(* One clock of the registers that keep the sequencer from the pins.       *)
LEMMA BusyNext ==
  ASSUME RefreshInv, BusyInv, NEW p, NEW start, SdramStep(p, start, chip.out)
  PROVE  /\ {busy'.init, busy'.mode_l, busy'.rfsh_l, busy'.idle} \subseteq 0 .. Delay
         /\ busy'.mode \in Modes /\ busy'.fullpage \in BOOLEAN
         /\ busy'.init = (IF busy.init = 0 THEN 0 ELSE busy.init - 1)
         /\ busy'.mode_l = IF ModeBusy THEN 4 ELSE IF busy.mode_l = 0 THEN 0 ELSE busy.mode_l - 1
         /\ busy'.rfsh_l = IF rfsh.st # 0 THEN 4 ELSE IF busy.rfsh_l = 0 THEN 0 ELSE busy.rfsh_l - 1
         /\ busy'.idle = IF burst.st # "IDLE" THEN 0 ELSE IF busy.idle = 4 THEN 4 ELSE busy.idle + 1
         /\ busy'.fullpage = (busy.fullpage \/ busy.mode = "WAIT2")
         /\ ModeBusy => busy'.mode = ModeAfter[busy.mode]
         /\ ~ ModeBusy => busy'.mode = IF ModeStarts THEN "PRE" ELSE "IDLE"
<1>1. busy' = [init   |-> Fades(FALSE, busy.init),
           mode_l |-> Fades(ModeBusy, busy.mode_l),
           rfsh_l |-> Fades(rfsh.rfshing, busy.rfsh_l),
           idle   |-> IF ~ BurstIdle THEN 0
                      ELSE IF busy.idle = Delay THEN Delay ELSE busy.idle + 1,
           mode   |-> IF ModeBusy THEN ModeAfter[busy.mode]
                      ELSE IF ModeStarts THEN "PRE" ELSE "IDLE",
           fullpage |-> busy.fullpage \/ busy.mode = "WAIT2"]
  BY DEF SdramStep, BusyStep
<1>2. /\ {busy.init, busy.mode_l, busy.rfsh_l, busy.idle} \subseteq 0 .. 4
      /\ busy.mode \in Modes /\ busy.fullpage \in BOOLEAN /\ Delay = 4
      /\ rfsh.rfshing \in BOOLEAN /\ (rfsh.rfshing <=> rfsh.st # 0)
  BY DEF BusyInv, RefreshInv, Delay
<1>3. ModeBusy => ModeAfter[busy.mode] \in Modes
  BY <1>2 DEF ModeBusy, ModeAfter, Modes
<1>4. busy'.mode \in Modes /\ busy'.fullpage \in BOOLEAN
  BY <1>1, <1>2, <1>3 DEF Modes
<1>5. /\ busy'.init = (IF busy.init = 0 THEN 0 ELSE busy.init - 1)
      /\ busy'.mode_l = IF ModeBusy THEN 4 ELSE IF busy.mode_l = 0 THEN 0 ELSE busy.mode_l - 1
      /\ busy'.rfsh_l = IF rfsh.st # 0 THEN 4 ELSE IF busy.rfsh_l = 0 THEN 0 ELSE busy.rfsh_l - 1
      /\ busy'.idle = IF burst.st # "IDLE" THEN 0 ELSE IF busy.idle = 4 THEN 4 ELSE busy.idle + 1
  BY <1>1, <1>2 DEF Fades, BurstIdle
<1>6. {busy'.init, busy'.mode_l, busy'.rfsh_l, busy'.idle} \subseteq 0 .. Delay
  <2>1. busy.init \in 0 .. 4 /\ busy.mode_l \in 0 .. 4 /\ busy.rfsh_l \in 0 .. 4 /\ busy.idle \in 0 .. 4
    BY <1>2
  <2>2. busy'.init \in 0 .. 4 /\ busy'.mode_l \in 0 .. 4 /\ busy'.rfsh_l \in 0 .. 4 /\ busy'.idle \in 0 .. 4
    BY <1>5, <2>1
  <2> QED BY <2>2 DEF Delay
<1> QED BY <1>1, <1>4, <1>5, <1>6

(* They keep their invariant, and only an idle controller becomes busy.    *)
LEMMA BusyKept ==
  ASSUME PathInv, NEW p, Asks(p), NEW start, Moves(p, start)
  PROVE  BusyInv' /\ (CtrlBusy' => CtrlBusy \/ IdleOk)
<1> USE DEF Delay
<1>1. RefreshInv /\ BusyInv /\ burst \in SeqRegs /\ SdramStep(p, start, chip.out)
  BY DEF PathInv, SeqInv, Moves
<1>2. BurstStep(p, go)
  BY <1>1 DEF SdramStep, go
<1>3. busy.init \in 0 .. 4 /\ busy.mode_l \in 0 .. 4 /\ busy.rfsh_l \in 0 .. 4 /\ busy.idle \in 0 .. 4
  BY <1>1 DEF BusyInv
<1>4. /\ CtrlBusy <=> (busy.init > 0 \/ busy.mode # "IDLE" \/ busy.mode_l > 0
                         \/ rfsh.st # 0 \/ busy.rfsh_l > 0)
      /\ CtrlBusy' <=> (busy'.init > 0 \/ busy'.mode # "IDLE" \/ busy'.mode_l > 0
                         \/ rfsh'.st # 0 \/ busy'.rfsh_l > 0)
  BY <1>1, RefreshKept DEF CtrlBusy, InitSel, ModeSel, RfshSel, ModeBusy, RefreshInv
<1>5. /\ CtrlBusy => burst' = burst
      /\ burst.st = "IDLE" => burst'.st \in {"IDLE", "ACT"}
  BY <1>1, <1>2, SeqNext, AfterDomain DEF go, SeqTo
<1>6. /\ busy.init > 0 => busy.mode = "IDLE" /\ ~ busy.fullpage
      /\ busy.mode = "IDLE" /\ ~ busy.fullpage => Untouched
      /\ busy.mode # "IDLE" => ~ busy.fullpage
      /\ CtrlBusy => burst.st = "ACT" \/ (burst.st = "IDLE" /\ busy.idle = 4)
      /\ busy.mode \in Modes /\ busy.fullpage \in BOOLEAN
  BY <1>1 DEF BusyInv, ModeBusy
<1>7. ModeStarts <=> ~ busy.init > 0 /\ ~ busy.fullpage /\ busy.rfsh_l = 0 /\ IdleOk
  BY DEF ModeStarts, InitSel
<1>8. IdleOk <=> burst.st = "IDLE" /\ busy.idle = 4
  BY DEF IdleOk, BurstIdle
<1>9. rfsh'.st >= 2 => busy'.rfsh_l = 4
  BY <1>1, RefreshKept, BusyNext DEF RefreshInv
<1>10. busy'.init > 0 => busy'.mode = "IDLE" /\ ~ busy'.fullpage
  BY <1>1, <1>3, <1>6, <1>7, BusyNext DEF ModeBusy
<1>11. ASSUME busy'.mode = "IDLE", ~ busy'.fullpage
       PROVE  Untouched'
  <2>1. busy.mode = "IDLE" /\ ~ busy.fullpage /\ ~ ModeStarts
    BY <1>1, <1>6, <1>11, BusyNext DEF ModeBusy, ModeAfter, Modes
  <2>2. rfsh.st = 0 /\ busy.mode_l = 0 /\ busy.rfsh_l = 0 /\ burst.st = "IDLE" /\ busy.idle = 4
    BY <2>1, <1>6 DEF Untouched
  <2>3. CtrlBusy
    BY <2>1, <2>2, <1>7, <1>8, <1>4
  <2>4. rfsh'.st = 0 /\ burst' = burst
    BY <1>1, <1>5, <2>2, <2>3, RefreshKept
  <2>5. busy'.mode_l = 0 /\ busy'.rfsh_l = 0 /\ busy'.idle = 4
    BY <1>1, <2>1, <2>2, BusyNext DEF ModeBusy
  <2> QED BY <2>2, <2>4, <2>5 DEF Untouched
<1>12. ModeBusy' => ~ busy'.fullpage
  BY <1>1, <1>6, BusyNext, <1>7 DEF ModeBusy, ModeAfter, Modes
<1>13. ASSUME CtrlBusy'
       PROVE  /\ burst'.st = "ACT" \/ (burst'.st = "IDLE" /\ busy'.idle = Delay)
              /\ CtrlBusy \/ IdleOk
  <2>1. CASE CtrlBusy
    BY <1>1, <1>5, <1>6, <2>1, BusyNext
  <2>2. CASE ~ CtrlBusy
    <3>1. busy.init = 0 /\ busy.mode = "IDLE" /\ busy.mode_l = 0 /\ rfsh.st = 0 /\ busy.rfsh_l = 0
      BY <1>3, <1>4, <2>2, <1>6, <1>1 DEF RefreshInv
    <3>2. busy'.init = 0 /\ busy'.mode_l = 0 /\ busy'.rfsh_l = 0
      BY <1>1, <3>1, BusyNext DEF ModeBusy
    <3>3. busy'.mode # "IDLE" \/ rfsh'.st # 0
      BY <1>4, <1>13, <3>2
    <3>4. busy'.mode # "IDLE" => ModeStarts
      BY <1>1, <3>1, BusyNext DEF ModeBusy
    <3>5. IdleOk
      BY <1>1, <1>7, <3>1, <3>3, <3>4, RefreshKept
    <3> QED BY <1>1, <1>5, <1>8, <3>5, BusyNext
  <2> QED BY <2>1, <2>2
<1> QED BY <1>1, <1>9, <1>10, <1>11, <1>12, <1>13, BusyNext DEF BusyInv

-----------------------------------------------------------------------------
(* What goes into the pipeline.                                            *)
LEMMA SentIdle ==
  ASSUME RefreshInv, BusyInv, CtrlBusy, NEW p
  PROVE  /\ Calm(Selected(p))
         /\ InitSel => Empty(Selected(p))
         /\ Selected(p).cmd.op = "REFRESH" => rfsh.st = 3 /\ ~ InitSel /\ ~ ModeSel
         /\ Selected(p).cmd.op = "LOAD_MODE" => busy.mode = "CMD"
         /\ busy.mode = "CMD" /\ ~ InitSel => Selected(p).cmd.op = "LOAD_MODE"
         /\ Selected(p).cmd.op = "PRECHARGE_ALL" =>
              busy.mode = "PRE" \/ (rfsh.st = 1 /\ ~ InitSel /\ ~ ModeSel)
                                \/ (rfsh.st = 0 /\ ~ InitSel /\ ~ ModeSel)
         /\ ~ InitSel /\ ModeSel /\ busy.mode \notin {"PRE", "CMD"} => Empty(Selected(p))
         /\ Selected(p).cmd.ba = 0 /\ Selected(p).cmd.a = 0
<1> USE DEF Calm, Silent, Empty, Quiescent, Nop, Tells
<1>1. CASE InitSel
  <2>1. Selected(p) = Quiescent
    BY <1>1 DEF Selected, CtrlBusy
  <2> QED BY <1>1, <2>1
<1>2. CASE ~ InitSel /\ ModeSel
  <2>1. Selected(p) = [Quiescent EXCEPT !.cmd = ModeCmd]
    BY <1>2 DEF Selected, CtrlBusy
  <2>2. CASE busy.mode = "PRE"
    <3>1. ModeCmd = [Nop EXCEPT !.op = "PRECHARGE_ALL"]
      BY <2>2 DEF ModeCmd
    <3> QED BY <1>2, <2>1, <2>2, <3>1
  <2>3. CASE busy.mode = "CMD"
    <3>1. ModeCmd = [Nop EXCEPT !.op = "LOAD_MODE"]
      BY <2>3 DEF ModeCmd
    <3> QED BY <1>2, <2>1, <2>3, <3>1
  <2>4. CASE busy.mode \notin {"PRE", "CMD"}
    <3>1. ModeCmd = Nop
      BY <2>4 DEF ModeCmd
    <3> QED BY <1>2, <2>1, <2>4, <3>1
  <2> QED BY <2>2, <2>3, <2>4
<1>3. CASE ~ InitSel /\ ~ ModeSel
  <2>1. Selected(p) = [Quiescent EXCEPT !.cmd = RfshCmd] /\ RfshSel /\ busy.mode = "IDLE"
    BY <1>3 DEF Selected, CtrlBusy, ModeSel, ModeBusy
  <2>2. RfshCmd = [op |-> rfsh.cmd, ba |-> 0, a |-> 0]
    BY DEF RfshCmd
  <2>3. /\ rfsh.cmd \in {"NOP", "PRECHARGE_ALL", "REFRESH"}
        /\ rfsh.cmd = "REFRESH" <=> rfsh.st = 3
        /\ rfsh.cmd = "PRECHARGE_ALL" => rfsh.st \in {0, 1}
    BY DEF RefreshInv
  <2> QED BY <1>3, <2>1, <2>2, <2>3
<1> QED BY <1>1, <1>2, <1>3

(* What the free sequencer sends, by its state.                            *)
LEMMA SentBusy ==
  ASSUME burst \in SeqRegs, ~ CtrlBusy, NEW p, Asks(p)
  PROVE  LET s == Selected(p) IN
         /\ burst.st \in {"IDLE", "TRCD1", "TRCD2", "WDATA", "CL1", "CL2", "TWR1", "TWR2", "TRP1"} =>
              Empty(s)
         /\ burst.st = "ACT" => Silent(s) /\ Shows(s, "ACTIVE") /\ s.cmd.a = Row(burst.addr)
         /\ burst.st = "WACK" => Acks(s)
         /\ burst.st = "READ_CMD" => Reads(s)
         /\ burst.st = "PRE" => Silent(s) /\ Shows(s, "PRECHARGE")
         /\ burst.st = "STOP" => Silent(s) /\ s.cmd.op = "STOP"
         /\ burst.st = "RDATA" => /\ s.cmd.op = "NOP" /\ s.dq = Nothing
                                  /\ Tells(s, FALSE, TRUE, Last \/ ~ p.rd)
         /\ burst.st = "WRITE_CMD" => /\ Shows(s, "WRITE") /\ s.cmd.a = burst.addr
                                      /\ s.dq = (IF p.wr THEN p.din ELSE Nothing)
         /\ burst.st = "WRITE" => /\ s.cmd.op = IF p.wr THEN "NOP" ELSE "STOP"
                                  /\ s.dq = (IF p.wr THEN p.din ELSE Nothing)
         /\ burst.st \in {"WRITE_CMD", "WRITE"} => Tells(s, FALSE, FALSE, Last \/ ~ p.wr)
<1> DEFINE s == Selected(p)
<1>1. s = [cmd |-> BurstCmd(p), dq |-> IF Drives(p) THEN p.din ELSE Nothing,
           ack |-> BurstAck, dok |-> BurstDok, rdy |-> BurstRdy(p)]
  BY DEF Selected, CtrlBusy
<1>2. /\ s.cmd = BurstCmd(p)
      /\ s.dq = IF Drives(p) THEN p.din ELSE Nothing
      /\ s.ack <=> burst.st \in {"WACK", "READ_CMD"}
      /\ s.dok <=> burst.st = "RDATA"
      /\ s.rdy <=> \/ burst.st \in {"WRITE_CMD", "WRITE"} /\ (Last \/ ~p.wr)
                   \/ burst.st = "RDATA" /\ (Last \/ ~p.rd)
  <2>1. s.cmd = BurstCmd(p) /\ s.dq = IF Drives(p) THEN p.din ELSE Nothing
    BY <1>1
  <2>2. (s.ack <=> BurstAck) /\ (s.dok <=> BurstDok) /\ (s.rdy <=> BurstRdy(p))
    BY <1>1
  <2> HIDE DEF s
  <2> QED BY <2>1, <2>2 DEF BurstAck, BurstDok, BurstRdy
<1> HIDE DEF s
<1>3. /\ burst.st = "ACT" => BurstCmd(p) = [op |-> "ACTIVE", ba |-> burst.ba, a |-> Row(burst.addr)]
      /\ burst.st = "WRITE_CMD" => BurstCmd(p) = [op |-> "WRITE", ba |-> burst.ba, a |-> burst.addr]
      /\ burst.st = "READ_CMD" => BurstCmd(p) = [op |-> "READ", ba |-> burst.ba, a |-> burst.addr]
      /\ burst.st = "WRITE" /\ ~ p.wr => BurstCmd(p) = [op |-> "STOP", ba |-> burst.ba, a |-> 0]
      /\ burst.st = "STOP" => BurstCmd(p) = [op |-> "STOP", ba |-> burst.ba, a |-> 0]
      /\ burst.st = "PRE" => BurstCmd(p) = [op |-> "PRECHARGE", ba |-> burst.ba, a |-> 0]
      /\ burst.st = "WRITE" /\ p.wr => BurstCmd(p) = Nop
      /\ burst.st \in {"IDLE", "TRCD1", "TRCD2", "WDATA", "CL1", "CL2", "TWR1", "TWR2", "TRP1",
                       "WACK", "RDATA"} => BurstCmd(p) = Nop
  BY DEF BurstCmd
<1>4. Nop.op = "NOP"
  BY DEF Nop
<1>5. burst.st \notin {"WRITE_CMD", "WRITE"} => s.dq = Nothing
  BY <1>2 DEF Drives
<1>6. burst.st \in {"WRITE_CMD", "WRITE"} => s.dq = IF p.wr THEN p.din ELSE Nothing
  BY <1>2 DEF Drives
<1> USE DEF Empty, Silent, Shows, Acks, Reads, Tells
<1>7. CASE burst.st \in {"IDLE", "TRCD1", "TRCD2", "WDATA", "CL1", "CL2", "TWR1", "TWR2", "TRP1",
                         "WACK", "RDATA"}
  <2>1. s.cmd.op = "NOP" /\ s.dq = Nothing
    BY <1>2, <1>3, <1>4, <1>5, <1>7
  <2> QED BY <1>2, <1>7, <2>1 DEF s
<1>8. CASE burst.st \in {"ACT", "READ_CMD", "PRE", "STOP"}
  BY <1>2, <1>3, <1>5, <1>8 DEF s
<1>9. CASE burst.st \in {"WRITE_CMD", "WRITE"}
  <2>1. s.cmd.op = IF burst.st = "WRITE_CMD" THEN "WRITE" ELSE IF p.wr THEN "NOP" ELSE "STOP"
    BY <1>2, <1>3, <1>4, <1>9
  <2> QED BY <1>2, <1>3, <1>6, <1>9, <2>1 DEF s
<1> QED BY <1>7, <1>8, <1>9 DEF SeqRegs, BurstStates, After

-----------------------------------------------------------------------------
(* The pipeline after a clock.                                             *)
LEMMA PipeNext ==
  ASSUME NEW p, NEW start, Moves(p, start)
  PROVE  io'.r = Selected(p) /\ io'.o = io.r /\ io'.dout = chip.out
BY DEF Moves, SdramStep, IoStep

(* The parts of the invariant and of the step the lemmas below need.       *)
LEMMA SeqFacts ==
  ASSUME PathInv, NEW p, NEW start, Moves(p, start)
  PROVE  /\ RefreshInv /\ BusyInv /\ burst \in SeqRegs
         /\ CmdPipe /\ ReadPipe /\ WritePipe
         /\ SdramStep(p, start, chip.out) /\ BurstStep(p, go)
BY DEF PathInv, SeqInv, Moves, SdramStep, go

(* A sequencer that is kept from the pins keeps its pipeline.              *)
LEMMA HeldKept ==
  ASSUME PathInv, NEW p, Asks(p), NEW start, Moves(p, start), CtrlBusy
  PROVE  SeqInv'
<1>1. burst' = burst
  BY SeqFacts, SeqNext DEF go
<1>2. burst.st = "ACT" \/ (burst.st = "IDLE" /\ busy.idle = 4 /\ busy'.idle = 4)
  BY SeqFacts, BusyNext DEF BusyInv, Delay
<1>3. Calm(io.r)
  BY <1>2, SeqFacts DEF CmdPipe
<1>4. Calm(io'.r) /\ Calm(io'.o)
  BY <1>3, SeqFacts, PipeNext, SentIdle
<1>5. CmdPipe'
  BY <1>1, <1>2, <1>4 DEF CmdPipe, JustIdle, Calm
<1>6. ReadPipe'
  BY <1>1, <1>2, <1>4 DEF ReadPipe
<1>7. WritePipe'
  BY <1>1, <1>2, <1>4 DEF WritePipe, Calm
<1>8. (burst \in SeqRegs)'
  BY <1>1, SeqFacts
<1> QED BY <1>1, <1>2, <1>5, <1>6, <1>7, <1>8 DEF SeqInv, WriteStates, ReadStates

(* The states a clock of the free sequencer leads to.                      *)
LEMMA SeqMoves ==
  ASSUME PathInv, NEW p, Asks(p), NEW start, Moves(p, start), ~ CtrlBusy
  PROVE  /\ burst' \in SeqRegs
         /\ burst.st = "IDLE" => burst'.st = IF p.rd \/ p.wr THEN "ACT" ELSE "IDLE"
         /\ burst.st = "ACT" => burst'.st = "TRCD1"
         /\ burst.st = "TRCD1" => burst'.st = "TRCD2"
         /\ burst.st = "TRCD2" => burst'.st = IF burst.write THEN "WACK" ELSE "READ_CMD"
         /\ burst.st = "WACK" => burst'.st = "WDATA"
         /\ burst.st = "WDATA" => burst'.st = "WRITE_CMD"
         /\ burst.st \in {"WRITE_CMD", "WRITE"} => burst'.st = IF Last \/ ~ p.wr THEN "STOP" ELSE "WRITE"
         /\ burst.st = "READ_CMD" => burst'.st = "CL1"
         /\ burst.st = "CL1" => burst'.st = "CL2"
         /\ burst.st = "CL2" => burst'.st = IF burst.wait THEN "CL2" ELSE "RDATA"
         /\ burst.st = "RDATA" => burst'.st = IF Last \/ ~ p.rd THEN "STOP" ELSE "RDATA"
         /\ burst.st = "STOP" => burst'.st = IF burst.write THEN "TWR1" ELSE "PRE"
         /\ burst.st = "TWR1" => burst'.st = "TWR2"
         /\ burst.st = "TWR2" => burst'.st = "PRE"
         /\ burst.st = "PRE" => burst'.st = "TRP1"
         /\ burst.st = "TRP1" => burst'.st = "IDLE"
         /\ burst.st = "IDLE" /\ (p.rd \/ p.wr) =>
              burst'.addr = p.addr /\ burst'.ba = p.ba /\ (burst'.write <=> p.wr)
         /\ burst.st # "IDLE" =>
              /\ burst'.ba = burst.ba /\ burst'.write = burst.write
              /\ Row(burst'.addr) = Row(burst.addr)
              /\ burst.st \notin {"WRITE_CMD", "WRITE", "RDATA"} => burst'.addr = burst.addr
              /\ burst.st # "TRP1" => burst'.wait = (burst.wait /\ burst.st # "CL2")
         /\ burst.st \in {"WRITE_CMD", "WRITE", "RDATA"} => burst'.addr = NextCell
<1>1. burst \in SeqRegs /\ BurstStep(p, go) /\ go
  BY SeqFacts DEF go
<1>2. burst'.st = SeqTo(p)
  BY <1>1, SeqNext
<1>3. burst \in SeqRegs /\ burst' \in SeqRegs
  BY <1>1, SeqNext
<1>4. burst.st \in {"WRITE_CMD", "WRITE", "RDATA"} => burst'.addr = NextCell
  <2>1. burst.st \in {"WRITE_CMD", "WRITE", "RDATA"} => WriteBeat(p, go) \/ ReadBeat(p, go)
    BY <1>1, AfterDomain DEF BurstStep, Frozen, IdleStay, Accept, Pass, Command, CasLatency, Stop, Finish
  <2> QED BY <1>3, <2>1 DEF WriteBeat, ReadBeat, SeqRegs
<1>5. burst.st = "IDLE" /\ (p.rd \/ p.wr) => (burst'.write <=> p.wr)
  <2>1. burst.st = "IDLE" /\ (p.rd \/ p.wr) => Accept(p, go)
    BY <1>1, AfterDomain DEF BurstStep, Frozen, IdleStay, WriteBeat, ReadBeat, Pass, Command, CasLatency, Stop, Finish
  <2> QED BY <1>3, <2>1 DEF Accept, SeqRegs
<1>6. /\ burst.st = "IDLE" /\ (p.rd \/ p.wr) => burst'.addr = p.addr /\ burst'.ba = p.ba
      /\ burst.st # "IDLE" =>
           /\ burst'.ba = burst.ba /\ burst'.write = burst.write
           /\ Row(burst'.addr) = Row(burst.addr)
           /\ burst.st \notin {"WRITE_CMD", "WRITE", "RDATA"} => burst'.addr = burst.addr
           /\ burst.st # "TRP1" => burst'.wait = (burst.wait /\ burst.st # "CL2")
  BY <1>1, SeqNext
<1>7. /\ burst.st = "ACT" => burst'.st = "TRCD1"
      /\ burst.st = "TRCD1" => burst'.st = "TRCD2"
      /\ burst.st = "WACK" => burst'.st = "WDATA"
      /\ burst.st = "WDATA" => burst'.st = "WRITE_CMD"
      /\ burst.st = "READ_CMD" => burst'.st = "CL1"
      /\ burst.st = "CL1" => burst'.st = "CL2"
      /\ burst.st = "TWR1" => burst'.st = "TWR2"
      /\ burst.st = "TWR2" => burst'.st = "PRE"
      /\ burst.st = "PRE" => burst'.st = "TRP1"
  BY <1>2 DEF SeqTo, After
<1>8. /\ burst.st = "IDLE" => burst'.st = IF p.rd \/ p.wr THEN "ACT" ELSE "IDLE"
      /\ burst.st = "TRCD2" => burst'.st = IF burst.write THEN "WACK" ELSE "READ_CMD"
      /\ burst.st \in {"WRITE_CMD", "WRITE"} => burst'.st = IF Last \/ ~ p.wr THEN "STOP" ELSE "WRITE"
      /\ burst.st = "CL2" => burst'.st = IF burst.wait THEN "CL2" ELSE "RDATA"
      /\ burst.st = "RDATA" => burst'.st = IF Last \/ ~ p.rd THEN "STOP" ELSE "RDATA"
      /\ burst.st = "STOP" => burst'.st = IF burst.write THEN "TWR1" ELSE "PRE"
      /\ burst.st = "TRP1" => burst'.st = "IDLE"
  BY <1>2, AfterDomain DEF SeqTo
<1> QED BY <1>3, <1>4, <1>5, <1>6, <1>7, <1>8

(* A sequencer that moves takes its pipeline along.                        *)
LEMMA MovedKept ==
  ASSUME PathInv, NEW p, Asks(p), NEW start, Moves(p, start), ~ CtrlBusy
  PROVE  SeqInv'
<1>1. /\ burst \in SeqRegs /\ CmdPipe /\ ReadPipe /\ WritePipe
      /\ burst.st \in WriteStates => burst.write
      /\ burst.st \in ReadStates => ~ burst.write
  BY DEF PathInv, SeqInv
<1>2. io'.r = Selected(p) /\ io'.o = io.r
  BY PipeNext
<1>3. /\ burst.st # "IDLE" => busy'.idle = 0
      /\ burst.st = "IDLE" => busy'.idle # 0
  BY SeqFacts, BusyNext DEF BusyInv, Delay
<1>4. Asks(p) /\ burst.write \in BOOLEAN /\ Last \in BOOLEAN /\ burst.addr \in Nat
  BY <1>1 DEF SeqRegs, Last, PageLast
<1> USE DEF Asks
<1>5. CASE burst.st = "IDLE"
  <2>1. CmdPipe'
    BY <1>1, <1>2, <1>3, <1>4, <1>5, SeqMoves, SentBusy
       DEF CmdPipe, ReadPipe, WritePipe, Calm, Empty, Silent, Tells, Shows, JustIdle, Reads, Acks, Closes
  <2>2. ReadPipe'
    BY <1>1, <1>2, <1>3, <1>4, <1>5, SeqMoves, SentBusy
       DEF CmdPipe, ReadPipe, WritePipe, Calm, Empty, Silent, Tells, Shows, JustIdle, Reads, Acks, Closes, Beats, InRow, Acking
  <2>3. WritePipe'
    BY <1>1, <1>2, <1>3, <1>4, <1>5, SeqMoves, SentBusy
       DEF CmdPipe, ReadPipe, WritePipe, Calm, Empty, Silent, Tells, Shows, JustIdle, Reads, Acks, Closes, Beats, InRow, Drive
  <2>4. (burst'.st \in WriteStates => burst'.write) /\ (burst'.st \in ReadStates => ~ burst'.write)
    BY <1>1, <1>5, SeqMoves DEF WriteStates, ReadStates, CmdPipe
  <2> QED BY <2>1, <2>2, <2>3, <2>4, SeqMoves DEF SeqInv
<1>6. CASE burst.st = "ACT"
  <2>1. CmdPipe'
    BY <1>1, <1>2, <1>3, <1>4, <1>6, SeqMoves, SentBusy
       DEF CmdPipe, ReadPipe, WritePipe, Calm, Empty, Silent, Tells, Shows, JustIdle, Reads, Acks, Closes
  <2>2. ReadPipe'
    BY <1>1, <1>2, <1>3, <1>4, <1>6, SeqMoves, SentBusy
       DEF CmdPipe, ReadPipe, WritePipe, Calm, Empty, Silent, Tells, Shows, JustIdle, Reads, Acks, Closes, Beats, InRow, Acking
  <2>3. WritePipe'
    BY <1>1, <1>2, <1>3, <1>4, <1>6, SeqMoves, SentBusy
       DEF CmdPipe, ReadPipe, WritePipe, Calm, Empty, Silent, Tells, Shows, JustIdle, Reads, Acks, Closes, Beats, InRow, Drive
  <2>4. (burst'.st \in WriteStates => burst'.write) /\ (burst'.st \in ReadStates => ~ burst'.write)
    BY <1>1, <1>6, SeqMoves DEF WriteStates, ReadStates, CmdPipe
  <2> QED BY <2>1, <2>2, <2>3, <2>4, SeqMoves DEF SeqInv
<1>7. CASE burst.st = "TRCD1"
  <2>1. CmdPipe'
    BY <1>1, <1>2, <1>3, <1>4, <1>7, SeqMoves, SentBusy
       DEF CmdPipe, ReadPipe, WritePipe, Calm, Empty, Silent, Tells, Shows, JustIdle, Reads, Acks, Closes
  <2>2. ReadPipe'
    BY <1>1, <1>2, <1>3, <1>4, <1>7, SeqMoves, SentBusy
       DEF CmdPipe, ReadPipe, WritePipe, Calm, Empty, Silent, Tells, Shows, JustIdle, Reads, Acks, Closes, Beats, InRow, Acking
  <2>3. WritePipe'
    BY <1>1, <1>2, <1>3, <1>4, <1>7, SeqMoves, SentBusy
       DEF CmdPipe, ReadPipe, WritePipe, Calm, Empty, Silent, Tells, Shows, JustIdle, Reads, Acks, Closes, Beats, InRow, Drive
  <2>4. (burst'.st \in WriteStates => burst'.write) /\ (burst'.st \in ReadStates => ~ burst'.write)
    BY <1>1, <1>7, SeqMoves DEF WriteStates, ReadStates, CmdPipe
  <2> QED BY <2>1, <2>2, <2>3, <2>4, SeqMoves DEF SeqInv
<1>8. CASE burst.st = "TRCD2"
  <2>1. CmdPipe'
    BY <1>1, <1>2, <1>3, <1>4, <1>8, SeqMoves, SentBusy
       DEF CmdPipe, ReadPipe, WritePipe, Calm, Empty, Silent, Tells, Shows, JustIdle, Reads, Acks, Closes
  <2>2. ReadPipe'
    BY <1>1, <1>2, <1>3, <1>4, <1>8, SeqMoves, SentBusy
       DEF CmdPipe, ReadPipe, WritePipe, Calm, Empty, Silent, Tells, Shows, JustIdle, Reads, Acks, Closes, Beats, InRow, Acking
  <2>3. WritePipe'
    BY <1>1, <1>2, <1>3, <1>4, <1>8, SeqMoves, SentBusy
       DEF CmdPipe, ReadPipe, WritePipe, Calm, Empty, Silent, Tells, Shows, JustIdle, Reads, Acks, Closes, Beats, InRow, Drive
  <2>4. (burst'.st \in WriteStates => burst'.write) /\ (burst'.st \in ReadStates => ~ burst'.write)
    BY <1>1, <1>8, SeqMoves DEF WriteStates, ReadStates, CmdPipe
  <2> QED BY <2>1, <2>2, <2>3, <2>4, SeqMoves DEF SeqInv
<1>9. CASE burst.st = "WACK"
  <2>1. CmdPipe'
    BY <1>1, <1>2, <1>3, <1>4, <1>9, SeqMoves, SentBusy
       DEF CmdPipe, ReadPipe, WritePipe, Calm, Empty, Silent, Tells, Shows, JustIdle, Reads, Acks, Closes
  <2>2. ReadPipe'
    BY <1>1, <1>2, <1>3, <1>4, <1>9, SeqMoves, SentBusy
       DEF CmdPipe, ReadPipe, WritePipe, Calm, Empty, Silent, Tells, Shows, JustIdle, Reads, Acks, Closes, Beats, InRow, Acking
  <2>3. WritePipe'
    BY <1>1, <1>2, <1>3, <1>4, <1>9, SeqMoves, SentBusy
       DEF CmdPipe, ReadPipe, WritePipe, Calm, Empty, Silent, Tells, Shows, JustIdle, Reads, Acks, Closes, Beats, InRow, Drive
  <2>4. (burst'.st \in WriteStates => burst'.write) /\ (burst'.st \in ReadStates => ~ burst'.write)
    BY <1>1, <1>9, SeqMoves DEF WriteStates, ReadStates, CmdPipe
  <2> QED BY <2>1, <2>2, <2>3, <2>4, SeqMoves DEF SeqInv
<1>10. CASE burst.st = "WDATA"
  <2>1. CmdPipe'
    BY <1>1, <1>2, <1>3, <1>4, <1>10, SeqMoves, SentBusy
       DEF CmdPipe, ReadPipe, WritePipe, Calm, Empty, Silent, Tells, Shows, JustIdle, Reads, Acks, Closes
  <2>2. ReadPipe'
    BY <1>1, <1>2, <1>3, <1>4, <1>10, SeqMoves, SentBusy
       DEF CmdPipe, ReadPipe, WritePipe, Calm, Empty, Silent, Tells, Shows, JustIdle, Reads, Acks, Closes, Beats, InRow, Acking
  <2>3. WritePipe'
    BY <1>1, <1>2, <1>3, <1>4, <1>10, SeqMoves, SentBusy
       DEF CmdPipe, ReadPipe, WritePipe, Calm, Empty, Silent, Tells, Shows, JustIdle, Reads, Acks, Closes, Beats, InRow, Drive
  <2>4. (burst'.st \in WriteStates => burst'.write) /\ (burst'.st \in ReadStates => ~ burst'.write)
    BY <1>1, <1>10, SeqMoves DEF WriteStates, ReadStates, CmdPipe
  <2> QED BY <2>1, <2>2, <2>3, <2>4, SeqMoves DEF SeqInv
<1>11. CASE burst.st = "WRITE_CMD"
  <2>1. CmdPipe'
    BY <1>1, <1>2, <1>3, <1>4, <1>11, SeqMoves, SentBusy
       DEF CmdPipe, ReadPipe, WritePipe, Calm, Empty, Silent, Tells, Shows, JustIdle, Reads, Acks, Closes
  <2>2. ReadPipe'
    BY <1>1, <1>2, <1>3, <1>4, <1>11, SeqMoves, SentBusy
       DEF CmdPipe, ReadPipe, WritePipe, Calm, Empty, Silent, Tells, Shows, JustIdle, Reads, Acks, Closes, Beats, InRow, Acking, WriteStates, ReadStates
  <2>3. WritePipe'
    BY <1>1, <1>2, <1>3, <1>4, <1>11, SeqMoves, SentBusy
       DEF CmdPipe, ReadPipe, WritePipe, Calm, Empty, Silent, Tells, Shows, JustIdle, Reads, Acks, Closes, Beats, InRow, Drive
  <2>4. (burst'.st \in WriteStates => burst'.write) /\ (burst'.st \in ReadStates => ~ burst'.write)
    BY <1>1, <1>11, SeqMoves DEF WriteStates, ReadStates, CmdPipe
  <2> QED BY <2>1, <2>2, <2>3, <2>4, SeqMoves DEF SeqInv
<1>12. CASE burst.st = "WRITE"
  <2>1. CmdPipe'
    BY <1>1, <1>2, <1>3, <1>4, <1>12, SeqMoves, SentBusy
       DEF CmdPipe, ReadPipe, WritePipe, Calm, Empty, Silent, Tells, Shows, JustIdle, Reads, Acks, Closes
  <2>2. ReadPipe'
    BY <1>1, <1>2, <1>3, <1>4, <1>12, SeqMoves, SentBusy
       DEF CmdPipe, ReadPipe, WritePipe, Calm, Empty, Silent, Tells, Shows, JustIdle, Reads, Acks, Closes, Beats, InRow, Acking, WriteStates, ReadStates
  <2>3. WritePipe'
    BY <1>1, <1>2, <1>3, <1>4, <1>12, SeqMoves, SentBusy
       DEF CmdPipe, ReadPipe, WritePipe, Calm, Empty, Silent, Tells, Shows, JustIdle, Reads, Acks, Closes, Beats, InRow, Drive
  <2>4. (burst'.st \in WriteStates => burst'.write) /\ (burst'.st \in ReadStates => ~ burst'.write)
    BY <1>1, <1>12, SeqMoves DEF WriteStates, ReadStates, CmdPipe
  <2> QED BY <2>1, <2>2, <2>3, <2>4, SeqMoves DEF SeqInv
<1>13. CASE burst.st = "READ_CMD"
  <2>1. CmdPipe'
    BY <1>1, <1>2, <1>3, <1>4, <1>13, SeqMoves, SentBusy
       DEF CmdPipe, ReadPipe, WritePipe, Calm, Empty, Silent, Tells, Shows, JustIdle, Reads, Acks, Closes
  <2>2. ReadPipe'
    BY <1>1, <1>2, <1>3, <1>4, <1>13, SeqMoves, SentBusy
       DEF CmdPipe, ReadPipe, WritePipe, Calm, Empty, Silent, Tells, Shows, JustIdle, Reads, Acks, Closes, Beats, InRow, Acking
  <2>3. WritePipe'
    BY <1>1, <1>2, <1>3, <1>4, <1>13, SeqMoves, SentBusy
       DEF CmdPipe, ReadPipe, WritePipe, Calm, Empty, Silent, Tells, Shows, JustIdle, Reads, Acks, Closes, Beats, InRow, Drive
  <2>4. (burst'.st \in WriteStates => burst'.write) /\ (burst'.st \in ReadStates => ~ burst'.write)
    BY <1>1, <1>13, SeqMoves DEF WriteStates, ReadStates, CmdPipe
  <2> QED BY <2>1, <2>2, <2>3, <2>4, SeqMoves DEF SeqInv
<1>14. CASE burst.st = "CL1"
  <2>1. CmdPipe'
    BY <1>1, <1>2, <1>3, <1>4, <1>14, SeqMoves, SentBusy
       DEF CmdPipe, ReadPipe, WritePipe, Calm, Empty, Silent, Tells, Shows, JustIdle, Reads, Acks, Closes
  <2>2. ReadPipe'
    BY <1>1, <1>2, <1>3, <1>4, <1>14, SeqMoves, SentBusy
       DEF CmdPipe, ReadPipe, WritePipe, Calm, Empty, Silent, Tells, Shows, JustIdle, Reads, Acks, Closes, Beats, InRow, Acking
  <2>3. WritePipe'
    BY <1>1, <1>2, <1>3, <1>4, <1>14, SeqMoves, SentBusy
       DEF CmdPipe, ReadPipe, WritePipe, Calm, Empty, Silent, Tells, Shows, JustIdle, Reads, Acks, Closes, Beats, InRow, Drive
  <2>4. (burst'.st \in WriteStates => burst'.write) /\ (burst'.st \in ReadStates => ~ burst'.write)
    BY <1>1, <1>14, SeqMoves DEF WriteStates, ReadStates, CmdPipe
  <2> QED BY <2>1, <2>2, <2>3, <2>4, SeqMoves DEF SeqInv
<1>15. CASE burst.st = "CL2"
  <2>1. CmdPipe'
    BY <1>1, <1>2, <1>3, <1>4, <1>15, SeqMoves, SentBusy
       DEF CmdPipe, ReadPipe, WritePipe, Calm, Empty, Silent, Tells, Shows, JustIdle, Reads, Acks, Closes
  <2>2. ReadPipe'
    BY <1>1, <1>2, <1>3, <1>4, <1>15, SeqMoves, SentBusy
       DEF CmdPipe, ReadPipe, WritePipe, Calm, Empty, Silent, Tells, Shows, JustIdle, Reads, Acks, Closes, Beats, InRow, Acking
  <2>3. WritePipe'
    BY <1>1, <1>2, <1>3, <1>4, <1>15, SeqMoves, SentBusy
       DEF CmdPipe, ReadPipe, WritePipe, Calm, Empty, Silent, Tells, Shows, JustIdle, Reads, Acks, Closes, Beats, InRow, Drive
  <2>4. (burst'.st \in WriteStates => burst'.write) /\ (burst'.st \in ReadStates => ~ burst'.write)
    BY <1>1, <1>15, SeqMoves DEF WriteStates, ReadStates, CmdPipe
  <2> QED BY <2>1, <2>2, <2>3, <2>4, SeqMoves DEF SeqInv
<1>16. CASE burst.st = "RDATA"
  <2>1. CmdPipe'
    BY <1>1, <1>2, <1>3, <1>4, <1>16, SeqMoves, SentBusy
       DEF CmdPipe, ReadPipe, WritePipe, Calm, Empty, Silent, Tells, Shows, JustIdle, Reads, Acks, Closes
  <2>2. ReadPipe'
    BY <1>1, <1>2, <1>3, <1>4, <1>16, SeqMoves, SentBusy
       DEF CmdPipe, ReadPipe, WritePipe, Calm, Empty, Silent, Tells, Shows, JustIdle, Reads, Acks, Closes, Beats, InRow, Acking
  <2>3. WritePipe'
    BY <1>1, <1>2, <1>3, <1>4, <1>16, SeqMoves, SentBusy
       DEF CmdPipe, ReadPipe, WritePipe, Calm, Empty, Silent, Tells, Shows, JustIdle, Reads, Acks, Closes, Beats, InRow, Drive, WriteStates, ReadStates
  <2>4. (burst'.st \in WriteStates => burst'.write) /\ (burst'.st \in ReadStates => ~ burst'.write)
    BY <1>1, <1>16, SeqMoves DEF WriteStates, ReadStates, CmdPipe
  <2> QED BY <2>1, <2>2, <2>3, <2>4, SeqMoves DEF SeqInv
<1>17. CASE burst.st = "STOP"
  <2>1. CmdPipe'
    BY <1>1, <1>2, <1>3, <1>4, <1>17, SeqMoves, SentBusy
       DEF CmdPipe, ReadPipe, WritePipe, Calm, Empty, Silent, Tells, Shows, JustIdle, Reads, Acks, Closes
  <2>2. ReadPipe'
    BY <1>1, <1>2, <1>3, <1>4, <1>17, SeqMoves, SentBusy
       DEF CmdPipe, ReadPipe, WritePipe, Calm, Empty, Silent, Tells, Shows, JustIdle, Reads, Acks, Closes, Beats, InRow, Acking
  <2>3. WritePipe'
    BY <1>1, <1>2, <1>3, <1>4, <1>17, SeqMoves, SentBusy
       DEF CmdPipe, ReadPipe, WritePipe, Calm, Empty, Silent, Tells, Shows, JustIdle, Reads, Acks, Closes, Beats, InRow, Drive
  <2>4. (burst'.st \in WriteStates => burst'.write) /\ (burst'.st \in ReadStates => ~ burst'.write)
    BY <1>1, <1>17, SeqMoves DEF WriteStates, ReadStates, CmdPipe
  <2> QED BY <2>1, <2>2, <2>3, <2>4, SeqMoves DEF SeqInv
<1>18. CASE burst.st = "TWR1"
  <2>1. CmdPipe'
    BY <1>1, <1>2, <1>3, <1>4, <1>18, SeqMoves, SentBusy
       DEF CmdPipe, ReadPipe, WritePipe, Calm, Empty, Silent, Tells, Shows, JustIdle, Reads, Acks, Closes
  <2>2. ReadPipe'
    BY <1>1, <1>2, <1>3, <1>4, <1>18, SeqMoves, SentBusy
       DEF CmdPipe, ReadPipe, WritePipe, Calm, Empty, Silent, Tells, Shows, JustIdle, Reads, Acks, Closes, Beats, InRow, Acking
  <2>3. WritePipe'
    BY <1>1, <1>2, <1>3, <1>4, <1>18, SeqMoves, SentBusy
       DEF CmdPipe, ReadPipe, WritePipe, Calm, Empty, Silent, Tells, Shows, JustIdle, Reads, Acks, Closes, Beats, InRow, Drive
  <2>4. (burst'.st \in WriteStates => burst'.write) /\ (burst'.st \in ReadStates => ~ burst'.write)
    BY <1>1, <1>18, SeqMoves DEF WriteStates, ReadStates, CmdPipe
  <2> QED BY <2>1, <2>2, <2>3, <2>4, SeqMoves DEF SeqInv
<1>19. CASE burst.st = "TWR2"
  <2>1. CmdPipe'
    BY <1>1, <1>2, <1>3, <1>4, <1>19, SeqMoves, SentBusy
       DEF CmdPipe, ReadPipe, WritePipe, Calm, Empty, Silent, Tells, Shows, JustIdle, Reads, Acks, Closes
  <2>2. ReadPipe'
    BY <1>1, <1>2, <1>3, <1>4, <1>19, SeqMoves, SentBusy
       DEF CmdPipe, ReadPipe, WritePipe, Calm, Empty, Silent, Tells, Shows, JustIdle, Reads, Acks, Closes, Beats, InRow, Acking, WriteStates, ReadStates
  <2>3. WritePipe'
    BY <1>1, <1>2, <1>3, <1>4, <1>19, SeqMoves, SentBusy
       DEF CmdPipe, ReadPipe, WritePipe, Calm, Empty, Silent, Tells, Shows, JustIdle, Reads, Acks, Closes, Beats, InRow, Drive
  <2>4. (burst'.st \in WriteStates => burst'.write) /\ (burst'.st \in ReadStates => ~ burst'.write)
    BY <1>1, <1>19, SeqMoves DEF WriteStates, ReadStates, CmdPipe
  <2> QED BY <2>1, <2>2, <2>3, <2>4, SeqMoves DEF SeqInv
<1>20. CASE burst.st = "PRE"
  <2>1. CmdPipe'
    BY <1>1, <1>2, <1>3, <1>4, <1>20, SeqMoves, SentBusy
       DEF CmdPipe, ReadPipe, WritePipe, Calm, Empty, Silent, Tells, Shows, JustIdle, Reads, Acks, Closes
  <2>2. ReadPipe'
    BY <1>1, <1>2, <1>3, <1>4, <1>20, SeqMoves, SentBusy
       DEF CmdPipe, ReadPipe, WritePipe, Calm, Empty, Silent, Tells, Shows, JustIdle, Reads, Acks, Closes, Beats, InRow, Acking
  <2>3. WritePipe'
    BY <1>1, <1>2, <1>3, <1>4, <1>20, SeqMoves, SentBusy
       DEF CmdPipe, ReadPipe, WritePipe, Calm, Empty, Silent, Tells, Shows, JustIdle, Reads, Acks, Closes, Beats, InRow, Drive
  <2>4. (burst'.st \in WriteStates => burst'.write) /\ (burst'.st \in ReadStates => ~ burst'.write)
    BY <1>1, <1>20, SeqMoves DEF WriteStates, ReadStates, CmdPipe
  <2> QED BY <2>1, <2>2, <2>3, <2>4, SeqMoves DEF SeqInv
<1>21. CASE burst.st = "TRP1"
  <2>1. CmdPipe'
    BY <1>1, <1>2, <1>3, <1>4, <1>21, SeqMoves, SentBusy
       DEF CmdPipe, ReadPipe, WritePipe, Calm, Empty, Silent, Tells, Shows, JustIdle, Reads, Acks, Closes
  <2>2. ReadPipe'
    BY <1>1, <1>2, <1>3, <1>4, <1>21, SeqMoves, SentBusy
       DEF CmdPipe, ReadPipe, WritePipe, Calm, Empty, Silent, Tells, Shows, JustIdle, Reads, Acks, Closes, Beats, InRow, Acking
  <2>3. WritePipe'
    BY <1>1, <1>2, <1>3, <1>4, <1>21, SeqMoves, SentBusy
       DEF CmdPipe, ReadPipe, WritePipe, Calm, Empty, Silent, Tells, Shows, JustIdle, Reads, Acks, Closes, Beats, InRow, Drive
  <2>4. (burst'.st \in WriteStates => burst'.write) /\ (burst'.st \in ReadStates => ~ burst'.write)
    BY <1>1, <1>21, SeqMoves DEF WriteStates, ReadStates, CmdPipe
  <2> QED BY <2>1, <2>2, <2>3, <2>4, SeqMoves DEF SeqInv
<1> QED BY <1>1, <1>5, <1>6, <1>7, <1>8, <1>9, <1>10, <1>11, <1>12, <1>13, <1>14, <1>15, <1>16, <1>17, <1>18, <1>19, <1>20, <1>21 DEF SeqRegs, BurstStates, After

(* The pipeline always fits the state of the sequencer.                    *)
LEMMA SeqKept ==
  ASSUME PathInv, NEW p, Asks(p), NEW start, Moves(p, start)
  PROVE  SeqInv'
BY HeldKept, MovedKept

(* The commands of refreshes and of the mode setting come from their FSMs. *)
LEMMA SentControl ==
  ASSUME PathInv, NEW p, Asks(p), NEW start, Moves(p, start)
  PROVE  /\ io'.r.cmd.op = "REFRESH" => rfsh.st = 3 /\ ~ InitSel /\ ~ ModeSel
         /\ io'.r.cmd.op = "LOAD_MODE" => busy.mode = "CMD"
<1>1. CASE CtrlBusy
  BY <1>1, SeqFacts, SentIdle, PipeNext
<1>2. CASE ~ CtrlBusy
  <2>1. io'.r.cmd.op \notin {"REFRESH", "LOAD_MODE"}
    BY <1>2, SeqFacts, SentBusy, PipeNext
       DEF SeqRegs, BurstStates, After, Empty, Shows, Reads, Acks, Asks
  <2> QED BY <2>1
<1> QED BY <1>1, <1>2

(* A refresh or a mode in the pipeline fits the state of its FSM.          *)
LEMMA ControlKept ==
  ASSUME PathInv, NEW p, Asks(p), NEW start, Moves(p, start)
  PROVE  ControlPipe'
<1>1. /\ RefreshInv /\ BusyInv /\ ControlPipe /\ SdramStep(p, start, chip.out)
      /\ io'.o = io.r /\ io'.r = Selected(p)
  BY SeqFacts, PipeNext DEF PathInv
<1>2. rfsh.st = 3 => rfsh'.st = 4
  BY <1>1, RefreshKept
<1>3. rfsh.st = 4 => rfsh'.st = 5
  BY <1>1, RefreshKept
<1>4. busy.mode = "CMD" => busy'.mode = "WAIT1"
  BY <1>1, BusyNext DEF ModeBusy, ModeAfter
<1>5. busy.mode = "WAIT1" => busy'.mode = "WAIT2"
  BY <1>1, BusyNext DEF ModeBusy, ModeAfter
<1>6. ASSUME ~ busy'.fullpage
      PROVE  io'.r.cmd.op # "REFRESH" /\ io'.o.cmd.op # "REFRESH"
  <2>1. ~ busy.fullpage
    BY <1>1, <1>6, BusyNext
  <2>2. ~ InitSel /\ ~ ModeSel => rfsh.st = 0
    BY <1>1, <2>1 DEF BusyInv, Untouched, InitSel, ModeSel, ModeBusy
  <2> QED BY <1>1, <2>1, <2>2, SentControl DEF ControlPipe
<1>7. ASSUME busy'.mode = "WAIT2"
      PROVE  Empty(io'.r)
  <2>1. busy.mode = "WAIT1"
    <3>1. ModeBusy
      BY <1>1, <1>7, BusyNext
    <3> QED BY <1>1, <1>7, <3>1, BusyNext DEF ModeAfter, BusyInv, Modes, ModeBusy
  <2>2. ~ InitSel /\ ModeSel /\ CtrlBusy
    BY <1>1, <2>1 DEF BusyInv, InitSel, ModeSel, ModeBusy, CtrlBusy
  <2> QED BY <1>1, <2>1, <2>2, SentIdle
<1>8. ASSUME busy'.fullpage, busy'.mode_l = Delay
      PROVE  Empty(io'.r) /\ Empty(io'.o)
  <2>1. ModeBusy
    <3>1. busy.mode_l \in 0 .. 4
      BY <1>1 DEF BusyInv, Delay
    <3>2. ~ ModeBusy => busy'.mode_l = IF busy.mode_l = 0 THEN 0 ELSE busy.mode_l - 1
      BY <1>1, BusyNext
    <3> QED BY <1>8, <3>1, <3>2 DEF Delay
  <2>2. busy.mode = "WAIT2"
    BY <1>1, <1>8, <2>1, BusyNext DEF BusyInv
  <2>3. ~ InitSel /\ ModeSel /\ CtrlBusy
    BY <1>1, <2>1 DEF BusyInv, InitSel, ModeSel, ModeBusy, CtrlBusy
  <2> QED BY <1>1, <2>2, <2>3, SentIdle DEF ControlPipe
<1>9. ASSUME busy'.mode = "IDLE", ~ busy'.fullpage
      PROVE  Empty(io'.r) /\ Empty(io'.o)
  <2>1. busy.mode = "IDLE" /\ ~ busy.fullpage /\ ~ ModeStarts
    BY <1>1, <1>9, BusyNext DEF ModeBusy, ModeAfter, Modes, BusyInv
  <2>2. InitSel
    BY <1>1, <2>1 DEF BusyInv, Untouched, ModeStarts, IdleOk, BurstIdle
  <2>3. CtrlBusy
    BY <2>2 DEF CtrlBusy
  <2> QED BY <1>1, <2>1, <2>2, <2>3, SentIdle DEF ControlPipe
<1> QED BY <1>1, <1>2, <1>3, <1>4, <1>5, <1>6, <1>7, <1>8, <1>9, SentControl DEF ControlPipe, Empty, Silent, Tells

-----------------------------------------------------------------------------
(* What is on the pins in a state of the sequencer.                        *)
LEMMA OnPins ==
  ASSUME PathInv
  PROVE  /\ Pins.op \in {"NOP", "PRECHARGE_ALL", "REFRESH", "LOAD_MODE", "ACTIVE", "READ", "WRITE",
                         "STOP", "PRECHARGE"}
         /\ Pins.op \in {"PRECHARGE_ALL", "REFRESH", "LOAD_MODE"} =>
              burst.st \in {"IDLE", "ACT", "TRCD1"} /\ ~ JustIdle
         /\ Pins.op = "ACTIVE" => burst.st = "TRCD2"
         /\ burst.st = "TRCD2" => Shows(io.o, "ACTIVE") /\ Pins.a = Row(burst.addr)
         /\ Pins.op = "READ" => /\ burst.st = "CL2" /\ Acking
                                /\ Pins.ba = burst.ba /\ InRow(io.o)
         /\ Pins.op = "WRITE" => burst.write /\ burst.st \in {"WRITE", "STOP", "TWR1"}
                                 /\ Pins.ba = burst.ba /\ InRow(io.o)
         /\ Pins.op = "PRECHARGE" => JustIdle
         /\ JustIdle => Shows(io.o, "PRECHARGE")
         /\ Pins.op = "STOP" => burst.st \in {"TWR1", "TWR2", "TRP1"}
<1>1. /\ burst \in SeqRegs /\ CmdPipe /\ ReadPipe /\ WritePipe
      /\ burst.st \in WriteStates => burst.write
      /\ burst.st \in ReadStates => ~ burst.write
  BY DEF PathInv, SeqInv
<1>2. burst.addr \in Nat
  BY <1>1 DEF SeqRegs
<1> USE DEF Pins, Calm, Empty, Silent, Tells, Shows, Reads, Acks, Closes, Beats, Drive, InRow, Acking
<1>3. CASE burst.st \in {"IDLE", "ACT", "TRCD1", "TRCD2", "TRP1"}
  BY <1>1, <1>3 DEF CmdPipe, JustIdle
<1>4. CASE burst.st \in {"READ_CMD", "CL1", "CL2", "RDATA"} \/ (burst.st \in {"STOP", "PRE"} /\ ~ burst.write)
  BY <1>1, <1>2, <1>4 DEF ReadPipe, JustIdle
<1>5. CASE burst.st \in {"WACK", "WDATA", "WRITE_CMD", "WRITE", "TWR1", "TWR2"}
           \/ (burst.st \in {"STOP", "PRE"} /\ burst.write)
  BY <1>1, <1>5 DEF WritePipe, JustIdle, WriteStates
<1> QED BY <1>1, <1>3, <1>4, <1>5 DEF SeqRegs, BurstStates, After

(* Where the sequencer is while something keeps it from the pins.          *)
LEMMA Kept ==
  ASSUME PathInv
  PROVE  /\ CtrlBusy => ~ JustIdle /\ burst.st \in {"IDLE", "ACT"}
                        /\ (burst.st = "IDLE" => busy.idle = 4)
         /\ ~ CtrlBusy => rfsh.st = 0 /\ busy.rfsh_l = 0 /\ busy.mode_l = 0 /\ busy.mode = "IDLE"
                          /\ busy.init = 0
<1>1. RefreshInv /\ BusyInv
  BY DEF PathInv
<1>2. busy.init \in 0 .. 4 /\ busy.mode_l \in 0 .. 4 /\ busy.rfsh_l \in 0 .. 4
  BY <1>1 DEF BusyInv, Delay
<1>3. CtrlBusy => ~ JustIdle /\ burst.st \in {"IDLE", "ACT"} /\ (burst.st = "IDLE" => busy.idle = 4)
  BY <1>1 DEF BusyInv, JustIdle, Delay
<1>4. ~ CtrlBusy => rfsh.st = 0 /\ busy.rfsh_l = 0 /\ busy.mode_l = 0 /\ busy.mode = "IDLE"
                    /\ busy.init = 0
  BY <1>1, <1>2 DEF CtrlBusy, InitSel, ModeSel, RfshSel, ModeBusy, RefreshInv
<1> QED BY <1>3, <1>4

(* The sequencer's next clock, frozen or not.                              *)
LEMMA Stays ==
  ASSUME PathInv, NEW p, Asks(p), NEW start, Moves(p, start)
  PROVE  /\ CtrlBusy => burst' = burst
         /\ burst.st # "IDLE" => busy'.idle = 0
         /\ burst.st = "IDLE" => busy'.idle = IF busy.idle = 4 THEN 4 ELSE busy.idle + 1
         /\ busy.idle \in 0 .. 4
<1>1. burst \in SeqRegs /\ BurstStep(p, go) /\ RefreshInv /\ BusyInv /\ SdramStep(p, start, chip.out)
  BY SeqFacts
<1>2. CtrlBusy => burst' = burst
  BY <1>1, SeqNext DEF go
<1>3. busy.idle \in 0 .. 4
  BY <1>1 DEF BusyInv, Delay
<1> QED BY <1>1, <1>2, <1>3, BusyNext

(* Exactly the row of the sequencer is open, while it needs it.            *)
LEMMA RowKept ==
  ASSUME PathInv, NEW p, Asks(p), NEW start, Moves(p, start)
  PROVE  RowInv'
<1> DEFINE Bs == {BankA, BankB}
<1>1. chip'.row = [b \in Bs |->
        IF C!Precharges(Pins, b) THEN C!Nothing
        ELSE IF Pins.op = "ACTIVE" /\ Pins.ba = b THEN <<Pins.a>>
        ELSE chip.row[b]]
  BY DEF Moves, C!ChipStep, C!Nothing
<1>2. chip.row = [b \in Bs |-> IF Opened /\ b = burst.ba THEN <<Row(burst.addr)>> ELSE C!Nothing]
  BY DEF PathInv, RowInv
<1>3. burst.st \in BurstStates
  BY DEF PathInv, SeqInv, SeqRegs
<1>4. ASSUME NEW b \in Bs
      PROVE  chip'.row[b] = IF Opened' /\ b = burst'.ba THEN <<Row(burst'.addr)>> ELSE C!Nothing
  <2>1. chip.row[b] = IF Opened /\ b = burst.ba THEN <<Row(burst.addr)>> ELSE C!Nothing
    BY <1>2
  <2>2. chip'.row[b] = IF C!Precharges(Pins, b) THEN C!Nothing
                       ELSE IF Pins.op = "ACTIVE" /\ Pins.ba = b THEN <<Pins.a>>
                       ELSE chip.row[b]
    BY <1>1
  <2>3. CASE CtrlBusy
    <3>1. burst' = burst /\ ~ Opened /\ ~ Opened' /\ Pins.op # "ACTIVE"
      BY <2>3, Kept, Stays, OnPins DEF Opened, JustIdle
    <3> QED BY <2>1, <2>2, <3>1
  <2>4. CASE ~ CtrlBusy /\ burst.st = "IDLE"
    <3>1. ~ Opened' /\ Pins.op # "ACTIVE"
      <4>1. burst'.st \in {"IDLE", "ACT"} /\ busy'.idle # 0
        BY <2>4, SeqMoves, Stays
      <4> QED BY <2>4, <4>1, OnPins DEF Opened, JustIdle
    <3>2. JustIdle /\ b = burst.ba => C!Precharges(Pins, b)
      BY OnPins DEF Shows, Pins, C!Precharges
    <3>3. ~ JustIdle => ~ Opened
      BY <2>4 DEF Opened
    <3> QED BY <2>1, <2>2, <3>1, <3>2, <3>3
  <2>5. CASE ~ CtrlBusy /\ burst.st \in {"ACT", "TRCD1"}
    <3>1. ~ Opened' /\ ~ Opened /\ Pins.op # "ACTIVE"
      BY <2>5, SeqMoves, OnPins DEF Opened, JustIdle
    <3> QED BY <2>1, <2>2, <3>1
  <2>6. CASE ~ CtrlBusy /\ burst.st = "TRCD2"
    <3>1. Opened' /\ ~ Opened /\ burst'.ba = burst.ba /\ burst'.addr = burst.addr
      BY <2>6, SeqMoves DEF Opened, JustIdle
    <3>2. Pins.op = "ACTIVE" /\ Pins.ba = burst.ba /\ Pins.a = Row(burst.addr)
      BY <2>6, OnPins DEF Shows, Pins
    <3>3. ~ C!Precharges(Pins, b)
      BY <3>2 DEF C!Precharges
    <3> QED BY <2>1, <2>2, <3>1, <3>2, <3>3
  <2>7. CASE ~ CtrlBusy /\ burst.st \notin {"IDLE", "ACT", "TRCD1", "TRCD2"}
    <3>1. Opened /\ burst'.ba = burst.ba /\ Row(burst'.addr) = Row(burst.addr)
      BY <2>7, <1>3, SeqMoves DEF Opened, BurstStates, After
    <3>2. Opened'
      BY <2>7, <1>3, SeqMoves, Stays DEF Opened, BurstStates, After, JustIdle
    <3>3. Pins.op # "ACTIVE" /\ ~ C!Precharges(Pins, b)
      BY <2>7, OnPins DEF C!Precharges, JustIdle
    <3> QED BY <2>1, <2>2, <3>1, <3>2, <3>3
  <2> QED BY <2>3, <2>4, <2>5, <2>6, <2>7
<1>5. chip'.row = [b \in Bs |-> chip'.row[b]]
  BY <1>1
<1>6. chip'.row = [b \in Bs |-> IF Opened' /\ b = burst'.ba THEN <<Row(burst'.addr)>> ELSE C!Nothing]
  BY <1>4, <1>5
<1>7. burst'.st # "IDLE" \/ JustIdle' => burst'.ba \in Bs
  <2>1. burst.st # "IDLE" \/ JustIdle => burst.ba \in Bs
    BY DEF PathInv, RowInv
  <2>2. CASE CtrlBusy
    BY <2>1, <2>2, Kept, Stays DEF JustIdle
  <2>3. CASE ~ CtrlBusy /\ burst.st = "IDLE"
    BY <2>3, SeqMoves, Stays DEF JustIdle, Asks
  <2>4. CASE ~ CtrlBusy /\ burst.st # "IDLE"
    BY <2>1, <2>4, SeqMoves
  <2> QED BY <2>2, <2>3, <2>4
<1> QED BY <1>6, <1>7 DEF RowInv, Opened, Row, C!Nothing

-----------------------------------------------------------------------------
(* The ages of the last commands.                                          *)
LEMMA AgeNext ==
  ASSUME PathInv, NEW p, NEW start, Moves(p, start)
  PROVE  /\ {chip'.act, chip'.pre, chip'.ref, chip'.wr, chip'.mrd} \subseteq Nat
         /\ Pins.op = "ACTIVE" => chip'.act = 1
         /\ Pins.op # "ACTIVE" => chip'.act = IF chip.act = 6 THEN 6 ELSE chip.act + 1
         /\ C!Closes(Pins) => chip'.pre = 1
         /\ ~ C!Closes(Pins) => chip'.pre = IF chip.pre = 2 THEN 2 ELSE chip.pre + 1
         /\ Pins.op = "REFRESH" => chip'.ref = 1
         /\ Pins.op # "REFRESH" => chip'.ref = IF chip.ref = 7 THEN 7 ELSE chip.ref + 1
         /\ C!Storing(Pins) # C!Nothing => chip'.wr = 1
         /\ C!Storing(Pins) = C!Nothing => chip'.wr = IF chip.wr = 2 THEN 2 ELSE chip.wr + 1
         /\ Pins.op = "LOAD_MODE" => chip'.mrd = 1
         /\ Pins.op # "LOAD_MODE" => chip'.mrd = IF chip.mrd = 2 THEN 2 ELSE chip.mrd + 1
         /\ C!Storing(Pins) = C!Nothing => chip'.in = C!Nothing
<1>1. C!ChipStep(Pins) /\ {chip.act, chip.pre, chip.ref, chip.wr, chip.mrd} \subseteq Nat
  BY DEF Moves, PathInv, AgeInv
<1>2. /\ chip'.act = IF Pins.op = "ACTIVE" THEN 1 ELSE C!Grow(chip.act, 6)
      /\ chip'.pre = IF C!Closes(Pins) THEN 1 ELSE C!Grow(chip.pre, 2)
      /\ chip'.ref = IF Pins.op = "REFRESH" THEN 1 ELSE C!Grow(chip.ref, 7)
      /\ chip'.wr = IF C!Storing(Pins) # C!Nothing THEN 1 ELSE C!Grow(chip.wr, 2)
      /\ chip'.mrd = IF Pins.op = "LOAD_MODE" THEN 1 ELSE C!Grow(chip.mrd, 2)
      /\ chip'.in = IF Pins.op = "READ" THEN C!Nothing ELSE C!NextColumn(C!Storing(Pins))
  BY <1>1 DEF C!ChipStep, C!tRC, C!tRP, C!tRFC, C!tWR, C!tMRD
<1>3. C!NextColumn(C!Nothing) = C!Nothing
  BY DEF C!NextColumn
<1>4. /\ Pins.op # "ACTIVE" => chip'.act = IF chip.act = 6 THEN 6 ELSE chip.act + 1
      /\ ~ C!Closes(Pins) => chip'.pre = IF chip.pre = 2 THEN 2 ELSE chip.pre + 1
      /\ Pins.op # "REFRESH" => chip'.ref = IF chip.ref = 7 THEN 7 ELSE chip.ref + 1
      /\ C!Storing(Pins) = C!Nothing => chip'.wr = IF chip.wr = 2 THEN 2 ELSE chip.wr + 1
      /\ Pins.op # "LOAD_MODE" => chip'.mrd = IF chip.mrd = 2 THEN 2 ELSE chip.mrd + 1
  BY <1>2 DEF C!Grow
<1>5. chip'.act \in Nat /\ chip'.pre \in Nat /\ chip'.ref \in Nat /\ chip'.wr \in Nat /\ chip'.mrd \in Nat
  BY <1>1, <1>2 DEF C!Grow
<1> QED BY <1>2, <1>3, <1>4, <1>5

(* The part of the invariant about ages.                                   *)
LEMMA Ages ==
  ASSUME PathInv
  PROVE  /\ chip.act \in Nat /\ chip.pre \in Nat /\ chip.ref \in Nat /\ chip.wr \in Nat /\ chip.mrd \in Nat
         /\ chip.act >= MinAct /\ chip.pre >= MinPre
         /\ chip.ref >= MinRef /\ (~ busy.fullpage => chip.ref >= 7)
         /\ ~ Storing => chip.wr >= 2
         /\ chip.wr >= 1 /\ (chip.in # C!Nothing => Storing)
         /\ chip.mrd >= IF busy.fullpage /\ busy.mode_l = 4 THEN 1 ELSE 2
BY DEF PathInv, AgeInv, Delay

(* An activation is as old as the state of the sequencer asks.             *)
LEMMA ActKept ==
  ASSUME PathInv, NEW p, Asks(p), NEW start, Moves(p, start)
  PROVE  (chip.act >= MinAct)'
<1>1. burst.st \in BurstStates /\ chip.act \in Nat /\ chip.act >= MinAct
  BY Ages DEF PathInv, SeqInv, SeqRegs
<1>2. chip'.act = IF Pins.op = "ACTIVE" THEN 1 ELSE IF chip.act = 6 THEN 6 ELSE chip.act + 1
  BY AgeNext
<1>3. CASE CtrlBusy
  <2>1. burst' = burst /\ Pins.op # "ACTIVE" /\ burst.st \in {"IDLE", "ACT"}
    BY <1>3, Kept, Stays, OnPins
  <2> QED BY <1>1, <1>2, <2>1 DEF MinAct
<1>4. CASE ~ CtrlBusy /\ burst.st = "TRCD2"
  <2>1. burst'.st \in {"WACK", "READ_CMD"} /\ Pins.op = "ACTIVE"
    BY <1>4, SeqMoves, OnPins DEF Shows, Pins
  <2> QED BY <1>1, <1>2, <2>1 DEF MinAct
<1>5. CASE ~ CtrlBusy /\ burst.st \in {"IDLE", "ACT", "TRCD1", "TWR1", "TWR2", "PRE", "TRP1"}
  <2>1. burst'.st \in {"IDLE", "ACT", "TRCD1", "TRCD2", "TWR2", "PRE", "TRP1"} /\ Pins.op # "ACTIVE"
    BY <1>5, SeqMoves, OnPins
  <2>2. chip.act >= 5
    BY <1>1, <1>5 DEF MinAct
  <2>3. chip'.act >= 6 /\ chip'.act \in Nat
    BY <1>1, <1>2, <2>1, <2>2
  <2> QED BY <2>1, <2>3 DEF MinAct
<1>6. CASE ~ CtrlBusy /\ burst.st \in {"WACK", "WDATA", "WRITE_CMD", "WRITE", "READ_CMD", "CL1", "CL2",
                                       "RDATA", "STOP"}
  <2>1. Pins.op # "ACTIVE"
    BY <1>6, OnPins
  <2>2. chip'.act >= chip.act + 1 \/ chip'.act >= 6
    BY <1>1, <1>2, <2>1
  <2>3. burst.st \in {"WACK", "READ_CMD"} => chip.act >= 1 /\ burst'.st \in {"WDATA", "CL1"}
    BY <1>1, <1>6, SeqMoves DEF MinAct
  <2>4. burst.st \in {"WDATA", "CL1"} => chip.act >= 2 /\ burst'.st \in {"WRITE_CMD", "CL2"}
    BY <1>1, <1>6, SeqMoves DEF MinAct
  <2>5. burst.st \in {"WRITE_CMD", "CL2"} => chip.act >= 3 /\ burst'.st \in {"WRITE", "STOP", "CL2", "RDATA"}
    BY <1>1, <1>6, SeqMoves DEF MinAct
  <2>6. burst.st \in {"WRITE", "RDATA"} => chip.act >= 4 /\ burst'.st \in {"WRITE", "RDATA", "STOP"}
    BY <1>1, <1>6, SeqMoves DEF MinAct
  <2>7. burst.st = "STOP" => chip.act >= 4 /\ burst'.st \in {"TWR1", "PRE"}
    BY <1>1, <1>6, SeqMoves DEF MinAct
  <2>8. /\ burst.st \in {"WACK", "READ_CMD"} => chip'.act >= 2
        /\ burst.st \in {"WDATA", "CL1"} => chip'.act >= 3
        /\ burst.st \in {"WRITE_CMD", "CL2", "WRITE", "RDATA"} => chip'.act >= 4
        /\ burst.st = "STOP" => chip'.act >= 5
    BY <1>1, <1>2, <2>1, <2>3, <2>4, <2>5, <2>6, <2>7
  <2>9. chip'.act \in Nat
    BY <1>1, <1>2
  <2> QED BY <1>6, <2>3, <2>4, <2>5, <2>6, <2>7, <2>8, <2>9 DEF MinAct
<1> QED BY <1>1, <1>3, <1>4, <1>5, <1>6 DEF BurstStates, After

(* So is a precharge,                                                      *)
LEMMA PreKept ==
  ASSUME PathInv, NEW p, Asks(p), NEW start, Moves(p, start)
  PROVE  (chip.pre >= MinPre)'
<1>1. chip.pre \in Nat /\ chip.pre >= 1
  BY Ages DEF MinPre
<1>2. MinPre' \in {1, 2}
  BY DEF MinPre
<1>3. CASE ~ C!Closes(Pins)
  <2>1. chip'.pre >= 2 /\ chip'.pre \in Nat
    BY <1>1, <1>3, AgeNext
  <2> QED BY <1>2, <2>1
<1>4. CASE C!Closes(Pins)
  <2>1. PICK b \in {BankA, BankB} : C!Precharges(Pins, b) /\ chip.row[b] # C!Nothing
    BY <1>4 DEF C!Closes
  <2>2. Opened
    BY <2>1 DEF PathInv, RowInv
  <2>3. JustIdle
    BY <2>1, <2>2, OnPins DEF C!Precharges, Opened, JustIdle
  <2>4. ~ CtrlBusy
    BY <2>3, Kept
  <2>5. ~ CtrlBusy'
    BY <2>3, <2>4, BusyKept DEF IdleOk, JustIdle, Delay
  <2>6. burst'.st \in {"IDLE", "ACT"} /\ busy'.idle = 1
    BY <2>3, <2>4, SeqMoves, Stays DEF JustIdle
  <2>7. MinPre' = 1
    BY <2>5, <2>6 DEF MinPre
  <2> QED BY <1>4, <2>7, AgeNext
<1> QED BY <1>3, <1>4

(* a refresh,                                                              *)
LEMMA RefKept ==
  ASSUME PathInv, NEW p, Asks(p), NEW start, Moves(p, start)
  PROVE  (chip.ref >= MinRef /\ (~ busy.fullpage => chip.ref >= 7))'
<1>1. /\ RefreshInv /\ BusyInv /\ ControlPipe /\ SdramStep(p, start, chip.out)
      /\ chip.ref \in Nat /\ chip.ref >= MinRef /\ (~ busy.fullpage => chip.ref >= 7)
  BY SeqFacts, Ages DEF PathInv
<1>2. rfsh.st \in 0 .. 9 /\ rfsh'.st \in 0 .. 9 /\ busy.rfsh_l \in 0 .. 4
  BY <1>1, RefreshKept DEF RefreshInv, BusyInv, Delay
<1>3. chip'.ref = IF Pins.op = "REFRESH" THEN 1 ELSE IF chip.ref = 7 THEN 7 ELSE chip.ref + 1
  BY AgeNext
<1>4. Pins.op = "REFRESH" => rfsh.st = 5 /\ busy.fullpage
  BY <1>1 DEF ControlPipe, Pins
<1>5. busy'.rfsh_l = IF rfsh.st # 0 THEN 4 ELSE IF busy.rfsh_l = 0 THEN 0 ELSE busy.rfsh_l - 1
  BY <1>1, BusyNext
<1>6. /\ rfsh'.st # rfsh.st => rfsh'.st = rfsh.st + 1 \/ (rfsh.st = 9 /\ rfsh'.st \in {0, 2})
      /\ rfsh.st = 0 /\ rfsh'.st # 0 => ~ CtrlBusy /\ rfsh'.st = 1
      /\ rfsh.st # 0 => rfsh'.st # rfsh.st
  BY <1>1, RefreshKept
<1>7. busy'.fullpage \/ ~ busy.fullpage
  BY <1>1, BusyNext
<1>8. (~ busy.fullpage => chip.ref >= 7)'
  BY <1>1, <1>3, <1>4, <1>7
<1>9. CASE rfsh.st = 0
  <2>1. chip'.ref = IF chip.ref = 7 THEN 7 ELSE chip.ref + 1
    BY <1>3, <1>4, <1>9
  <2>2. CASE rfsh'.st = 0
    <3>1. chip.ref >= IF busy.rfsh_l = 4 THEN 5 ELSE IF busy.rfsh_l = 3 THEN 6 ELSE 7
      BY <1>1, <1>9 DEF MinRef
    <3>2. MinRef' = IF busy'.rfsh_l = 4 THEN 5 ELSE IF busy'.rfsh_l = 3 THEN 6 ELSE 7
      BY <2>2 DEF MinRef
    <3> QED BY <1>1, <1>2, <1>5, <1>9, <2>1, <3>1, <3>2, <1>8
  <2>3. CASE rfsh'.st = 1
    <3>1. busy.rfsh_l = 0
      BY <1>6, <1>9, <2>3, Kept
    <3>2. chip.ref >= 7
      BY <1>1, <1>9, <3>1 DEF MinRef
    <3>3. MinRef' = 7
      BY <2>3 DEF MinRef
    <3> QED BY <1>1, <2>1, <3>2, <3>3, <1>8
  <2> QED BY <1>6, <1>9, <2>2, <2>3
<1>10. CASE rfsh.st \in 1 .. 8
  <2>1. rfsh'.st = rfsh.st + 1
    BY <1>2, <1>6, <1>10
  <2>2. chip.ref >= MinRef
    BY <1>1
  <2>3. rfsh.st \in {1, 2, 3, 4, 5, 6, 7, 8}
    BY <1>10
  <2>4. chip'.ref >= MinRef'
    BY <1>1, <1>3, <1>4, <2>1, <2>2, <2>3 DEF MinRef
  <2> QED BY <1>8, <2>4
<1>11. CASE rfsh.st = 9
  <2>1. rfsh'.st \in {0, 2}
    BY <1>2, <1>6, <1>11
  <2>2. MinRef' = 5
    BY <1>5, <1>11, <2>1 DEF MinRef
  <2>3. chip.ref >= 4
    BY <1>1, <1>11 DEF MinRef
  <2> QED BY <1>1, <1>3, <1>4, <1>8, <1>11, <2>2, <2>3
<1> QED BY <1>2, <1>9, <1>10, <1>11

(* the last half-word that was written,                                    *)
LEMMA WrKept ==
  ASSUME PathInv, NEW p, Asks(p), NEW start, Moves(p, start)
  PROVE  (/\ ~ Storing => chip.wr >= 2
          /\ chip.wr >= 1 /\ (chip.in # C!Nothing => Storing))'
<1>1. chip.wr \in Nat /\ chip.wr >= 1 /\ (~ Storing => chip.wr >= 2) /\ (chip.in # C!Nothing => Storing)
      /\ burst \in SeqRegs
  BY Ages, SeqFacts
<1>2. C!Storing(Pins) # C!Nothing => Storing /\ burst.st # "TWR2"
  <2>1. Pins.op = "WRITE" => Storing /\ burst.st # "TWR2"
    BY OnPins DEF Storing
  <2>2. Pins.op = "NOP" => C!Storing(Pins) = chip.in
    BY DEF C!Storing
  <2>3. Pins.op \notin {"WRITE", "NOP"} => C!Storing(Pins) = C!Nothing
    BY DEF C!Storing
  <2>4. burst.st = "TWR2" => Pins.op = "STOP"
    BY DEF PathInv, SeqInv, WritePipe, Pins
  <2> QED BY <1>1, <2>1, <2>2, <2>3, <2>4
<1>3. Storing /\ burst.st # "TWR2" => Storing'
  BY <1>1, SeqMoves, Kept DEF Storing, SeqRegs
<1>4. Storing /\ burst.st = "TWR2" => C!Storing(Pins) = C!Nothing
  BY <1>2
<1>5. CASE C!Storing(Pins) # C!Nothing
  BY <1>2, <1>3, <1>5, AgeNext
<1>6. CASE C!Storing(Pins) = C!Nothing
  BY <1>1, <1>6, AgeNext
<1> QED BY <1>5, <1>6

(* and the loading of the mode.                                            *)
LEMMA MrdKept ==
  ASSUME PathInv, NEW p, Asks(p), NEW start, Moves(p, start)
  PROVE  (chip.mrd >= IF busy.fullpage /\ busy.mode_l = Delay THEN 1 ELSE 2)'
<1>1. /\ RefreshInv /\ BusyInv /\ ControlPipe /\ SdramStep(p, start, chip.out)
      /\ chip.mrd \in Nat /\ chip.mrd >= 1
  BY SeqFacts, Ages DEF PathInv
<1>2. CASE Pins.op = "LOAD_MODE"
  <2>1. busy.mode = "WAIT2"
    BY <1>1, <1>2 DEF ControlPipe, Pins
  <2>2. busy'.fullpage /\ busy'.mode_l = Delay
    BY <1>1, <2>1, BusyNext DEF ModeBusy, Delay
  <2> QED BY <1>2, <2>2, AgeNext
<1>3. CASE Pins.op # "LOAD_MODE"
  <2>1. chip'.mrd >= 2 /\ chip'.mrd \in Nat
    BY <1>1, <1>3, AgeNext
  <2> QED BY <2>1
<1> QED BY <1>2, <1>3

(* All the ages are kept.                                                  *)
LEMMA AgeKept ==
  ASSUME PathInv, NEW p, Asks(p), NEW start, Moves(p, start)
  PROVE  AgeInv'
BY AgeNext, ActKept, PreKept, RefKept, WrKept, MrdKept DEF AgeInv

(* The invariant from one clock to the next, for any request.              *)
LEMMA PathKept ==
  ASSUME PathInv, NEW p, Asks(p), NEW start, Moves(p, start)
  PROVE  PathInv'
BY SeqFacts, RefreshKept, BusyKept, SeqKept, ControlKept, RowKept, AgeKept DEF PathInv

(* The command on the pins is legal for the chip as the invariant has it.  *)
LEMMA PathLegal ==
  ASSUME PathInv
  PROVE  C!Legal(Pins)
<1> USE DEF C!tRP, C!tRFC, C!tRC, C!tMRD, C!tRCD, C!tRAS, C!tWR
<1>1. RefreshInv /\ BusyInv /\ ControlPipe /\ burst \in SeqRegs
  BY DEF PathInv, SeqInv
<1>2. \A b \in {BankA, BankB} :
        chip.row[b] = IF Opened /\ b = burst.ba THEN <<Row(burst.addr)>> ELSE C!Nothing
  BY DEF PathInv, RowInv
<1>3. (burst.st # "IDLE" \/ JustIdle => burst.ba \in {BankA, BankB}) /\ busy.mode_l \in 0 .. 4
  BY <1>1 DEF PathInv, RowInv, BusyInv, Delay
<1>4. ~ Opened => C!AllClosed
  BY <1>2 DEF C!AllClosed
<1>5. Opened => burst.st \notin {"ACT", "TRCD1", "TRCD2"} /\ (burst.st = "IDLE" => JustIdle)
  BY DEF Opened, JustIdle
<1>6. Pins.op = "ACTIVE" =>
        /\ chip.row[Pins.ba] = C!Nothing
        /\ chip.pre >= 2 /\ chip.ref >= 7 /\ chip.act >= 6 /\ chip.mrd >= 2
  <2> HAVE Pins.op = "ACTIVE"
  <2>1. burst.st = "TRCD2" /\ Pins.ba = burst.ba
    BY OnPins DEF Shows, Pins
  <2>2. ~ CtrlBusy /\ ~ Opened
    BY <2>1, <1>5, Kept
  <2>3. rfsh.st = 0 /\ busy.rfsh_l = 0 /\ busy.mode_l = 0
    BY <2>2, Kept
  <2>4. MinRef = 7 /\ MinAct = 6 /\ MinPre = 2
    BY <2>1, <2>3 DEF MinRef, MinAct, MinPre
  <2> QED BY <1>2, <1>3, <2>1, <2>2, <2>3, <2>4, Ages
<1>7. Pins.op \in {"READ", "WRITE"} => chip.row[Pins.ba] = <<Pins.a \div Page>> /\ chip.act >= 2
  <2> HAVE Pins.op \in {"READ", "WRITE"}
  <2>1. /\ burst.st \in {"CL2", "RDATA", "WRITE", "STOP", "TWR1"} /\ Pins.ba = burst.ba
        /\ Row(Pins.a) = Row(burst.addr)
    BY OnPins DEF InRow, Pins
  <2>2. Opened /\ MinAct \in {3, 4, 5}
    BY <2>1 DEF Opened, MinAct
  <2>3. chip.row[Pins.ba] = <<Row(Pins.a)>>
    BY <1>2, <1>3, <2>1, <2>2
  <2> QED BY <2>2, <2>3, Ages DEF Row
<1>8. Pins.op \in {"PRECHARGE", "PRECHARGE_ALL"} =>
        chip.mrd >= 2 /\ (C!Closes(Pins) => chip.act >= 4 /\ chip.wr >= 2)
  <2> HAVE Pins.op \in {"PRECHARGE", "PRECHARGE_ALL"}
  <2>1. CASE Pins.op = "PRECHARGE"
    <3>1. JustIdle
      BY <2>1, OnPins
    <3>2. ~ CtrlBusy
      BY <3>1, Kept
    <3>3. MinAct = 6 /\ ~ Storing /\ busy.mode_l = 0
      BY <3>1, <3>2, Kept DEF JustIdle, MinAct, Storing
    <3> QED BY <3>3, Ages
  <2>2. CASE Pins.op = "PRECHARGE_ALL"
    <3>1. ~ Opened
      BY <2>2, <1>5, OnPins
    <3>2. ~ C!Closes(Pins)
      BY <3>1, <1>2 DEF C!Closes
    <3>3. ~ (busy.fullpage /\ busy.mode_l = 4)
      BY <1>1, <2>2 DEF ControlPipe, Empty, Pins, Delay
    <3> QED BY <3>2, <3>3, Ages
  <2> QED BY <2>1, <2>2
<1>9. Pins.op = "REFRESH" => C!AllClosed /\ chip.pre >= 2 /\ chip.ref >= 7 /\ chip.mrd >= 2
  <2> HAVE Pins.op = "REFRESH"
  <2>1. ~ Opened /\ rfsh.st = 5
    BY <1>1, <1>5, OnPins DEF ControlPipe, Pins
  <2>2. CtrlBusy
    BY <2>1, Kept
  <2>3. MinPre = 2
    BY <2>2, Kept DEF MinPre
  <2>4. MinRef = 7
    BY <2>1 DEF MinRef
  <2>5. ~ (busy.fullpage /\ busy.mode_l = 4)
    BY <1>1 DEF ControlPipe, Empty, Pins, Delay
  <2> QED BY <1>4, <2>1, <2>3, <2>4, <2>5, Ages
<1>10. Pins.op = "LOAD_MODE" => C!AllClosed /\ chip.pre >= 2 /\ chip.ref >= 7
  <2> HAVE Pins.op = "LOAD_MODE"
  <2>1. ~ Opened /\ busy.mode = "WAIT2"
    BY <1>1, <1>5, OnPins DEF ControlPipe, Pins
  <2>2. CtrlBusy /\ ~ busy.fullpage
    BY <1>1, <2>1, Kept DEF BusyInv, ModeBusy
  <2>3. MinPre = 2
    BY <2>2, Kept DEF MinPre
  <2> QED BY <1>4, <2>1, <2>2, <2>3, Ages
<1> QED BY <1>6, <1>7, <1>8, <1>9, <1>10 DEF C!Legal

-----------------------------------------------------------------------------
(* The specification.                                                      *)
LEMMA PathStarts ==
  ASSUME Init, Clocks = {TRUE}
  PROVE  PathInv
<1>1. /\ burst = [st |-> "IDLE", ba |-> 0, addr |-> 0, write |-> FALSE, wait |-> FALSE]
      /\ rfsh = [cnt |-> 0, st |-> 0, br |-> FALSE, rfshing |-> FALSE, help |-> FALSE,
                 last |-> FALSE, cmd |-> "NOP"]
      /\ fast = TRUE
      /\ busy = [init |-> 4, mode_l |-> 0, rfsh_l |-> 0, idle |-> 4, mode |-> "IDLE", fullpage |-> FALSE]
      /\ io.r = Quiescent /\ io.o = Quiescent
  BY DEF Init, SdramInit, BurstInit, RfshInit, Delay
<1>2. /\ chip.row = [b \in {BankA, BankB} |-> C!Nothing]
      /\ chip.act = 6 /\ chip.pre = 2 /\ chip.ref = 7 /\ chip.wr = 2 /\ chip.mrd = 2
      /\ chip.in = C!Nothing
  BY DEF Init, C!ChipInit, C!tRC, C!tRP, C!tRFC, C!tWR, C!tMRD
<1>3. Quiescent.cmd.op = "NOP" /\ Silent(Quiescent)
  BY DEF Quiescent, Nop, Silent, Tells
<1>4. RefreshInv
  BY <1>1 DEF RefreshInv
<1>5. BusyInv
  BY <1>1 DEF BusyInv, Untouched, Modes, ModeBusy, Delay
<1>6. SeqInv
  <2>1. burst \in SeqRegs
    BY <1>1 DEF SeqRegs, BurstStates
  <2>2. CmdPipe
    BY <1>1, <1>3 DEF CmdPipe, Calm, Empty, JustIdle
  <2>3. ReadPipe
    BY <1>1 DEF ReadPipe
  <2>4. WritePipe
    BY <1>1, <1>3 DEF WritePipe
  <2> QED BY <1>1, <2>1, <2>2, <2>3, <2>4 DEF SeqInv, WriteStates, ReadStates
<1>7. ControlPipe
  BY <1>1, <1>3 DEF ControlPipe, Empty
<1>8. RowInv
  BY <1>1, <1>2 DEF RowInv, Opened, JustIdle
<1>9. AgeInv
  <2>1. MinAct = 6 /\ MinRef = 7 /\ MinPre \in {1, 2} /\ busy.mode_l # Delay
    BY <1>1 DEF MinAct, MinRef, MinPre, Delay
  <2> QED BY <1>2, <2>1 DEF AgeInv
<1> QED BY <1>4, <1>5, <1>6, <1>7, <1>8, <1>9 DEF PathInv

(* The request the arbiter passes on is one the controller expects.        *)
LEMMA RequestAsks == Asks(Request)
<1>1. /\ BankA \in Nat /\ BankB \in Nat /\ BaseA \in Nat /\ BaseB \in Nat
  BY LinesAssumption DEF GoodLine
<1>2. /\ Request.rd = ((Owns(0) /\ A!ExtRd) \/ (Owns(1) /\ B!ExtRd))
      /\ Request.wr = ((Owns(0) /\ A!ExtWr) \/ (Owns(1) /\ B!ExtWr))
      /\ Request.ba = (IF arb.sel = 0 THEN BankA ELSE BankB)
      /\ Request.addr = (IF arb.sel = 0 THEN BaseA ELSE BaseB)
  BY DEF Request
<1>3. Request.rd \in BOOLEAN /\ Request.wr \in BOOLEAN
  BY <1>2
<1> QED BY <1>1, <1>2, <1>3 DEF Asks

(* Every step of the specification keeps the invariant.                    *)
LEMMA PathSteps ==
  ASSUME PathInv, [Next]_vars
  PROVE  PathInv'
<1>1. CASE Next
  <2>1. PICK start \in BOOLEAN : Clock(start)
    BY <1>1 DEF Next
  <2>2. Moves(Request, start)
    BY <2>1 DEF Clock, Moves
  <2> QED BY <2>2, RequestAsks, PathKept
<1>2. CASE UNCHANGED vars
  BY <1>2 DEF vars, PathInv, RefreshInv, BusyInv, SeqInv, ControlPipe, RowInv, AgeInv,
     Untouched, ModeBusy, CtrlBusy, InitSel, ModeSel, RfshSel, CmdPipe, ReadPipe, WritePipe,
     Calm, Empty, Silent, Tells, Shows, InRow, JustIdle, Acking, Reads, Acks, Closes, Beats, Drive,
     Opened, MinRef, MinAct, MinPre, Storing, Row
<1> QED BY <1>1, <1>2

(* The invariant of the burst controller, for any two lanes.               *)
THEOREM PathCorrect == Spec /\ Clocks = {TRUE} => []PathInv
<1>1. Init /\ Clocks = {TRUE} => PathInv
  BY PathStarts
<1>2. PathInv /\ [Next]_vars => PathInv'
  BY PathSteps
<1> QED BY <1>1, <1>2, PTL DEF Spec

(* Every command on the pins respects the rows and the times of the chip.  *)
THEOREM CommandsLegal == Spec /\ Clocks = {TRUE} => []ChipRules
<1>1. PathInv => ChipRules
  BY PathLegal DEF ChipRules
<1> QED BY <1>1, PathCorrect, PTL

-----------------------------------------------------------------------------
(* The chip and the simulator in tandem.                                   *)

(* A clock of the controller and the chip, and of the simulator beside them. *)
Both(p, start) == Moves(p, start) /\ Simulate

(* A sum of less than two pages wraps around once at most.                 *)
LEMMA Wrap ==
  ASSUME NEW P \in Nat \ {0}, NEW s \in Nat, s < P + P
  PROVE  (s < P => s % P = s) /\ (s >= P => s % P = s - P)
<1>1. CASE s < P
  <2>1. s \in 0 .. P - 1 /\ 0 * P + s = s
    BY <1>1
  <2> QED BY <1>1, <2>1, Composed
<1>2. CASE s >= P
  <2>1. s - P \in 0 .. P - 1 /\ 1 * P + (s - P) = s
    BY <1>2
  <2>2. (1 * P + (s - P)) % P = s - P
    BY <2>1, Composed
  <2> QED BY <1>2, <2>1, <2>2
<1> QED BY <1>1, <1>2

(* The burst b one beat on.                                                *)
Stepped(b) == [b EXCEPT !.beat = (b.beat + 1) % Page]

(* The cell of a burst, and the column a beat moves it to.                 *)
LEMMA Cells ==
  ASSUME NEW b \in BurstRegs
  PROVE  /\ S!CellOf(b) = <<b.ba, b.row * Page + ((b.col + b.beat) % Page)>>
         /\ Stepped(b) \in BurstRegs
         /\ C!NextColumn(S!CellOf(b)) = S!CellOf(Stepped(b))
         /\ S!CellOf(b) # C!Nothing
<1>1. Page \in Nat \ {0}
  BY PageAssumption
<1>2. b.col \in 0 .. Page - 1 /\ b.beat \in 0 .. Page - 1 /\ b.len = Page /\ b.row \in Nat
  BY DEF BurstRegs
<1>3. (b.beat + 1) % Page = IF b.beat + 1 < Page THEN b.beat + 1 ELSE 0
  <2>1. b.beat + 1 \in Nat /\ b.beat + 1 < Page + Page
    BY <1>1, <1>2
  <2> QED BY <1>1, <1>2, <2>1, Wrap
<1>4. (b.beat + 1) % Page \in 0 .. Page - 1
  BY <1>1, <1>2, <1>3
<1>5. Stepped(b) \in BurstRegs
  BY <1>4 DEF Stepped, BurstRegs
<1>6. ASSUME NEW d \in BurstRegs
      PROVE  S!CellOf(d) = <<d.ba, d.row * Page + ((d.col + d.beat) % Page)>>
  <2>1. d.col \in 0 .. Page - 1 /\ d.len = Page /\ d.row \in Nat /\ d.beat \in Nat
    BY <1>1 DEF BurstRegs
  <2>2. 0 * Page + d.col = d.col
    BY <1>1, <2>1
  <2>3. d.col \div Page = 0
    BY <1>1, <2>1, <2>2, Composed
  <2>4. 0 * Page = 0
    BY <1>1
  <2>5. d.row * Page \in Nat
    BY <1>1, <2>1
  <2> QED BY <2>1, <2>3, <2>4, <2>5 DEF S!CellOf
<1>7. PICK c \in 0 .. Page - 1 : c = (b.col + b.beat) % Page
  <2>1. b.col + b.beat \in Nat
    BY <1>1, <1>2
  <2> QED BY <1>1, <2>1, Division
<1>71. c + 1 \in Nat /\ c + 1 < Page + Page
  BY <1>1, <1>7
<1>8. (b.col + ((b.beat + 1) % Page)) % Page = (c + 1) % Page
  <2> DEFINE x == b.col + b.beat
             y == b.col + ((b.beat + 1) % Page)
             z == c + 1
  <2>1. x \in Nat /\ x < Page + Page /\ y \in Nat /\ y < Page + Page
    BY <1>1, <1>2, <1>4
  <2>2. c = x % Page
    BY <1>7
  <2>3. y = IF b.beat + 1 < Page THEN x + 1 ELSE b.col
    BY <1>1, <1>2, <1>3
  <2>4. b.beat + 1 >= Page => x = b.col + (Page - 1)
    BY <1>1, <1>2
  <2>5. b.col \in Nat /\ b.col < Page
    BY <1>1, <1>2
  <2>51. z \in Nat /\ z < Page + Page /\ z = c + 1
    BY <1>71
  <2> HIDE DEF x, y, z
  <2>6. (x < Page => c = x) /\ (x >= Page => c = x - Page)
    BY <1>1, <2>1, <2>2, Wrap
  <2>7. (z < Page => z % Page = z) /\ (z >= Page => z % Page = z - Page)
    BY <1>1, <2>51, Wrap
  <2>8. (y < Page => y % Page = y) /\ (y >= Page => y % Page = y - Page)
    BY <1>1, <2>1, Wrap
  <2>9. y % Page = z % Page
    <3>1. CASE b.beat + 1 < Page
      <4>1. y = x + 1
        BY <2>3, <3>1
      <4> QED BY <1>1, <2>1, <2>51, <2>6, <2>7, <2>8, <4>1
    <3>2. CASE b.beat + 1 >= Page
      <4>1. y = b.col /\ x = b.col + (Page - 1)
        BY <1>1, <1>2, <2>3, <2>4, <3>2
      <4> QED BY <1>1, <2>1, <2>5, <2>51, <2>6, <2>7, <2>8, <4>1
    <3> QED BY <1>1, <1>2, <3>1, <3>2
  <2> QED BY <2>9 DEF y, z
<1>9. b.row * Page \in Nat /\ (b.row * Page + c) \div Page = b.row /\ (b.row * Page + c) % Page = c
  <2>1. b.row * Page \in Nat
    BY <1>1, <1>2
  <2>2. (b.row * Page + c) \div Page = b.row /\ (b.row * Page + c) % Page = c
    BY <1>1, <1>2, <1>7, Composed
  <2> QED BY <2>1, <2>2
<1>10. (b.row * Page + c + 1) % Page = (c + 1) % Page
  <2>1. CASE c + 1 < Page
    <3>1. (b.row * Page + (c + 1)) % Page = c + 1
      BY <1>1, <1>2, <1>7, <2>1, Composed
    <3>2. (c + 1) % Page = c + 1
      BY <1>1, <1>7, <1>71, <2>1, Wrap
    <3> QED BY <1>7, <1>9, <3>1, <3>2
  <2>2. CASE ~ c + 1 < Page
    <3>1. ((b.row + 1) * Page + 0) % Page = 0
      BY <1>1, <1>2, Composed
    <3>2. (c + 1) % Page = 0
      BY <1>1, <1>7, <1>71, <2>2, Wrap
    <3>3. (b.row + 1) * Page = b.row * Page + Page
      BY <1>1, <1>2
    <3> QED BY <1>1, <1>7, <1>9, <2>2, <3>1, <3>2, <3>3
  <2> QED BY <2>1, <2>2
<1>11. C!NextColumn(S!CellOf(b)) = <<b.ba, b.row * Page + ((c + 1) % Page)>>
  <2>1. S!CellOf(b) = <<b.ba, b.row * Page + c>> /\ S!CellOf(b) # <<>>
    BY <1>6, <1>7
  <2> QED BY <1>9, <1>10, <2>1 DEF C!NextColumn, C!Nothing
<1>12. S!CellOf(Stepped(b)) = <<b.ba, b.row * Page + ((b.col + ((b.beat + 1) % Page)) % Page)>>
  BY <1>5, <1>6 DEF Stepped, BurstRegs
<1>13. S!CellOf(b) = <<b.ba, b.row * Page + ((b.col + b.beat) % Page)>>
  BY <1>6
<1>14. S!CellOf(b) # C!Nothing
  BY <1>13 DEF C!Nothing
<1>15. C!NextColumn(S!CellOf(b)) = S!CellOf(Stepped(b))
  BY <1>8, <1>11, <1>12
<1> QED BY <1>5, <1>13, <1>14, <1>15

(* A beat of the simulator.                                                *)
LEMMA NextBeat ==
  ASSUME NEW r, NEW b \in BurstRegs
  PROVE  LET s == S!Stage(r, b)
             w == S!AfterWrite(s)
             t == S!AfterRead(w)
         IN /\ b.kind = "WRITE" => t = S!Stage(r, Stepped(b))
            /\ b.kind = "READ" => w = s
            /\ b.kind = "READ" /\ b.wait > 0 => t = S!Stage(r, [b EXCEPT !.wait = b.wait - 1])
            /\ b.kind = "READ" /\ b.wait = 0 /\ b.stop = 0 => t = S!Stage(r, Stepped(b))
            /\ b.kind = "READ" /\ b.wait = 0 /\ b.stop = 1 => t = S!Stage(r, S!None)
            /\ b.kind = "READ" /\ b.wait = 0 /\ b.stop = 2 => t = S!Stage(r, [Stepped(b) EXCEPT !.stop = 1])
<1> DEFINE s == S!Stage(r, b)
           w == S!AfterWrite(s)
           t == S!AfterRead(w)
<1>1. /\ b.len = Page /\ b.full = TRUE /\ b.kind \in {"READ", "WRITE"} /\ b.wait \in 0 .. 2 /\ b.stop \in 0 .. 2
      /\ Stepped(b) \in BurstRegs
  BY Cells DEF BurstRegs
<1>2. \A d \in BurstRegs : d # S!None
  BY DEF BurstRegs, S!None
<1>3. s.row = r /\ s.burst = b
  BY DEF S!Stage
<1>4. S!Beat(s) = S!Stage(r, Stepped(b))
  BY <1>1, <1>3 DEF S!Beat, Stepped
<1>5. \A k : S!Does(s, k) <=> b.kind = k
  BY <1>2, <1>3 DEF S!Does
<1>6. CASE b.kind = "WRITE"
  <2>1. w = S!Stage(r, Stepped(b))
    BY <1>4, <1>5, <1>6 DEF S!AfterWrite
  <2>2. w.burst = Stepped(b) /\ Stepped(b).kind = "WRITE"
    BY <1>6, <2>1 DEF S!Stage, Stepped, BurstRegs
  <2>3. ~ S!Does(w, "READ")
    BY <2>2 DEF S!Does
  <2>4. t = w
    BY <2>3 DEF S!AfterRead
  <2> QED BY <1>6, <2>1, <2>4
<1>7. CASE b.kind = "READ"
  <2>1. w = s
    BY <1>5, <1>7 DEF S!AfterWrite
  <2>2. S!Does(w, "READ")
    BY <1>5, <1>7, <2>1
  <2>3. CASE b.wait > 0
    <3>1. t = S!Stage(w.row, [w.burst EXCEPT !.wait = @ - 1])
      BY <1>1, <1>3, <2>1, <2>2, <2>3 DEF S!AfterRead
    <3> QED BY <1>1, <1>3, <1>7, <2>1, <2>3, <3>1
  <2>4. CASE b.wait = 0
    <3> DEFINE u == S!Beat(w)
    <3>1. u = S!Stage(r, Stepped(b)) /\ u.row = r /\ u.burst = Stepped(b) /\ u.burst # S!None
      BY <1>1, <1>2, <1>4, <2>1 DEF S!Stage
    <3>2. t = CASE u.burst = S!None \/ b.stop = 0 -> u
                [] u.burst # S!None /\ b.stop = 1 -> S!Stage(u.row, S!None)
                [] u.burst # S!None /\ b.stop > 1 -> S!Stage(u.row, [u.burst EXCEPT !.stop = @ - 1])
      <4>1. w.burst = b /\ ~ w.burst.wait > 0
        BY <1>3, <2>1, <2>4
      <4> QED BY <2>2, <2>4, <4>1 DEF S!AfterRead
    <3> HIDE DEF u
    <3>3. b.stop = 0 => t = u
      BY <1>1, <3>1, <3>2
    <3>4. b.stop = 1 => t = S!Stage(r, S!None)
      BY <1>1, <3>1, <3>2
    <3>5. b.stop = 2 => t = S!Stage(r, [Stepped(b) EXCEPT !.stop = @ - 1])
      BY <1>1, <3>1, <3>2
    <3>6. b.stop = 2 => [Stepped(b) EXCEPT !.stop = @ - 1] = [Stepped(b) EXCEPT !.stop = 1]
      <4>1. Stepped(b).stop = b.stop
        BY DEF Stepped, BurstRegs
      <4> QED BY <4>1
    <3> QED BY <1>7, <2>1, <2>4, <3>1, <3>3, <3>4, <3>5, <3>6
  <2> QED BY <1>1, <2>3, <2>4, <1>7
<1> QED BY <1>1, <1>6, <1>7

(* Without a burst the simulator does nothing in a beat.                   *)
LEMMA Rests ==
  ASSUME NEW r
  PROVE  LET s == S!Stage(r, S!None)
         IN S!AfterWrite(s) = s /\ S!AfterRead(s) = s
<1> DEFINE s == S!Stage(r, S!None)
<1>1. s.burst = S!None
  BY DEF S!Stage
<1>2. ~ S!Does(s, "READ") /\ ~ S!Does(s, "WRITE")
  BY <1>1 DEF S!Does
<1> QED BY <1>2 DEF S!AfterWrite, S!AfterRead

-----------------------------------------------------------------------------
(* What the command on the pins makes of the simulator's rows and burst.   *)
Started == [kind |-> Pins.op, ba |-> burst.ba, row |-> Row(burst.addr), col |-> Pins.a % Page,
            beat |-> 0, len |-> Page, wait |-> IF Pins.op = "READ" THEN 2 ELSE 0, stop |-> 0,
            full |-> TRUE, auto |-> FALSE]

(* The rows that are open after the command on the pins.                   *)
RowsThen == [b \in {BankA, BankB} |-> IF C!Precharges(Pins, b) THEN C!Nothing
                                      ELSE IF Pins.op = "ACTIVE" /\ Pins.ba = b THEN <<Pins.a>>
                                      ELSE chip.row[b]]

(* The burst of the simulator after it.                                    *)
BurstThen ==
  IF Pins.op \in {"ACTIVE", "PRECHARGE", "PRECHARGE_ALL"} THEN S!None
  ELSE IF Pins.op \in {"READ", "WRITE"} THEN Started
  ELSE IF Pins.op = "STOP"
       THEN IF sim.burst = S!None \/ sim.burst.kind = "WRITE" THEN S!None
            ELSE [sim.burst EXCEPT !.stop = 2]
  ELSE sim.burst

(* A burst whose delays change is a burst.                                 *)
LEMMA Retimed ==
  ASSUME NEW b \in BurstRegs, NEW n \in 0 .. 2
  PROVE  [b EXCEPT !.stop = n] \in BurstRegs /\ [b EXCEPT !.wait = n] \in BurstRegs
BY DEF BurstRegs

(* The mode has been loaded before the sequencer opens a row.              *)
LEMMA PagesLoaded ==
  ASSUME PathInv, burst.st \notin {"IDLE", "ACT"}
  PROVE  busy.fullpage
BY DEF PathInv, BusyInv, Untouched, ModeBusy, CtrlBusy, ModeSel

(* What a command does in the simulator, in the words of this module.      *)
LEMMA Commanded ==
  ASSUME PathInv, TandemInv
  PROVE  S!AfterCommand(Pins) = S!Stage(RowsThen, BurstThen)
<1> DEFINE Bs == {BankA, BankB}
<1>1. /\ sim.row = chip.row
      /\ sim.mode = IF busy.fullpage THEN BurstMode ELSE BootMode
      /\ sim.burst # S!None => (Reading \/ Storing \/ JustIdle \/ burst.st = "TRP1") /\ Shaped(sim.burst)
  BY DEF TandemInv, SimInv
<1>2. chip.row = [b \in Bs |-> IF Opened /\ b = burst.ba THEN <<Row(burst.addr)>> ELSE C!Nothing]
  BY DEF PathInv, RowInv
<1>3. sim.burst # S!None => sim.burst.auto = FALSE /\ sim.burst.kind \in {"READ", "WRITE"}
  BY <1>1 DEF Shaped, BurstRegs
<1>4. CASE Pins.op \in {"NOP", "REFRESH", "LOAD_MODE"}
  <2>1. S!AfterCommand(Pins) = S!Stage(sim.row, sim.burst)
    BY <1>4 DEF S!AfterCommand, S!Reads, S!Writes
  <2>2. RowsThen = chip.row
    BY <1>2, <1>4 DEF RowsThen, C!Precharges
  <2> QED BY <1>1, <1>4, <2>1, <2>2 DEF BurstThen
<1>5. CASE Pins.op = "ACTIVE"
  <2>1. S!AfterCommand(Pins) = S!Stage([sim.row EXCEPT ![Pins.ba] = <<Pins.a>>],
                                       S!Cut(S!Stage(sim.row, sim.burst), Pins.ba))
    BY <1>5 DEF S!AfterCommand, S!Reads, S!Writes
  <2>2. sim.burst = S!None
    BY <1>1, <1>5, OnPins DEF Reading, Storing, JustIdle
  <2>3. S!Cut(S!Stage(sim.row, sim.burst), Pins.ba) = S!None
    BY <2>2 DEF S!Cut, S!Stage
  <2>4. RowsThen = [sim.row EXCEPT ![Pins.ba] = <<Pins.a>>]
    BY <1>1, <1>2, <1>5 DEF RowsThen, C!Precharges
  <2> QED BY <1>5, <2>1, <2>3, <2>4 DEF BurstThen
<1>6. CASE Pins.op = "PRECHARGE"
  <2>1. S!AfterCommand(Pins) = S!Stage(S!Close(sim.row, Pins.ba),
                                       S!Cut(S!Stage(sim.row, sim.burst), Pins.ba))
    BY <1>6 DEF S!AfterCommand, S!Reads, S!Writes
  <2>2. Pins.ba = burst.ba
    BY <1>6, OnPins DEF Shows, Pins
  <2>3. S!Cut(S!Stage(sim.row, sim.burst), Pins.ba) = S!None
    BY <1>1, <2>2 DEF S!Cut, S!Stage, Shaped
  <2>4. RowsThen = S!Close(sim.row, Pins.ba)
    BY <1>1, <1>2, <1>6 DEF RowsThen, C!Precharges, S!Close, S!Nothing, C!Nothing
  <2> QED BY <1>6, <2>1, <2>3, <2>4 DEF BurstThen
<1>7. CASE Pins.op = "PRECHARGE_ALL"
  <2>1. S!AfterCommand(Pins) = S!Stage([b \in Bs |-> S!Nothing], S!None)
    BY <1>7 DEF S!AfterCommand, S!Reads, S!Writes
  <2>2. RowsThen = [b \in Bs |-> S!Nothing]
    BY <1>7 DEF RowsThen, C!Precharges, S!Nothing, C!Nothing
  <2> QED BY <1>7, <2>1, <2>2 DEF BurstThen
<1>8. CASE Pins.op \in {"READ", "WRITE"}
  <2>1. S!AfterCommand(Pins) = S!Stage(S!Terminate(S!Stage(sim.row, sim.burst)).row, S!Start(Pins))
    BY <1>8 DEF S!AfterCommand, S!Reads, S!Writes
  <2>2. S!Terminate(S!Stage(sim.row, sim.burst)).row = sim.row
    BY <1>3 DEF S!Terminate, S!Stage
  <2>3. RowsThen = chip.row
    BY <1>2, <1>8 DEF RowsThen, C!Precharges
  <2>4. /\ burst.st \in {"CL2", "WRITE", "STOP", "TWR1"} /\ Opened /\ Pins.ba = burst.ba
    BY <1>8, OnPins DEF Opened
  <2>5. sim.mode.full = TRUE /\ sim.mode.single = FALSE /\ sim.mode.len = Page /\ sim.mode.cas = 2
    BY <1>1, <2>4, PagesLoaded DEF BurstMode
  <2>6. burst.ba \in Bs
    BY <2>4 DEF PathInv, RowInv
  <2>7. sim.row[Pins.ba] = <<Row(burst.addr)>>
    BY <1>1, <1>2, <2>4, <2>6
  <2>8. S!RowOf(Pins.ba) = Row(burst.addr)
    BY <2>7 DEF S!RowOf, S!Nothing
  <2>9. S!Start(Pins) = Started
    BY <1>8, <2>4, <2>5, <2>8 DEF S!Start, Started, S!Reads, S!Writes, S!Auto
  <2> QED BY <1>1, <1>8, <2>1, <2>2, <2>3, <2>9 DEF BurstThen
<1>9. CASE Pins.op = "STOP"
  <2>1. S!AfterCommand(Pins) = S!Stopped(S!Stage(sim.row, sim.burst))
    BY <1>9 DEF S!AfterCommand, S!Reads, S!Writes
  <2>2. RowsThen = chip.row
    BY <1>2, <1>9 DEF RowsThen, C!Precharges
  <2>3. sim.mode.cas = 2
    BY <1>1 DEF BurstMode, BootMode
  <2>4. S!Stopped(S!Stage(sim.row, sim.burst)) =
          S!Stage(sim.row, IF sim.burst = S!None \/ sim.burst.kind = "WRITE" THEN S!None
                           ELSE [sim.burst EXCEPT !.stop = 2])
    <3>1. CASE sim.burst = S!None
      BY <3>1 DEF S!Stopped, S!Stage, S!Does
    <3>2. CASE sim.burst # S!None /\ sim.burst.kind = "WRITE"
      BY <1>3, <3>2 DEF S!Stopped, S!Stage, S!Does
    <3>3. CASE sim.burst # S!None /\ sim.burst.kind = "READ"
      BY <1>3, <2>3, <3>3 DEF S!Stopped, S!Stage, S!Does
    <3> QED BY <1>3, <3>1, <3>2, <3>3
  <2> QED BY <1>1, <1>9, <2>1, <2>2, <2>4 DEF BurstThen
<1> QED BY <1>4, <1>5, <1>6, <1>7, <1>8, <1>9, OnPins

-----------------------------------------------------------------------------
(* From one clock to the next.                                             *)
LEMMA Phases ==
  ASSUME PathInv, NEW p, Asks(p), NEW start, Moves(p, start)
  PROVE  /\ Reading' <=> (burst.st = "CL2" /\ Acking) \/ (Reading /\ burst.st # "PRE")
         /\ Storing' <=> burst.write /\ burst.st \in {"WRITE_CMD", "WRITE", "STOP", "TWR1"}
         /\ burst'.st = "TRP1" <=> burst.st = "PRE"
         /\ JustIdle' <=> burst.st = "TRP1"
         /\ burst.st # "IDLE" => burst'.ba = burst.ba /\ burst'.write = burst.write
                                 /\ Row(burst'.addr) = Row(burst.addr)
         /\ burst.st = "CL2" /\ Acking => (burst'.st = "CL2" /\ ~ Acking') \/ burst'.st = "RDATA"
<1>1. burst \in SeqRegs /\ CmdPipe /\ ReadPipe /\ (burst.st \in WriteStates => burst.write)
      /\ (burst.st \in ReadStates => ~ burst.write)
  BY DEF PathInv, SeqInv
<1>2. burst.st \in BurstStates /\ burst.write \in BOOLEAN
  BY <1>1 DEF SeqRegs
<1>3. io'.o = io.r /\ (Acking' <=> io.r.ack)
  BY PipeNext DEF Acking
<1>4. CASE CtrlBusy
  <2>1. burst' = burst /\ burst.st \in {"IDLE", "ACT"} /\ ~ JustIdle
    BY <1>4, Stays, Kept
  <2>2. ~ JustIdle'
    BY <1>4, <2>1, Stays, Kept DEF JustIdle
  <2> QED BY <2>1, <2>2 DEF Reading, Storing
<1>5. CASE ~ CtrlBusy
  <2>1. burst.st = "IDLE" => busy'.idle # 0 /\ burst'.st \in {"IDLE", "ACT"}
    BY <1>5, SeqMoves, Stays
  <2>2. CASE burst.st = "IDLE"
    BY <2>1, <2>2 DEF Reading, Storing, JustIdle
  <2>3. CASE burst.st # "IDLE"
    <3>1. /\ burst'.ba = burst.ba /\ burst'.write = burst.write /\ Row(burst'.addr) = Row(burst.addr)
          /\ busy'.idle = 0
      BY <1>5, <2>3, SeqMoves, Stays
    <3>2. burst.st = "CL1" => io.r.ack
      BY <1>1 DEF ReadPipe, Reads, Tells
    <3>3. burst.st = "CL2" => ~ io.r.ack
      BY <1>1 DEF ReadPipe, Empty, Silent, Tells
    <3>4. burst'.st = "TRP1" <=> burst.st = "PRE"
      BY <1>2, <1>5, <2>3, SeqMoves DEF BurstStates, After
    <3>5. JustIdle' <=> burst.st = "TRP1"
      BY <1>2, <1>5, <2>3, <3>1, SeqMoves DEF BurstStates, After, JustIdle
    <3>6. Storing' <=> burst.write /\ burst.st \in {"WRITE_CMD", "WRITE", "STOP", "TWR1"}
      BY <1>1, <1>2, <1>5, <2>3, <3>1, SeqMoves DEF BurstStates, After, Storing, WriteStates, ReadStates
    <3>7. burst.st = "CL2" /\ Acking => (burst'.st = "CL2" /\ ~ Acking') \/ burst'.st = "RDATA"
      BY <1>3, <1>5, <3>3, SeqMoves
    <3>8. burst.st = "CL2" /\ ~ Acking => burst'.st = "RDATA"
      BY <1>1, <1>5, SeqMoves DEF ReadPipe
    <3>9. Reading' <=> (burst.st = "CL2" /\ Acking) \/ (Reading /\ burst.st # "PRE")
      BY <1>1, <1>2, <1>3, <1>5, <2>3, <3>1, <3>2, <3>7, <3>8, SeqMoves
         DEF BurstStates, After, Reading, WriteStates, ReadStates
    <3> QED BY <3>1, <3>4, <3>5, <3>6, <3>7, <3>9
  <2> QED BY <2>2, <2>3
<1> QED BY <1>4, <1>5

(* What is on the pins in each phase of a burst.                           *)
LEMMA Issued ==
  ASSUME PathInv
  PROVE  /\ Reading => Pins.op = "NOP"
         /\ burst.st = "TRP1" => Pins.op = IF burst.write THEN "NOP" ELSE "STOP"
         /\ burst.st = "CL2" /\ Acking => Pins.op = "READ" /\ Pins.ba = burst.ba /\ Pins.a = burst.addr
         /\ Storing => Pins.op \in {"NOP", "WRITE", "STOP"} /\ (burst.st = "TWR2" => Pins.op = "STOP")
         /\ ~ Reading /\ ~ Storing /\ ~ JustIdle /\ burst.st # "TRP1" /\ ~ (burst.st = "CL2" /\ Acking) =>
              Pins.op \in {"NOP", "PRECHARGE_ALL", "REFRESH", "LOAD_MODE", "ACTIVE"}
<1>1. burst \in SeqRegs /\ CmdPipe /\ ReadPipe /\ WritePipe /\ (burst.st \in WriteStates => burst.write)
  BY DEF PathInv, SeqInv
<1>2. burst.st \in BurstStates /\ burst.write \in BOOLEAN
  BY <1>1 DEF SeqRegs
<1>3. Reading => Pins.op = "NOP"
  BY <1>1 DEF Reading, ReadPipe, Empty, Beats, Closes, Pins
<1>4. burst.st = "TRP1" => Pins.op = IF burst.write THEN "NOP" ELSE "STOP"
  BY <1>1 DEF CmdPipe, Pins
<1>5. burst.st = "CL2" /\ Acking => Pins.op = "READ" /\ Pins.ba = burst.ba /\ Pins.a = burst.addr
  BY <1>1 DEF ReadPipe, Reads, Shows, Pins
<1>6. Storing => Pins.op \in {"NOP", "WRITE", "STOP"} /\ (burst.st = "TWR2" => Pins.op = "STOP")
  BY <1>1 DEF Storing, WritePipe, Drive, Pins
<1>7. ~ Reading /\ ~ Storing /\ ~ JustIdle /\ burst.st # "TRP1" /\ ~ (burst.st = "CL2" /\ Acking) =>
        Pins.op \in {"NOP", "PRECHARGE_ALL", "REFRESH", "LOAD_MODE", "ACTIVE"}
  <2> HAVE ~ Reading /\ ~ Storing /\ ~ JustIdle /\ burst.st # "TRP1" /\ ~ (burst.st = "CL2" /\ Acking)
  <2>1. Pins.op # "READ" /\ Pins.op # "PRECHARGE"
    BY OnPins
  <2>2. Pins.op # "WRITE"
    BY OnPins DEF Storing
  <2>3. Pins.op # "STOP"
    BY <1>1, OnPins DEF Storing, WriteStates
  <2> QED BY <2>1, <2>2, <2>3, OnPins
<1> QED BY <1>3, <1>4, <1>5, <1>6, <1>7

(* The burst after the command is one of the controller's.                 *)
LEMMA ThenShaped ==
  ASSUME PathInv, TandemInv
  PROVE  BurstThen # S!None => Shaped(BurstThen)
<1>1. sim.burst # S!None => Shaped(sim.burst)
  BY DEF TandemInv, SimInv
<1>2. CASE Pins.op \in {"READ", "WRITE"}
  <2>1. burst \in SeqRegs /\ burst.write \in BOOLEAN /\ burst.ba \in Nat /\ burst.addr \in Nat
    BY DEF PathInv, SeqInv, SeqRegs
  <2>2. Pins.a \in Nat /\ Page \in Nat \ {0}
    BY <1>2, OnPins, PageAssumption DEF InRow, Pins
  <2>3. Row(burst.addr) \in Nat /\ Pins.a % Page \in 0 .. Page - 1 /\ 0 \in 0 .. Page - 1
    <3>1. \A P \in Nat \ {0} : \A a \in Nat : a \div P \in Nat /\ a % P \in 0 .. P - 1
      BY Division
    <3>2. Row(burst.addr) \in Nat
      BY <2>1, <2>2, <3>1 DEF Row
    <3>3. Pins.a % Page \in 0 .. Page - 1
      BY <2>2, <3>1
    <3>4. 0 \in 0 .. Page - 1
      BY <2>2
    <3> QED BY <3>2, <3>3, <3>4
  <2>4. BurstThen = Started
    BY <1>2 DEF BurstThen
  <2>5. (burst.write => Pins.op = "WRITE") /\ (~ burst.write => Pins.op = "READ")
    <3>1. burst.st = "CL2" => ~ burst.write
      BY DEF PathInv, SeqInv, ReadStates
    <3> QED BY <1>2, <3>1, OnPins
  <2> QED BY <1>2, <2>1, <2>3, <2>4, <2>5 DEF Shaped, Started, BurstRegs
<1>3. CASE Pins.op = "STOP"
  <2>1. CASE sim.burst = S!None \/ sim.burst.kind = "WRITE"
    BY <1>3, <2>1 DEF BurstThen
  <2>2. CASE ~ (sim.burst = S!None \/ sim.burst.kind = "WRITE")
    <3>1. BurstThen = [sim.burst EXCEPT !.stop = 2] /\ Shaped(sim.burst)
      BY <1>1, <1>3, <2>2 DEF BurstThen
    <3>2. BurstThen \in BurstRegs
      <4>1. sim.burst \in BurstRegs
        BY <3>1 DEF Shaped
      <4>2. 2 \in 0 .. 2
        OBVIOUS
      <4> QED BY <3>1, <4>1, <4>2, Retimed
    <3>3. BurstThen.kind = sim.burst.kind /\ BurstThen.ba = sim.burst.ba /\ BurstThen.row = sim.burst.row
      BY <3>1 DEF Shaped, BurstRegs
    <3> QED BY <3>1, <3>2, <3>3 DEF Shaped
  <2> QED BY <2>1, <2>2
<1>4. CASE Pins.op \notin {"READ", "WRITE", "STOP"}
  BY <1>1, <1>4 DEF BurstThen
<1> QED BY <1>2, <1>3, <1>4

(* A burst starts at the cell of its command.                              *)
LEMMA StartsThere ==
  ASSUME PathInv, TandemInv, Pins.op \in {"READ", "WRITE"}
  PROVE  Started \in BurstRegs /\ S!CellOf(Started) = <<Pins.ba, Pins.a>>
<1>1. BurstThen = Started
  BY DEF BurstThen
<1>2. Started # S!None
  BY DEF Started, S!None
<1>3. Started \in BurstRegs
  BY <1>1, <1>2, ThenShaped DEF Shaped
<1>4. Pins.ba = burst.ba /\ Pins.a \in Nat /\ Row(Pins.a) = Row(burst.addr) /\ Page \in Nat \ {0}
  BY OnPins, PageAssumption DEF InRow, Pins
<1>5. S!CellOf(Started) = <<burst.ba, Row(burst.addr) * Page + (((Pins.a % Page) + 0) % Page)>>
  BY <1>3, Cells DEF Started
<1>6. \A P \in Nat \ {0} : \A a \in Nat :
        (a \div P) * P + (((a % P) + 0) % P) = a
  <2> TAKE P \in Nat \ {0}
  <2> TAKE a \in Nat
  <2>1. a = ((a \div P) * P) + (a % P) /\ a % P \in 0 .. P - 1
    BY Division
  <2> DEFINE r == a % P
  <2>2. r \in Nat /\ r < P
    BY <2>1
  <2> HIDE DEF r
  <2>3. (r + 0) % P = r
    BY <2>2, Wrap
  <2> QED BY <2>1, <2>3 DEF r
<1>7. Row(burst.addr) * Page + (((Pins.a % Page) + 0) % Page) = Pins.a
  BY <1>4, <1>6 DEF Row
<1> QED BY <1>3, <1>4, <1>5, <1>7

(* One clock of the simulator's SDRAM.                                     *)
LEMMA SimNext ==
  ASSUME PathInv, TandemInv, NEW p, NEW start, Both(p, start)
  PROVE  /\ sim'.row = chip'.row
         /\ sim'.mode = IF Pins.op = "LOAD_MODE" THEN BurstMode ELSE sim.mode
         /\ sim'.dqm = <<sim.dqm[2], Pins.op = "ACTIVE">>
         /\ BurstThen = S!None => sim'.burst = S!None
         /\ BurstThen # S!None =>
              /\ BurstThen.kind = "WRITE" => sim'.burst = Stepped(BurstThen)
              /\ BurstThen.kind = "READ" /\ BurstThen.wait > 0 =>
                   sim'.burst = [BurstThen EXCEPT !.wait = BurstThen.wait - 1]
              /\ BurstThen.kind = "READ" /\ BurstThen.wait = 0 /\ BurstThen.stop = 0 =>
                   sim'.burst = Stepped(BurstThen)
              /\ BurstThen.kind = "READ" /\ BurstThen.wait = 0 /\ BurstThen.stop = 1 =>
                   sim'.burst = S!None
              /\ BurstThen.kind = "READ" /\ BurstThen.wait = 0 /\ BurstThen.stop = 2 =>
                   sim'.burst = [Stepped(BurstThen) EXCEPT !.stop = 1]
         /\ seen' = IF BurstThen # S!None /\ BurstThen.kind = "READ" /\ BurstThen.wait = 0 /\ ~ sim.dqm[1]
                    THEN S!CellOf(BurstThen) ELSE S!Nothing
         /\ S!SimStores(Pins) = IF BurstThen # S!None /\ BurstThen.kind = "WRITE"
                                THEN S!CellOf(BurstThen) ELSE S!Nothing
<1> DEFINE s == S!Stage(RowsThen, BurstThen)
           w == S!AfterWrite(s)
           t == S!AfterRead(w)
<1>1. S!AfterCommand(Pins) = s
  BY Commanded
<1>2. /\ sim' = [row |-> t.row, burst |-> t.burst,
                 mode |-> IF Pins.op = "LOAD_MODE" THEN BurstMode ELSE sim.mode,
                 dqm |-> <<sim.dqm[2], Pins.op = "ACTIVE">>]
      /\ seen' = IF S!Does(w, "READ") /\ w.burst.wait = 0 /\ ~ sim.dqm[1] THEN S!CellOf(w.burst) ELSE S!Nothing
  BY <1>1 DEF Both, Simulate, S!SimStep, S!SimOut
<1>3. S!SimStores(Pins) = IF S!Does(s, "WRITE") THEN S!CellOf(s.burst) ELSE S!Nothing
  BY <1>1 DEF S!SimStores
<1>4. chip'.row = RowsThen
  BY DEF Both, Moves, C!ChipStep, RowsThen, C!Nothing
<1>5. s.row = RowsThen /\ s.burst = BurstThen
  BY DEF S!Stage
<1>6. \A r, b : S!Stage(r, b).row = r /\ S!Stage(r, b).burst = b
  BY DEF S!Stage
<1>7. CASE BurstThen = S!None
  <2>1. w = s /\ t = s
    BY <1>7, Rests
  <2>2. ~ S!Does(w, "READ") /\ ~ S!Does(s, "WRITE")
    BY <1>5, <1>7, <2>1 DEF S!Does
  <2> HIDE DEF s, w, t
  <2> QED BY <1>2, <1>3, <1>4, <1>5, <1>7, <2>1, <2>2
<1>8. CASE BurstThen # S!None
  <2>1. BurstThen \in BurstRegs /\ BurstThen.wait \in 0 .. 2 /\ BurstThen.stop \in 0 .. 2
        /\ BurstThen.kind \in {"READ", "WRITE"}
    BY <1>8, ThenShaped DEF Shaped, BurstRegs
  <2>2. /\ BurstThen.kind = "WRITE" => t = S!Stage(RowsThen, Stepped(BurstThen))
        /\ BurstThen.kind = "READ" => w = s
        /\ BurstThen.kind = "READ" /\ BurstThen.wait > 0 =>
             t = S!Stage(RowsThen, [BurstThen EXCEPT !.wait = BurstThen.wait - 1])
        /\ BurstThen.kind = "READ" /\ BurstThen.wait = 0 /\ BurstThen.stop = 0 =>
             t = S!Stage(RowsThen, Stepped(BurstThen))
        /\ BurstThen.kind = "READ" /\ BurstThen.wait = 0 /\ BurstThen.stop = 1 =>
             t = S!Stage(RowsThen, S!None)
        /\ BurstThen.kind = "READ" /\ BurstThen.wait = 0 /\ BurstThen.stop = 2 =>
             t = S!Stage(RowsThen, [Stepped(BurstThen) EXCEPT !.stop = 1])
    BY <2>1, NextBeat
  <2>3. BurstThen.kind = "WRITE" => ~ S!Does(w, "READ")
    <3> HAVE BurstThen.kind = "WRITE"
    <3>1. S!Does(s, "WRITE") /\ ~ (~ BurstThen.full /\ BurstThen.beat + 1 >= BurstThen.len)
      BY <1>5, <1>8, <2>1 DEF S!Does, BurstRegs
    <3>2. w.burst.kind = "WRITE"
      BY <1>5, <2>1, <3>1 DEF S!AfterWrite, S!Beat, S!Stage, BurstRegs
    <3> QED BY <3>2 DEF S!Does
  <2>4. S!Does(s, "WRITE") <=> BurstThen.kind = "WRITE"
    BY <1>5, <1>8 DEF S!Does
  <2>5. w = s => (S!Does(w, "READ") <=> BurstThen.kind = "READ") /\ w.burst = BurstThen
    BY <1>5, <1>8 DEF S!Does
  <2> HIDE DEF s, w, t
  <2>6. /\ BurstThen.kind = "WRITE" => t.row = RowsThen /\ t.burst = Stepped(BurstThen)
        /\ BurstThen.kind = "READ" /\ BurstThen.wait > 0 =>
             t.row = RowsThen /\ t.burst = [BurstThen EXCEPT !.wait = BurstThen.wait - 1]
        /\ BurstThen.kind = "READ" /\ BurstThen.wait = 0 /\ BurstThen.stop = 0 =>
             t.row = RowsThen /\ t.burst = Stepped(BurstThen)
        /\ BurstThen.kind = "READ" /\ BurstThen.wait = 0 /\ BurstThen.stop = 1 =>
             t.row = RowsThen /\ t.burst = S!None
        /\ BurstThen.kind = "READ" /\ BurstThen.wait = 0 /\ BurstThen.stop = 2 =>
             t.row = RowsThen /\ t.burst = [Stepped(BurstThen) EXCEPT !.stop = 1]
    BY <1>6, <2>2
  <2>7. t.row = RowsThen
    BY <2>1, <2>6
  <2>8. sim'.row = t.row /\ sim'.burst = t.burst
    BY <1>2
  <2>9. seen' = IF BurstThen.kind = "READ" /\ BurstThen.wait = 0 /\ ~ sim.dqm[1]
                THEN S!CellOf(BurstThen) ELSE S!Nothing
    BY <1>2, <2>1, <2>2, <2>3, <2>5
  <2>10. S!SimStores(Pins) = IF BurstThen.kind = "WRITE" THEN S!CellOf(BurstThen) ELSE S!Nothing
    BY <1>3, <1>5, <2>4
  <2> QED BY <1>2, <1>4, <1>8, <2>6, <2>7, <2>8, <2>9, <2>10
<1> QED BY <1>7, <1>8

(* What the chip does with the half-words, in the words of the simulator.  *)
LEMMA ChipNext ==
  ASSUME PathInv, TandemInv, NEW p, NEW start, Both(p, start)
  PROVE  /\ chip'.next = (IF Pins.op = "READ" THEN "READ"
                          ELSE IF Pins.op \in {"STOP", "PRECHARGE", "PRECHARGE_ALL"} THEN "STOP" ELSE "NOP")
         /\ chip'.at = IF Pins.op = "READ" THEN <<Pins.ba, Pins.a>> ELSE C!Nothing
         /\ chip'.out = IF Pins.op = "WRITE" \/ chip.next = "STOP" THEN C!Nothing
                        ELSE IF chip.next = "READ" THEN chip.at ELSE C!NextColumn(chip.out)
         /\ chip'.in = IF Pins.op = "READ" THEN C!Nothing ELSE C!NextColumn(C!Storing(Pins))
         /\ C!Storing(Pins) = IF Pins.op = "WRITE" THEN <<Pins.ba, Pins.a>>
                              ELSE IF Pins.op = "NOP" THEN chip.in ELSE C!Nothing
<1>1. chip.next \in {"NOP", "READ", "STOP"}
  BY DEF TandemInv, OutInv
<1>2. C!ReadOut = IF chip.next = "STOP" THEN C!Nothing
                  ELSE IF chip.next = "READ" THEN chip.at ELSE C!NextColumn(chip.out)
  BY <1>1 DEF C!ReadOut
<1>3. /\ chip'.at = IF Pins.op = "READ" THEN <<Pins.ba, Pins.a>> ELSE C!Nothing
      /\ chip'.out = IF Pins.op = "WRITE" THEN C!Nothing ELSE C!ReadOut
      /\ chip'.in = IF Pins.op = "READ" THEN C!Nothing ELSE C!NextColumn(C!Storing(Pins))
  BY DEF Both, Moves, C!ChipStep
<1>4. chip'.next = CASE Pins.op = "READ" -> "READ"
                     [] Pins.op \in {"STOP", "PRECHARGE", "PRECHARGE_ALL"} -> "STOP"
                     [] OTHER -> "NOP"
  BY DEF Both, Moves, C!ChipStep
<1>5. C!Storing(Pins) = IF Pins.op = "WRITE" THEN <<Pins.ba, Pins.a>>
                        ELSE IF Pins.op = "NOP" THEN chip.in ELSE C!Nothing
  BY DEF C!Storing
<1> QED BY <1>2, <1>3, <1>4, <1>5

(* The chip stores what the simulator stores, in the same clock.           *)
LEMMA StoresAlike ==
  ASSUME PathInv, TandemInv
  PROVE  /\ C!Storing(Pins) = IF BurstThen # S!None /\ BurstThen.kind = "WRITE"
                              THEN S!CellOf(BurstThen) ELSE C!Nothing
         /\ BurstThen # S!None /\ BurstThen.kind = "WRITE" => Storing
<1>1. chip.in = IF sim.burst # S!None /\ sim.burst.kind = "WRITE" THEN S!CellOf(sim.burst) ELSE C!Nothing
  BY DEF TandemInv, StoreInv
<1>2. chip.in # C!Nothing => Storing
  BY Ages
<1>3. sim.burst # S!None => sim.burst \in BurstRegs
  BY DEF TandemInv, SimInv, Shaped
<1>4. Reading => Pins.op = "NOP"
  BY Issued
<1>5. CASE Pins.op \in {"NOP", "REFRESH", "LOAD_MODE"}
  <2>1. BurstThen = sim.burst
    BY <1>5 DEF BurstThen
  <2>2. sim.burst # S!None /\ sim.burst.kind = "WRITE" => Storing
    BY <1>1, <1>2, <1>3, Cells
  <2>3. Storing => Pins.op = "NOP"
    BY <1>5, Issued
  <2> QED BY <1>1, <1>5, <2>1, <2>2, <2>3 DEF C!Storing
<1>6. CASE Pins.op \in {"ACTIVE", "PRECHARGE", "PRECHARGE_ALL"}
  BY <1>6 DEF BurstThen, C!Storing
<1>7. CASE Pins.op = "STOP"
  <2>1. C!Storing(Pins) = C!Nothing
    BY <1>7 DEF C!Storing
  <2>2. BurstThen # S!None => BurstThen.kind # "WRITE"
    BY <1>3, <1>7 DEF BurstThen, BurstRegs
  <2> QED BY <2>1, <2>2
<1>8. CASE Pins.op = "READ"
  BY <1>8 DEF BurstThen, Started, C!Storing
<1>9. CASE Pins.op = "WRITE"
  <2>1. BurstThen = Started /\ BurstThen.kind = "WRITE" /\ BurstThen # S!None
    BY <1>9 DEF BurstThen, Started, S!None
  <2>2. S!CellOf(Started) = <<Pins.ba, Pins.a>>
    BY <1>9, <2>1, StartsThere
  <2> QED BY <1>9, <2>1, <2>2, OnPins DEF Storing, C!Storing
<1> QED BY <1>5, <1>6, <1>7, <1>8, <1>9, OnPins

-----------------------------------------------------------------------------
(* The tandem, one phase of the sequencer at a time.                       *)
LEMMA LoadKept ==
  ASSUME PathInv, TandemInv, NEW p, Asks(p), NEW start, Both(p, start)
  PROVE  LoadInv'
<1>1. RefreshInv /\ BusyInv /\ SdramStep(p, start, chip.out) /\ Moves(p, start)
  BY DEF Both, PathInv, Moves
<1>2. busy.mode \in Modes
  BY <1>1 DEF BusyInv
<1>3. /\ ModeBusy => busy'.mode = ModeAfter[busy.mode]
      /\ ~ ModeBusy => busy'.mode = IF ModeStarts THEN "PRE" ELSE "IDLE"
  BY <1>1, BusyNext
<1>4. /\ busy'.mode = "WAIT1" => busy.mode = "CMD"
      /\ busy'.mode = "WAIT2" => busy.mode = "WAIT1"
  BY <1>2, <1>3 DEF Modes, ModeAfter, ModeBusy
<1>5. busy.mode = "CMD" => io'.r.cmd.op = "LOAD_MODE"
  <2> HAVE busy.mode = "CMD"
  <2>1. ~ InitSel /\ CtrlBusy
    BY <1>1 DEF BusyInv, InitSel, CtrlBusy, ModeSel, ModeBusy
  <2> QED BY <1>1, <2>1, SentIdle, PipeNext
<1>6. busy.mode = "WAIT1" => io'.o.cmd.op = "LOAD_MODE"
  BY <1>1, PipeNext DEF TandemInv, LoadInv
<1> QED BY <1>4, <1>5, <1>6 DEF LoadInv

(* The rows, the mode and the mask.                                        *)
LEMMA RestKept ==
  ASSUME PathInv, TandemInv, NEW p, Asks(p), NEW start, Both(p, start)
  PROVE  /\ sim'.row = chip'.row
         /\ sim'.mode = IF busy'.fullpage THEN BurstMode ELSE BootMode
         /\ sim'.dqm[1] => burst'.st \in {"CL1", "WDATA"}
         /\ sim'.dqm[2] => burst'.st \in {"READ_CMD", "WACK"}
<1>1. RefreshInv /\ BusyInv /\ ControlPipe /\ SdramStep(p, start, chip.out) /\ Moves(p, start)
  BY DEF Both, PathInv, Moves
<1>2. sim'.mode = IF busy'.fullpage THEN BurstMode ELSE BootMode
  <2>1. busy'.fullpage = (busy.fullpage \/ busy.mode = "WAIT2") /\ busy.fullpage \in BOOLEAN
    BY <1>1, BusyNext DEF BusyInv
  <2>2. Pins.op = "LOAD_MODE" <=> busy.mode = "WAIT2"
    BY <1>1 DEF ControlPipe, TandemInv, LoadInv, Pins
  <2>3. sim.mode = IF busy.fullpage THEN BurstMode ELSE BootMode
    BY DEF TandemInv, SimInv
  <2> QED BY <2>1, <2>2, <2>3, SimNext
<1>3. sim'.dqm[1] = sim.dqm[2] /\ (sim'.dqm[2] <=> Pins.op = "ACTIVE")
  <2>1. PICK m \in BOOLEAN : m <=> Pins.op = "ACTIVE"
    OBVIOUS
  <2>2. sim'.dqm = <<sim.dqm[2], m>>
    <3>1. sim'.dqm = <<sim.dqm[2], Pins.op = "ACTIVE">>
      BY SimNext
    <3>2. m = (Pins.op = "ACTIVE")
      BY <2>1
    <3> QED BY <3>1, <3>2
  <2> QED BY <2>1, <2>2
<1>4. burst.st \in {"READ_CMD", "WACK"} => burst'.st \in {"CL1", "WDATA"}
  BY <1>1, SeqMoves, Kept
<1>5. burst.st = "TRCD2" => burst'.st \in {"READ_CMD", "WACK"}
  BY <1>1, SeqMoves, Kept
<1>6. sim.dqm[2] => burst.st \in {"READ_CMD", "WACK"}
  BY DEF TandemInv, SimInv
<1> QED BY <1>2, <1>3, <1>4, <1>5, <1>6, SimNext, OnPins

(* What the parts of the invariant say of this clock.                      *)
LEMMA TandemNow ==
  ASSUME PathInv, TandemInv
  PROVE  /\ sim.burst # S!None =>
              /\ Reading \/ Storing \/ JustIdle \/ burst.st = "TRP1"
              /\ Shaped(sim.burst) /\ sim.burst \in BurstRegs
              /\ sim.burst.kind = IF burst.write THEN "WRITE" ELSE "READ"
         /\ sim.dqm[1] => burst.st \in {"CL1", "WDATA"}
         /\ chip.in = IF sim.burst # S!None /\ sim.burst.kind = "WRITE" THEN S!CellOf(sim.burst) ELSE C!Nothing
         /\ chip.next \in {"NOP", "READ", "STOP"}
         /\ chip.next = "READ" => Reading /\ burst.st # "PRE"
         /\ Reading => ~ burst.write
         /\ Storing => burst.write
         /\ burst.write \in BOOLEAN
         /\ ~ Reading /\ (burst.st = "TRP1" => burst.write) =>
              (JustIdle /\ chip.next = "STOP") \/ chip.out = C!Nothing
         /\ Reading => burst.st \in {"CL2", "RDATA", "STOP", "PRE"}
         /\ Storing => burst.st \in {"WRITE", "STOP", "TWR1", "TWR2"}
<1>1. Reading => ~ burst.write
  BY DEF PathInv, SeqInv, Reading, ReadStates
<1>2. burst.write \in BOOLEAN
  BY DEF PathInv, SeqInv, SeqRegs
<1>3. chip.next = "READ" => Reading /\ burst.st # "PRE"
  BY DEF TandemInv, OutInv, Reading
<1> QED BY <1>1, <1>2, <1>3 DEF TandemInv, SimInv, StoreInv, OutInv, Shaped, Reading, Storing

(* A clock in which nothing is read or written.                            *)
LEMMA QuietKept ==
  ASSUME PathInv, TandemInv, NEW p, Asks(p), NEW start, Both(p, start),
         ~ Reading, ~ Storing, burst.st = "TRP1" => burst.write, ~ (burst.st = "CL2" /\ Acking)
  PROVE  /\ sim'.burst = S!None
         /\ StoreInv' /\ OutInv'
<1>1. Moves(p, start)
  BY DEF Both
<1>2. Pins.op \in {"NOP", "PRECHARGE_ALL", "REFRESH", "LOAD_MODE", "ACTIVE", "PRECHARGE"}
      /\ (JustIdle => Pins.op = "PRECHARGE")
  BY Issued, OnPins DEF Shows, Pins
<1>3. ~ Reading' /\ (JustIdle' => burst.st = "TRP1")
  BY <1>1, Phases
<1>4. chip.next # "READ"
  BY TandemNow
<1>5. chip.in = C!Nothing
  BY Ages
<1>6. BurstThen = S!None
  <2>1. ~ JustIdle => sim.burst = S!None
    BY <1>5, TandemNow, Cells
  <2> QED BY <1>2, <2>1 DEF BurstThen
<1>7. sim'.burst = S!None
  BY <1>6, SimNext
<1>8. C!Storing(Pins) = C!Nothing
  BY <1>6, StoresAlike
<1>9. chip'.in = C!Nothing
  BY <1>8, ChipNext DEF C!NextColumn
<1>10. chip'.out = C!Nothing
  <2>1. chip.next = "STOP" \/ chip.out = C!Nothing
    BY TandemNow
  <2> QED BY <1>4, <2>1, ChipNext DEF C!NextColumn
<1>11. chip'.next \in {"NOP", "STOP"}
  BY <1>2, ChipNext
<1> QED BY <1>3, <1>7, <1>9, <1>10, <1>11 DEF StoreInv, OutInv

(* The READ command.                                                       *)
LEMMA ReadKept ==
  ASSUME PathInv, TandemInv, NEW p, Asks(p), NEW start, Both(p, start),
         burst.st = "CL2", Acking
  PROVE  /\ sim'.burst # S!None => (Reading \/ Storing \/ JustIdle \/ burst.st = "TRP1")' /\ Shaped(sim.burst)'
         /\ StoreInv' /\ OutInv'
<1>1. Moves(p, start)
  BY DEF Both
<1>2. Pins.op = "READ" /\ Pins.ba = burst.ba /\ Pins.a = burst.addr
  BY Issued
<1>3. ~ Reading /\ ~ JustIdle /\ ~ burst.write /\ Reading'
  BY <1>1, Phases DEF Reading, JustIdle, PathInv, SeqInv, ReadStates
<1>4. burst'.ba = burst.ba /\ burst'.write = burst.write /\ Row(burst'.addr) = Row(burst.addr)
      /\ ((burst'.st = "CL2" /\ ~ Acking') \/ burst'.st = "RDATA")
  BY <1>1, Phases
<1>5. BurstThen = Started /\ Started \in BurstRegs /\ S!CellOf(Started) = <<Pins.ba, Pins.a>>
      /\ Started.kind = "READ" /\ Started.wait = 2 /\ Started.stop = 0 /\ Started.beat = 0
      /\ Started.ba = burst.ba /\ Started.row = Row(burst.addr)
  BY <1>2, StartsThere DEF BurstThen, Started
<1>6. BurstThen # S!None
  BY <1>5 DEF S!None
<1> DEFINE b == [Started EXCEPT !.wait = 1]
<1>7. sim'.burst = b
  <2>1. sim'.burst = [Started EXCEPT !.wait = 2 - 1]
    BY <1>5, <1>6, SimNext
  <2> QED BY <2>1
<1>8. b \in BurstRegs /\ b.kind = "READ" /\ b.wait = 1 /\ b.stop = 0 /\ b.beat = 0
      /\ b.ba = burst.ba /\ b.row = Row(burst.addr) /\ b.col = Started.col
  <2>1. 1 \in 0 .. 2
    OBVIOUS
  <2>2. b \in BurstRegs
    BY <1>5, <2>1, Retimed
  <2> QED BY <1>5, <2>2 DEF BurstRegs
<1>9. S!CellOf(b) = <<Pins.ba, Pins.a>> /\ b # S!None
  <2> HIDE DEF b
  <2>1. \A c, d \in BurstRegs : c.ba = d.ba /\ c.row = d.row /\ c.col = d.col /\ c.beat = d.beat =>
          S!CellOf(c) = S!CellOf(d)
    BY Cells
  <2>2. S!CellOf(b) = S!CellOf(Started)
    BY <1>5, <1>8, <2>1
  <2> QED BY <1>5, <1>8, <2>2 DEF S!None
<1> HIDE DEF b
<1>10. /\ chip'.next = "READ" /\ chip'.at = <<Pins.ba, Pins.a>> /\ chip'.in = C!Nothing
  BY <1>2, ChipNext
<1>11. chip'.out = C!Nothing
  <2>1. chip.next # "READ" /\ chip.out = C!Nothing
    BY <1>3, TandemNow
  <2> QED BY <1>2, <2>1, ChipNext DEF C!NextColumn
<1>12. Shaped(sim.burst)'
  BY <1>3, <1>4, <1>7, <1>8 DEF Shaped, BurstRegs, Row
<1>13. StoreInv'
  BY <1>7, <1>8, <1>10 DEF StoreInv
<1>14. OutInv'
  BY <1>3, <1>4, <1>7, <1>8, <1>9, <1>10, <1>11 DEF OutInv
<1> QED BY <1>3, <1>12, <1>13, <1>14

(* A beat of a read.                                                       *)
LEMMA ReadingKept ==
  ASSUME PathInv, TandemInv, NEW p, Asks(p), NEW start, Both(p, start), Reading
  PROVE  /\ sim'.burst # S!None => (Reading \/ Storing \/ JustIdle \/ burst.st = "TRP1")' /\ Shaped(sim.burst)'
         /\ StoreInv' /\ OutInv'
<1> DEFINE b == sim.burst
<1>1. Moves(p, start) /\ Pins.op = "NOP"
  BY Issued DEF Both
<1>2. burst'.ba = burst.ba /\ burst'.write = burst.write /\ Row(burst'.addr) = Row(burst.addr)
      /\ (Reading' <=> burst.st # "PRE") /\ (burst'.st = "TRP1" <=> burst.st = "PRE")
      /\ ~ JustIdle'
  BY <1>1, TandemNow, Phases DEF Reading
<1>3. /\ b # S!None /\ b \in BurstRegs /\ b.kind = "READ" /\ Shaped(b) /\ ~ burst.write
      /\ b.stop = 0 /\ chip.next # "STOP" /\ ~ sim.dqm[1]
      /\ chip.next = "READ" => b.wait = 1 /\ b.beat = 0 /\ chip.at = S!CellOf(b) /\ chip.out = C!Nothing
      /\ chip.next # "READ" => b.wait = 0 /\ chip.out = S!CellOf(b)
  BY TandemNow DEF TandemInv, OutInv, Reading
<1>4. BurstThen = b
  BY <1>1 DEF BurstThen
<1>5. /\ chip'.next = "NOP"
      /\ chip'.out = IF chip.next = "READ" THEN chip.at ELSE C!NextColumn(chip.out)
      /\ chip'.in = C!Nothing /\ io'.dout = chip.out
  <2>1. chip.in = C!Nothing
    BY <1>3, TandemNow
  <2> QED BY <1>1, <1>3, <2>1, ChipNext, PipeNext DEF C!NextColumn
<1>6. /\ sim'.burst \in BurstRegs /\ sim'.burst # S!None /\ sim'.burst.kind = "READ"
      /\ sim'.burst.ba = b.ba /\ sim'.burst.row = b.row /\ sim'.burst.stop = 0 /\ sim'.burst.wait = 0
      /\ chip'.out = S!CellOf(sim'.burst) /\ seen' = io'.dout
  <2>1. CASE chip.next = "READ"
    <3> DEFINE c == [b EXCEPT !.wait = 0]
    <3>1. sim'.burst = c
      <4>1. sim'.burst = [b EXCEPT !.wait = 1 - 1]
        BY <1>3, <1>4, <2>1, SimNext
      <4> QED BY <4>1
    <3>2. /\ c \in BurstRegs /\ c.ba = b.ba /\ c.row = b.row /\ c.col = b.col /\ c.beat = b.beat
          /\ c.kind = "READ" /\ c.stop = 0 /\ c.wait = 0
      <4>1. 0 \in 0 .. 2
        OBVIOUS
      <4>2. c \in BurstRegs
        BY <1>3, <4>1, Retimed
      <4> QED BY <1>3, <4>2 DEF BurstRegs
    <3> HIDE DEF c
    <3>3. S!CellOf(c) = S!CellOf(b) /\ c # S!None
      BY <1>3, <3>2, Cells DEF S!None
    <3>4. seen' = S!Nothing
      BY <1>3, <1>4, <2>1, SimNext
    <3> QED BY <1>3, <1>5, <2>1, <3>1, <3>2, <3>3, <3>4 DEF S!Nothing, C!Nothing
  <2>2. CASE chip.next # "READ"
    <3>1. sim'.burst = Stepped(b)
      BY <1>3, <1>4, <2>2, SimNext
    <3>2. Stepped(b) \in BurstRegs /\ C!NextColumn(S!CellOf(b)) = S!CellOf(Stepped(b))
      BY <1>3, Cells
    <3>3. Stepped(b).kind = "READ" /\ Stepped(b).ba = b.ba /\ Stepped(b).row = b.row
          /\ Stepped(b).stop = 0 /\ Stepped(b).wait = 0 /\ Stepped(b) # S!None
      BY <1>3, <2>2 DEF Stepped, BurstRegs, S!None
    <3>4. seen' = S!CellOf(b)
      BY <1>3, <1>4, <2>2, SimNext
    <3> QED BY <1>3, <1>5, <2>2, <3>1, <3>2, <3>3, <3>4
  <2> QED BY <2>1, <2>2
<1>7. Shaped(sim.burst)'
  BY <1>2, <1>3, <1>6 DEF Shaped, BurstRegs, Row
<1>8. (Reading \/ burst.st = "TRP1")'
  BY <1>2
<1>9. StoreInv'
  BY <1>5, <1>6 DEF StoreInv
<1>10. OutInv'
  <2>1. CASE burst.st # "PRE"
    BY <1>2, <1>5, <1>6, <2>1 DEF OutInv
  <2>2. CASE burst.st = "PRE"
    BY <1>2, <1>3, <1>5, <1>6, <2>2 DEF OutInv
  <2> QED BY <2>1, <2>2
<1> QED BY <1>7, <1>8, <1>9, <1>10

(* The chip's burst ends with the STOP, the simulator's a beat or two on.  *)
LEMMA StoppedKept ==
  ASSUME PathInv, TandemInv, NEW p, Asks(p), NEW start, Both(p, start),
         burst.st = "TRP1", ~ burst.write
  PROVE  /\ sim'.burst # S!None => (Reading \/ Storing \/ JustIdle \/ burst.st = "TRP1")' /\ Shaped(sim.burst)'
         /\ StoreInv' /\ OutInv'
<1>1. Moves(p, start) /\ Pins.op = "STOP"
  BY Issued DEF Both
<1>2. /\ burst'.ba = burst.ba /\ burst'.write = burst.write /\ Row(burst'.addr) = Row(burst.addr)
      /\ ~ Reading' /\ burst'.st # "TRP1" /\ JustIdle'
  BY <1>1, Phases DEF Reading
<1>3. sim.burst # S!None => sim.burst \in BurstRegs /\ sim.burst.kind = "READ" /\ Shaped(sim.burst)
  BY TandemNow
<1>4. chip'.next = "STOP" /\ chip'.in = C!Nothing
  <2>1. C!Storing(Pins) = C!Nothing
    BY <1>1, ChipNext
  <2> QED BY <1>1, <2>1, ChipNext DEF C!NextColumn
<1>5. CASE sim.burst = S!None
  <2>1. sim'.burst = S!None
    BY <1>1, <1>5, SimNext DEF BurstThen
  <2> QED BY <1>2, <1>4, <2>1 DEF StoreInv, OutInv
<1>6. CASE sim.burst # S!None
  <2> DEFINE c == [sim.burst EXCEPT !.stop = 2]
  <2>1. BurstThen = c
    BY <1>1, <1>3, <1>6 DEF BurstThen
  <2>2. c \in BurstRegs /\ c.kind = "READ" /\ c.ba = burst.ba /\ c.row = Row(burst.addr) /\ c.stop = 2
        /\ c.wait \in 0 .. 2 /\ c # S!None
    <3>1. 2 \in 0 .. 2
      OBVIOUS
    <3>2. c \in BurstRegs
      BY <1>3, <1>6, <3>1, Retimed
    <3> QED BY <1>3, <1>6, <3>2 DEF BurstRegs, Shaped, S!None
  <2> HIDE DEF c
  <2>3. /\ sim'.burst \in BurstRegs /\ sim'.burst.kind = "READ" /\ sim'.burst.ba = burst.ba
        /\ sim'.burst.row = Row(burst.addr)
    <3>1. CASE c.wait > 0
      <4>1. sim'.burst = [c EXCEPT !.wait = c.wait - 1]
        BY <2>1, <2>2, <3>1, SimNext
      <4>2. c.wait - 1 \in 0 .. 2
        BY <2>2, <3>1
      <4>3. [c EXCEPT !.wait = c.wait - 1] \in BurstRegs
        BY <2>2, <4>2, Retimed
      <4> QED BY <2>2, <4>1, <4>3 DEF BurstRegs
    <3>2. CASE c.wait = 0
      <4>1. sim'.burst = [Stepped(c) EXCEPT !.stop = 1]
        BY <2>1, <2>2, <3>2, SimNext
      <4>2. Stepped(c) \in BurstRegs /\ 1 \in 0 .. 2
        BY <2>2, Cells
      <4>3. [Stepped(c) EXCEPT !.stop = 1] \in BurstRegs
        BY <4>2, Retimed
      <4> QED BY <2>2, <4>1, <4>2, <4>3 DEF BurstRegs, Stepped
    <3> QED BY <2>2, <3>1, <3>2
  <2>4. Shaped(sim.burst)'
    BY <1>2, <2>3 DEF Shaped, BurstRegs, Row
  <2> QED BY <1>2, <1>4, <2>3, <2>4 DEF StoreInv, OutInv
<1> QED BY <1>5, <1>6

(* A clock of a write burst.                                               *)
LEMMA StoringKept ==
  ASSUME PathInv, TandemInv, NEW p, Asks(p), NEW start, Both(p, start), Storing
  PROVE  /\ sim'.burst # S!None => (Reading \/ Storing \/ JustIdle \/ burst.st = "TRP1")' /\ Shaped(sim.burst)'
         /\ StoreInv' /\ OutInv'
<1>1. /\ Moves(p, start) /\ Pins.op \in {"NOP", "WRITE", "STOP"} /\ burst.write
      /\ burst.st \in {"WRITE", "STOP", "TWR1", "TWR2"} /\ (burst.st = "TWR2" => Pins.op = "STOP")
  BY Issued, TandemNow DEF Both
<1>2. /\ burst'.ba = burst.ba /\ burst'.write = burst.write /\ Row(burst'.addr) = Row(burst.addr)
      /\ ~ Reading' /\ burst'.st # "TRP1" /\ ~ JustIdle' /\ (burst.st # "TWR2" => Storing')
  BY <1>1, Phases DEF Reading
<1>3. ~ Reading /\ ~ JustIdle
  BY <1>1, TandemNow DEF JustIdle
<1>4. chip'.next \in {"NOP", "STOP"} /\ chip'.out = C!Nothing
  <2>1. chip.next # "READ" /\ chip.out = C!Nothing
    BY <1>1, <1>3, TandemNow
  <2> QED BY <1>1, <2>1, ChipNext DEF C!NextColumn
<1>5. OutInv'
  BY <1>2, <1>4 DEF OutInv
<1>6. CASE BurstThen = S!None
  <2>1. sim'.burst = S!None
    BY <1>6, SimNext
  <2>2. chip'.in = C!Nothing
    BY <1>1, <1>6, ChipNext, StoresAlike DEF C!NextColumn
  <2> QED BY <1>5, <2>1, <2>2 DEF StoreInv
<1>7. CASE BurstThen # S!None
  <2>1. BurstThen \in BurstRegs /\ BurstThen.kind = "WRITE" /\ BurstThen.ba = burst.ba
        /\ BurstThen.row = Row(burst.addr)
    BY <1>1, <1>7, ThenShaped DEF Shaped
  <2>2. sim'.burst = Stepped(BurstThen)
    BY <1>7, <2>1, SimNext
  <2>3. /\ Stepped(BurstThen) \in BurstRegs /\ Stepped(BurstThen).kind = "WRITE"
        /\ Stepped(BurstThen).ba = burst.ba /\ Stepped(BurstThen).row = Row(burst.addr)
        /\ Stepped(BurstThen) # S!None
        /\ C!NextColumn(S!CellOf(BurstThen)) = S!CellOf(Stepped(BurstThen))
    BY <2>1, Cells DEF Stepped, BurstRegs, S!None
  <2>4. chip'.in = S!CellOf(sim'.burst)
    BY <1>1, <1>7, <2>1, <2>2, <2>3, ChipNext, StoresAlike
  <2>5. Pins.op # "STOP"
    <3> SUFFICES ASSUME Pins.op = "STOP" PROVE FALSE
      OBVIOUS
    <3>1. sim.burst # S!None => sim.burst.kind = "WRITE"
      BY <1>1, TandemNow
    <3> QED BY <1>7, <3>1 DEF BurstThen
  <2>6. Storing'
    BY <1>1, <1>2, <2>5
  <2>7. Shaped(sim.burst)'
    BY <1>1, <1>2, <2>2, <2>3 DEF Shaped, BurstRegs, Row
  <2>8. StoreInv'
    BY <2>2, <2>3, <2>4 DEF StoreInv
  <2> QED BY <1>5, <2>6, <2>7, <2>8
<1> QED BY <1>6, <1>7

(* The tandem is kept by every clock of the path.                          *)
LEMMA TandemKept ==
  ASSUME PathInv, TandemInv, NEW p, Asks(p), NEW start, Both(p, start)
  PROVE  TandemInv'
<1>1. /\ sim'.burst # S!None => (Reading \/ Storing \/ JustIdle \/ burst.st = "TRP1")' /\ Shaped(sim.burst)'
      /\ StoreInv' /\ OutInv'
  BY QuietKept, ReadKept, ReadingKept, StoppedKept, StoringKept, TandemNow
<1>2. SimInv'
  BY <1>1, RestKept DEF SimInv
<1> QED BY <1>1, <1>2, LoadKept DEF TandemInv

(* The chip and the simulator start alike.                                 *)
LEMMA TandemStarts ==
  ASSUME Init, Clocks = {TRUE}
  PROVE  TandemInv
<1>1. /\ burst.st = "IDLE" /\ busy.idle = 4 /\ busy.mode = "IDLE" /\ busy.fullpage = FALSE
  BY DEF Init, SdramInit, BurstInit, Delay
<1>2. /\ chip.row = [b \in {BankA, BankB} |-> C!Nothing] /\ chip.next = "NOP"
      /\ chip.in = C!Nothing /\ chip.out = C!Nothing
  BY DEF Init, C!ChipInit
<1>3. /\ sim.row = [b \in {BankA, BankB} |-> S!Nothing] /\ sim.burst = S!None
      /\ sim.mode = BootMode /\ sim.dqm = <<FALSE, FALSE>>
  BY DEF Init, S!SimInit
<1>4. SimInv
  BY <1>1, <1>2, <1>3 DEF SimInv, S!Nothing, C!Nothing
<1>5. LoadInv
  BY <1>1 DEF LoadInv
<1>6. StoreInv
  BY <1>2, <1>3 DEF StoreInv
<1>7. OutInv
  BY <1>1, <1>2 DEF OutInv, Reading
<1> QED BY <1>4, <1>5, <1>6, <1>7 DEF TandemInv

(* Every step of the specification keeps the tandem.                       *)
LEMMA TandemSteps ==
  ASSUME PathInv, TandemInv, [Next]_vars
  PROVE  TandemInv'
<1>1. CASE Next
  <2>1. PICK start \in BOOLEAN : Clock(start)
    BY <1>1 DEF Next
  <2>2. Both(Request, start)
    BY <2>1 DEF Clock, Moves, Both
  <2> QED BY <2>2, RequestAsks, TandemKept
<1>2. CASE UNCHANGED vars
  <2>1. /\ UNCHANGED <<burst, rfsh, busy, io, chip, sim, seen>>
    BY <1>2 DEF vars
  <2>2. SimInv' /\ LoadInv'
    BY <2>1 DEF TandemInv, SimInv, LoadInv, Reading, Storing, JustIdle, Acking, Shaped, Row
  <2>3. StoreInv' /\ OutInv'
    BY <2>1 DEF TandemInv, StoreInv, OutInv, Reading, JustIdle, Acking, S!CellOf
  <2> QED BY <2>2, <2>3 DEF TandemInv
<1> QED BY <1>1, <1>2

(* The SDRAM of the simulator and the chip stay in step: same rows, same   *)
(* mode, and bursts at the same cell, whatever the two lanes ask.          *)
THEOREM TandemCorrect == Spec /\ Clocks = {TRUE} => [](PathInv /\ TandemInv)
<1>1. Init /\ Clocks = {TRUE} => PathInv /\ TandemInv
  BY PathStarts, TandemStarts
<1>2. PathInv /\ TandemInv /\ [Next]_vars => (PathInv /\ TandemInv)'
  BY PathSteps, TandemSteps
<1> QED BY <1>1, <1>2, PTL DEF Spec

(* The simulator accepts every command and stores in the chip's cells.     *)
LEMMA Agreeing ==
  ASSUME PathInv, TandemInv
  PROVE  ~ S!Throws(Pins) /\ S!SimStores(Pins) = C!Storing(Pins)
<1>1. S!SimStores(Pins) = C!Storing(Pins)
  <2> DEFINE s == S!Stage(RowsThen, BurstThen)
  <2>1. S!AfterCommand(Pins) = s
    BY Commanded
  <2>2. S!SimStores(Pins) = IF S!Does(s, "WRITE") THEN S!CellOf(s.burst) ELSE S!Nothing
    BY <2>1 DEF S!SimStores
  <2>3. s.burst = BurstThen
    BY DEF S!Stage
  <2> QED BY <2>2, <2>3, StoresAlike DEF S!Does, S!Nothing, C!Nothing
<1>2. sim.row = chip.row
  BY DEF TandemInv, SimInv
<1>3. C!Legal(Pins)
  BY PathLegal
<1>4. Pins.op \in {"REFRESH", "LOAD_MODE"} => sim.burst = S!None
  <2> HAVE Pins.op \in {"REFRESH", "LOAD_MODE"}
  <2>1. ~ Reading /\ ~ Storing /\ ~ JustIdle /\ burst.st # "TRP1"
    BY OnPins DEF Reading, Storing
  <2> QED BY <2>1, TandemNow
<1>5. /\ Pins.op \in {"REFRESH", "LOAD_MODE"} => \A b \in {BankA, BankB} : chip.row[b] = C!Nothing
      /\ Pins.op = "ACTIVE" => chip.row[Pins.ba] = C!Nothing
      /\ Pins.op \in {"READ", "WRITE"} => chip.row[Pins.ba] = <<Pins.a \div Page>>
  BY <1>3 DEF C!Legal, C!AllClosed
<1>6. Pins.op \notin {"READA", "WRITEA"}
  BY OnPins
<1> QED BY <1>1, <1>2, <1>4, <1>5, <1>6 DEF S!Throws, S!AnyActive, S!Reads, S!Writes, S!Nothing, C!Nothing

-----------------------------------------------------------------------------
(* The lanes and their lines.                                              *)

(* Each lane of the path is a lane the lemmas about lanes hold for.        *)
LA == INSTANCE LineStreamProofs WITH lane <- laneA, Words <- WordsA, Half <- HalfA, Bank <- BankA, Base <- BaseA
LB == INSTANCE LineStreamProofs WITH lane <- laneB, Words <- WordsB, Half <- HalfB, Bank <- BankB, Base <- BaseB

-----------------------------------------------------------------------------
(* A lane's line: its last place, its bank and its first cell.             *)
LineA == [last |-> WordsA - 1, bank |-> BankA, base |-> BaseA]
LineB == [last |-> WordsB - 1, bank |-> BankB, base |-> BaseB]

(* The cell of half-word i of line g, and the cells of its first n.        *)
At(g, i)    == <<g.bank, g.base + i>>
Upto(g, n)  == {At(g, i) : i \in 0 .. n - 1}

(* The lane holds the port, or asks for it.                                *)
Mid == {"WB_STREAM", "FILL_WB_WAIT", "FILL_WB_PRIME", "FILL_STREAM"}
Req == {"WB_REQ", "FILL_REQ"}

(* The controller has yet to take the request of the lane that owns it.    *)
Waiting == burst.st \in {"IDLE", "TRP1"} \/ (burst.st = "PRE" /\ burst.write)

(* How far a fill is: the half-words that have left the chip's array.      *)
Pos(l) == CASE l.st = "FILL_WB_WAIT" -> 0
            [] l.st = "FILL_WB_PRIME" -> IF l.wait THEN 1 ELSE 2
            [] l.st = "FILL_STREAM" -> IF l.tail THEN l.word + 3 ELSE l.word + 2

(* The states of a fill that has been granted.                             *)
Filling == {"FILL_WB_WAIT", "FILL_WB_PRIME", "FILL_STREAM"}

(* The stage s carries half-word n of the line.                            *)
Carries(s, g, n) ==
  /\ s.dq = At(g, n)
  /\ s.cmd.op = IF n = 0 THEN "WRITE" ELSE "NOP"
  /\ n = 0 => s.cmd.ba = g.bank /\ s.cmd.a = g.base

(* The chip expects half-word n, and has those before it.                  *)
Landing(g, n) == n > 0 => chip.in = At(g, n) /\ landed = Upto(g, n)

(* A write: where the lane is in each state of the sequencer.              *)
WriteLink(l, g) ==
  /\ burst.st \in {"ACT", "TRCD1", "TRCD2", "WACK", "WDATA", "WRITE_CMD"} =>
       l.st = "WB_REQ" /\ burst.addr = g.base
  /\ burst.st = "WRITE" =>
       /\ l.st = "WB_STREAM" /\ burst.addr = g.base + 1 + l.word /\ Carries(io.r, g, l.word)
       /\ IF l.word = 0 THEN io.o.cmd.op = "NOP" /\ chip.in = C!Nothing
          ELSE Carries(io.o, g, l.word - 1) /\ Landing(g, l.word - 1)
  /\ burst.st = "STOP" =>
       /\ l.st = "WB_STREAM" /\ l.word = g.last
       /\ \/ Carries(io.r, g, g.last) /\ Carries(io.o, g, g.last - 1) /\ Landing(g, g.last - 1)
          \/ io.r.cmd.op = "STOP" /\ Carries(io.o, g, g.last) /\ Landing(g, g.last)
  /\ burst.st = "TWR1" =>
       /\ l.st = "WB_STREAM" /\ l.word = g.last
       /\ \/ Carries(io.o, g, g.last) /\ Landing(g, g.last)
          \/ io.o.cmd.op = "STOP" /\ landed = Upto(g, g.last + 1)

(* The half-words on their way, while they belong to the line.             *)
Flows(l, g) ==
  LET n == Pos(l) IN
  /\ n = 0 => chip.next = "READ" /\ chip.at = At(g, 0)
  /\ n > 0 => chip.next = "NOP"
  /\ n > 0 /\ n - 1 <= g.last => chip.out = At(g, n - 1)
  /\ n > 1 /\ n - 2 <= g.last => io.dout = At(g, n - 2)
  /\ l.st = "FILL_STREAM" => \A i \in 0 .. (IF l.tail THEN g.last ELSE l.word - 1) : l.buf[i] = At(g, i)

(* A read: the same.                                                       *)
ReadLink(l, g) ==
  /\ burst.st \in {"ACT", "TRCD1", "TRCD2", "READ_CMD", "CL1"} \/ (burst.st = "CL2" /\ Acking) =>
       l.st = "FILL_REQ" /\ burst.addr = g.base
  /\ burst.st = "CL2" /\ ~ Acking => l.st = "FILL_WB_WAIT" /\ burst.addr = g.base /\ Flows(l, g)
  /\ burst.st = "RDATA" =>
       /\ l.st \in Filling /\ ~ (l.st = "FILL_STREAM" /\ l.tail) /\ Flows(l, g)
       /\ burst.addr \in {g.base + Pos(l), g.base + Pos(l) - 1} /\ burst.addr >= g.base
       /\ burst.addr > g.base => io.r.dok
       /\ burst.addr > g.base + 1 => io.o.dok
  /\ burst.st = "STOP" =>
       l.st \in Filling /\ Pos(l) \in g.last + 1 .. g.last + 3 /\ Flows(l, g) /\ io.o.dok
  /\ burst.st = "PRE" =>
       l.st \in Filling /\ Pos(l) \in g.last + 2 .. g.last + 3 /\ Flows(l, g)

(* The port belongs to lane l.                                             *)
Link(l, g) ==
  /\ l.st \in Mid \cup Req
  /\ Waiting => l.st \in Req
  /\ ~ Waiting => /\ burst.ba = g.bank /\ burst.st # "TWR2"
                  /\ burst.write => WriteLink(l, g)
                  /\ ~ burst.write => ReadLink(l, g)

(* A lane that owns nothing, and what it leaves.                           *)
Left(l, g) ==
  /\ l.st = "WB_GAP" => burst.st = "TWR2" /\ landed = Upto(g, g.last + 1)
  /\ l.st = "POSTFILL_WAIT" => \A i \in 0 .. g.last : l.buf[i] = At(g, i)

(* The invariant of the lanes and of the arbiter between them.             *)
LineInv ==
  /\ LA!LaneInv /\ LB!LaneInv
  /\ arb \in [active: BOOLEAN, sel: {0, 1}]
  /\ ~ arb.active => Waiting \/ burst.st = "TWR2"
  /\ Owns(0) => Link(laneA, LineA)
  /\ Owns(1) => Link(laneB, LineB)
  /\ laneA.st \in Mid => Owns(0)
  /\ laneB.st \in Mid => Owns(1)
  /\ Left(laneA, LineA) /\ Left(laneB, LineB)

-----------------------------------------------------------------------------
(* A line lies in one row.                                                 *)
LEMMA NotLast ==
  ASSUME NEW W \in Nat \ {0, 1}, NEW P \in Nat \ {0}, NEW a \in Nat, a % W = 0, P % W = 0,
         NEW i \in 0 .. W - 2
  PROVE  (a + i) % P # P - 1
<1> SUFFICES ASSUME (a + i) % P = P - 1 PROVE FALSE
  OBVIOUS
<1>1. PICK k \in Nat : a = (k * W) + 0
  <2>1. a = ((a \div W) * W) + (a % W) /\ a \div W \in Nat
    BY Division
  <2> QED BY <2>1
<1>2. PICK m \in Nat : P = m * W
  <2>1. P = ((P \div W) * W) + (P % W) /\ P \div W \in Nat
    BY Division
  <2>2. P = (P \div W) * W
    BY <2>1
  <2> QED BY <2>1, <2>2
<1>3. PICK q \in Nat : a + i = (q * P) + (P - 1)
  <2>1. a + i \in Nat
    OBVIOUS
  <2>2. a + i = (((a + i) \div P) * P) + ((a + i) % P) /\ (a + i) \div P \in Nat
    BY <2>1, Division
  <2> QED BY <2>2
<1>4. a + i + 1 = ((q * m + m) * W) + 0
  <2>1. a + i + 1 = (q * P) + P
    BY <1>3
  <2>2. q * P = (q * m) * W
    BY <1>2
  <2>3. (q * m + m) * W = ((q * m) * W) + (m * W)
    BY <1>2
  <2> QED BY <1>2, <2>1, <2>2, <2>3
<1>5. a + i + 1 = (k * W) + (i + 1)
  BY <1>1
<1>6. PICK n \in Nat : n = q * m + m
  OBVIOUS
<1>7. 0 \in 0 .. W - 1 /\ i + 1 \in 0 .. W - 1
  OBVIOUS
<1>8. ((n * W) + 0) % W = 0 /\ ((k * W) + (i + 1)) % W = i + 1
  BY <1>7, Composed
<1> QED BY <1>4, <1>5, <1>6, <1>8

(* Line g lies in one row, cell after cell.                                *)
InARow(g) ==
  /\ g.last \in Nat \ {0} /\ g.base \in Nat /\ g.bank \in {BankA, BankB}
  /\ \A i \in 0 .. g.last - 1 : ~ PageLast(g.base + i) /\ C!NextColumn(At(g, i)) = At(g, i + 1)

(* The cells of a line follow each other in the row of its base.           *)
LEMMA Straight ==
  ASSUME NEW words, NEW half, NEW base, NEW bank, GoodLine(words, half, base), bank \in {BankA, BankB}
  PROVE  InARow([last |-> words - 1, bank |-> bank, base |-> base])
<1> DEFINE g == [last |-> words - 1, bank |-> bank, base |-> base]
<1>1. /\ words \in Nat \ {0, 1} /\ base \in Nat /\ base % words = 0 /\ Page % words = 0
      /\ Page \in Nat \ {0}
  BY PageAssumption DEF GoodLine
<1>2. ASSUME NEW i \in 0 .. words - 2
      PROVE  ~ PageLast(base + i) /\ C!NextColumn(<<bank, base + i>>) = <<bank, base + i + 1>>
  <2>1. ~ PageLast(base + i)
    BY <1>1, NotLast DEF PageLast
  <2>2. PICK c \in Nat : c = base + i
    BY <1>1
  <2>3. Row(c + 1) = Row(c) /\ (c + 1) % Page = (c % Page) + 1
    BY <2>1, <2>2, SameRow
  <2>4. PICK q \in Nat, r \in Nat : c = (q * Page) + r /\ c \div Page = q /\ c % Page = r
    <3>1. \A P \in Nat \ {0} : \A n \in Nat : n \div P \in Nat /\ n % P \in Nat /\ n = ((n \div P) * P) + (n % P)
      OBVIOUS
    <3>2. c \div Page \in Nat /\ c % Page \in Nat /\ c = ((c \div Page) * Page) + (c % Page)
      BY <1>1, <3>1
    <3> QED BY <3>2
  <2>5. ((c \div Page) * Page) + ((c + 1) % Page) = c + 1
    <3>1. (q * Page) + (r + 1) = c + 1
      <4>1. PICK x \in Nat : x = q * Page
        BY <1>1
      <4> QED BY <2>4, <4>1
    <3> QED BY <2>3, <2>4, <3>1
  <2>6. <<bank, c>> # C!Nothing
    BY DEF C!Nothing
  <2>7. C!NextColumn(<<bank, c>>) = <<bank, c + 1>>
    BY <2>5, <2>6 DEF C!NextColumn
  <2> QED BY <1>1, <2>1, <2>2, <2>7
<1>3. g.last = words - 1 /\ g.base = base /\ g.bank = bank
  OBVIOUS
<1>4. \A i \in 0 .. g.last - 1 : ~ PageLast(g.base + i) /\ C!NextColumn(At(g, i)) = At(g, i + 1)
  BY <1>1, <1>2, <1>3 DEF At
<1> QED BY <1>1, <1>3, <1>4 DEF InARow

-----------------------------------------------------------------------------
(* A clock of the lane that owns the port: what it shows and how it moves. *)
Known(l, g) ==
  /\ l.word \in 0 .. g.last /\ l.wait \in BOOLEAN /\ l.tail \in BOOLEAN
  /\ l.st \in {"WB_REQ", "FILL_REQ", "FILL_WB_WAIT", "FILL_WB_PRIME"} => l.word = 0 /\ ~ l.tail
  /\ l.st = "FILL_STREAM" => l.word > 0 /\ (l.tail => l.word = g.last)

(* What the request p carries while lane l owns the port.                  *)
Shown(l, g, p) ==
  /\ p.ba = g.bank /\ p.addr = g.base
  /\ l.st = "WB_REQ" => p.wr /\ ~ p.rd /\ p.din = At(g, 0)
  /\ l.st = "WB_STREAM" => ~ p.rd /\ (p.wr <=> l.word # g.last)
                           /\ (l.word # g.last => p.din = At(g, l.word + 1))
  /\ l.st \in {"FILL_REQ", "FILL_WB_WAIT", "FILL_WB_PRIME"} => p.rd /\ ~ p.wr
  /\ l.st = "FILL_STREAM" => ~ p.wr /\ (p.rd <=> l.word # g.last)

(* How a lane goes from l to m when it is answered b.                      *)
Moved(l, m, g, b) ==
  /\ l.st \notin Mid \cup Req => m.st \notin Mid \cup {"WB_GAP", "POSTFILL_WAIT"}
  /\ l.st = "WB_REQ" => m.st = (IF b.ack THEN "WB_STREAM" ELSE "WB_REQ") /\ m.word = 0
  /\ l.st = "WB_STREAM" =>
       IF b.rdy THEN m.st = "WB_GAP"
       ELSE m.st = "WB_STREAM" /\ m.word = IF l.word = g.last THEN g.last ELSE l.word + 1
  /\ l.st = "FILL_REQ" => m.st = IF b.ack THEN "FILL_WB_WAIT" ELSE "FILL_REQ"
  /\ l.st = "FILL_WB_WAIT" => m.st = "FILL_WB_PRIME" /\ m.wait
  /\ l.st = "FILL_WB_PRIME" /\ l.wait => m.st = "FILL_WB_PRIME" /\ ~ m.wait
  /\ l.st = "FILL_WB_PRIME" /\ ~ l.wait /\ ~ b.rdy =>
       m.st = "FILL_STREAM" /\ m.word = 1 /\ ~ m.tail /\ m.buf[0] = b.din
  /\ l.st = "FILL_STREAM" /\ b.dok =>
       /\ \A i \in 0 .. g.last :
             m.buf[i] = IF i = l.word /\ ~ l.tail THEN b.din ELSE l.buf[i]
       /\ IF b.rdy THEN m.st = "POSTFILL_WAIT"
          ELSE /\ m.st = "FILL_STREAM"
               /\ m.word = IF l.word = g.last THEN g.last ELSE l.word + 1
               /\ m.tail <=> l.word = g.last

(* The answer b is what the controller gives.                              *)
Given(b) == (b.ack <=> io.o.ack) /\ (b.dok <=> io.o.dok) /\ (b.rdy <=> io.o.rdy) /\ b.din = io.dout

(* A clock of the whole path in which lane l of line g owns the port.      *)
Turn(l, m, g, b, p, start) ==
  /\ Both(p, start) /\ Asks(p) /\ Lands /\ InARow(g) /\ Given(b)
  /\ Known(l, g) /\ Known(m, g) /\ Shown(l, g, p) /\ Moved(l, m, g, b) /\ Link(l, g)

(* The sequencer at the lane's turn.                                       *)
LEMMA Turned ==
  ASSUME PathInv, TandemInv, NEW l, NEW m, NEW g, NEW b, NEW p, NEW start, Turn(l, m, g, b, p, start)
  PROVE  /\ burst \in SeqRegs /\ burst.st \in BurstStates /\ burst.write \in BOOLEAN
         /\ burst.addr \in Nat /\ burst.wait \in BOOLEAN
         /\ CmdPipe /\ ReadPipe /\ WritePipe
         /\ burst.st \in WriteStates => burst.write
         /\ burst.st \in ReadStates => ~ burst.write
         /\ Moves(p, start) /\ io'.o = io.r /\ io'.dout = chip.out /\ (Acking' <=> io.r.ack)
         /\ CtrlBusy => burst' = burst
         /\ burst.st \notin {"IDLE", "ACT"} => ~ CtrlBusy
<1>1. Moves(p, start) /\ Asks(p)
  BY DEF Turn, Both
<1>2. burst \in SeqRegs /\ CmdPipe /\ ReadPipe /\ WritePipe
      /\ (burst.st \in WriteStates => burst.write) /\ (burst.st \in ReadStates => ~ burst.write)
  BY DEF PathInv, SeqInv
<1>3. burst.st \in BurstStates /\ burst.write \in BOOLEAN /\ burst.addr \in Nat /\ burst.wait \in BOOLEAN
  BY <1>2 DEF SeqRegs
<1>4. io'.o = io.r /\ io'.dout = chip.out /\ (Acking' <=> io.r.ack)
  BY <1>1, PipeNext DEF Acking
<1>5. (CtrlBusy => burst' = burst) /\ (burst.st \notin {"IDLE", "ACT"} => ~ CtrlBusy)
  BY <1>1, Stays, Kept
<1> QED BY <1>1, <1>2, <1>3, <1>4, <1>5

(* Until the controller takes the request, the lane waits.                 *)
LEMMA WaitTurn ==
  ASSUME PathInv, TandemInv, NEW l, NEW m, NEW g, NEW b, NEW p, NEW start, Turn(l, m, g, b, p, start), Waiting
  PROVE  Link(m, g)' /\ ~ io.o.rdy
<1>1. l.st \in Req
  BY DEF Turn, Link
<1>2. ~ io.o.ack /\ ~ io.o.rdy
  BY Turned DEF Waiting, CmdPipe, WritePipe, Silent, Empty, Tells
<1>3. m.st = l.st
  BY <1>1, <1>2 DEF Turn, Moved, Given, Req
<1>4. CASE CtrlBusy
  <2>1. Waiting'
    BY <1>4, Turned DEF Waiting
  <2> QED BY <1>1, <1>2, <1>3, <2>1 DEF Link
<1>5. CASE ~ CtrlBusy /\ burst.st # "IDLE"
  <2>1. Waiting'
    BY <1>5, Turned, SeqMoves DEF Waiting, Turn
  <2> QED BY <1>1, <1>2, <1>3, <2>1 DEF Link
<1>6. CASE ~ CtrlBusy /\ burst.st = "IDLE"
  <2>1. /\ p.rd \/ p.wr
        /\ l.st = "WB_REQ" <=> p.wr
        /\ p.addr = g.base /\ p.ba = g.bank /\ Asks(p)
    BY <1>1 DEF Turn, Shown, Req, Asks
  <2>2. burst'.st = "ACT" /\ burst'.addr = g.base /\ burst'.ba = g.bank /\ (burst'.write <=> p.wr)
    BY <1>6, <2>1, Turned, SeqMoves
  <2>3. ~ Waiting'
    BY <2>2 DEF Waiting
  <2>4. burst'.write => WriteLink(m, g)'
    BY <1>3, <2>1, <2>2 DEF WriteLink
  <2>5. ~ burst'.write => ReadLink(m, g)'
    BY <1>1, <1>3, <2>1, <2>2 DEF ReadLink, Req
  <2> QED BY <1>1, <1>2, <1>3, <2>2, <2>3, <2>4, <2>5 DEF Link
<1> QED BY <1>4, <1>5, <1>6

(* From the request to the first half-word of a write.                     *)
LEMMA OpenTurn ==
  ASSUME PathInv, TandemInv, NEW l, NEW m, NEW g, NEW b, NEW p, NEW start, Turn(l, m, g, b, p, start),
         burst.st \in {"ACT", "TRCD1", "TRCD2", "WACK", "WDATA", "READ_CMD", "CL1"}
  PROVE  Link(m, g)' /\ ~ io.o.rdy
<1>1. /\ burst.ba = g.bank /\ burst.addr = g.base
      /\ l.st = IF burst.write THEN "WB_REQ" ELSE "FILL_REQ"
  <2>1. Link(l, g) /\ ~ Waiting
    BY DEF Turn, Waiting
  <2>2. burst.write => burst.st \in {"ACT", "TRCD1", "TRCD2", "WACK", "WDATA"}
    BY Turned DEF ReadStates
  <2>3. ~ burst.write => burst.st \in {"ACT", "TRCD1", "TRCD2", "READ_CMD", "CL1"}
    BY Turned DEF WriteStates
  <2> QED BY <2>1, <2>2, <2>3 DEF Link, WriteLink, ReadLink
<1>2. ~ io.o.ack /\ ~ io.o.rdy
  BY Turned DEF CmdPipe, ReadPipe, WritePipe, Silent, Calm, Empty, Tells
<1>3. m.st = l.st
  BY <1>1, <1>2 DEF Turn, Moved, Given
<1>4. burst'.ba = burst.ba /\ burst'.addr = burst.addr /\ (burst'.write <=> burst.write)
  BY Turned, SeqMoves DEF Turn
<1>5. \/ burst'.st \in {"ACT", "TRCD1", "TRCD2", "WACK", "WDATA", "WRITE_CMD", "READ_CMD", "CL1"}
      \/ burst.st = "CL1" /\ burst'.st = "CL2" /\ Acking'
  <2>1. burst.st = "CL1" => Acking'
    BY Turned DEF ReadPipe, Reads, Tells
  <2> QED BY <2>1, Turned, SeqMoves DEF Turn
<1>6. ~ Waiting' /\ burst'.st # "TWR2"
  BY <1>5 DEF Waiting
<1>7. burst'.write => WriteLink(m, g)'
  <2> HAVE burst'.write
  <2>1. burst'.st \in {"ACT", "TRCD1", "TRCD2", "WACK", "WDATA", "WRITE_CMD", "READ_CMD", "CL1", "CL2"}
    BY <1>5
  <2> QED BY <1>1, <1>3, <1>4, <2>1 DEF WriteLink
<1>8. ~ burst'.write => ReadLink(m, g)'
  <2> HAVE ~ burst'.write
  <2> QED BY <1>1, <1>3, <1>4, <1>5 DEF ReadLink
<1> QED BY <1>1, <1>2, <1>3, <1>4, <1>6, <1>7, <1>8 DEF Link, Req

-----------------------------------------------------------------------------
(* A half-word that is on the pins is stored in its own cell.              *)
LEMMA StoredThere ==
  ASSUME NEW g, InARow(g), NEW n \in 0 .. g.last, Carries(io.o, g, n), Landing(g, n)
  PROVE  C!Storing(Pins) = At(g, n) /\ io.o.dq = C!Storing(Pins)
<1>1. n \in Nat /\ g.last \in Nat
  BY DEF InARow
<1>2. CASE n = 0
  <2>1. Pins.op = "WRITE" /\ Pins.ba = g.bank /\ Pins.a = g.base + 0
    BY <1>1, <1>2 DEF Carries, Pins, InARow
  <2> QED BY <1>2, <2>1 DEF At, C!Storing, Carries
<1>3. CASE n # 0
  <2>1. Pins.op = "NOP" /\ chip.in = At(g, n)
    BY <1>1, <1>3 DEF Carries, Landing, Pins
  <2> QED BY <2>1 DEF C!Storing, Carries
<1> QED BY <1>2, <1>3

(* It lands, and the next one may follow.                                  *)
LEMMA LandsThere ==
  ASSUME PathInv, TandemInv, NEW p, NEW start, Both(p, start), Lands, NEW g, InARow(g),
         NEW n \in 0 .. g.last, Carries(io.o, g, n), Landing(g, n)
  PROVE  /\ landed' = Upto(g, n + 1)
         /\ n < g.last => chip'.in = At(g, n + 1)
<1>1. n \in Nat /\ g.last \in Nat
  BY DEF InARow
<1>2. At(g, n) # C!Nothing
  BY DEF At, C!Nothing
<1>3. C!Storing(Pins) = At(g, n)
  BY StoredThere
<1>4. landed' = (IF Pins.op = "WRITE" THEN {} ELSE landed) \cup {At(g, n)}
  BY <1>2, <1>3 DEF Lands
<1>5. landed' = Upto(g, n + 1)
  <2>1. CASE n = 0
    <3>1. Pins.op = "WRITE"
      BY <2>1 DEF Carries, Pins
    <3>2. 0 .. 0 + 1 - 1 = {0}
      OBVIOUS
    <3> QED BY <1>4, <2>1, <3>1, <3>2 DEF Upto
  <2>2. CASE n # 0
    <3>1. Pins.op # "WRITE" /\ landed = Upto(g, n)
      BY <1>1, <2>2 DEF Carries, Landing, Pins
    <3>2. 0 .. n + 1 - 1 = (0 .. n - 1) \cup {n}
      BY <1>1
    <3> QED BY <1>4, <3>1, <3>2 DEF Upto
  <2> QED BY <2>1, <2>2
<1>6. ASSUME n < g.last PROVE chip'.in = At(g, n + 1)
  <2>1. Pins.op # "READ"
    BY DEF Carries, Pins
  <2>2. C!NextColumn(At(g, n)) = At(g, n + 1)
    BY <1>1, <1>6 DEF InARow
  <2> QED BY <1>3, <2>1, <2>2, ChipNext
<1> QED BY <1>5, <1>6

(* What the controller sends while it writes.                              *)
LEMMA SentWrite ==
  ASSUME PathInv, NEW p, NEW start, Both(p, start), Asks(p), ~ CtrlBusy
  PROVE  /\ io'.r.cmd = BurstCmd(p)
         /\ Drives(p) => io'.r.dq = p.din
<1>1. io'.r = Selected(p)
  BY PipeNext DEF Both
<1>2. Selected(p) = [cmd |-> BurstCmd(p), dq |-> IF Drives(p) THEN p.din ELSE Nothing,
                     ack |-> BurstAck, dok |-> BurstDok, rdy |-> BurstRdy(p)]
  BY DEF Selected, CtrlBusy
<1> QED BY <1>1, <1>2

(* The first half-word of a write enters the pipeline.                     *)
LEMMA FirstTurn ==
  ASSUME PathInv, TandemInv, NEW l, NEW m, NEW g, NEW b, NEW p, NEW start, Turn(l, m, g, b, p, start),
         burst.st = "WRITE_CMD"
  PROVE  Link(m, g)' /\ ~ io.o.rdy
<1>1. burst.write /\ l.st = "WB_REQ" /\ burst.ba = g.bank /\ burst.addr = g.base
  BY Turned DEF Turn, Link, Waiting, WriteLink, WriteStates
<1>2. io.o.ack /\ ~ io.o.rdy /\ io.o.cmd.op = "NOP" /\ io.r.cmd.op = "NOP"
  BY Turned DEF WritePipe, Acks, Empty, Tells
<1>3. m.st = "WB_STREAM" /\ m.word = 0
  BY <1>1, <1>2 DEF Turn, Moved, Given
<1>4. p.wr /\ p.din = At(g, 0) /\ Asks(p) /\ InARow(g)
  BY <1>1 DEF Turn, Shown
<1>5. ~ Last
  <2>1. 0 \in 0 .. g.last - 1 /\ g.base + 0 = g.base
    BY <1>4 DEF InARow
  <2> QED BY <1>1, <1>4, <2>1 DEF InARow, Last
<1>6. burst'.st = "WRITE" /\ burst'.addr = g.base + 1 /\ burst'.ba = g.bank /\ burst'.write
  BY <1>1, <1>4, <1>5, Turned, SeqMoves DEF NextCell
<1>7. Carries(io.r, g, 0)'
  <2>1. io'.r.cmd = BurstCmd(p) /\ io'.r.dq = At(g, 0)
    BY <1>1, <1>4, Turned, SentWrite DEF Drives, Turn
  <2>2. BurstCmd(p) = [op |-> "WRITE", ba |-> burst.ba, a |-> burst.addr]
    BY DEF BurstCmd
  <2> QED BY <1>1, <2>1, <2>2 DEF Carries
<1>8. io'.o.cmd.op = "NOP" /\ chip'.in = C!Nothing
  <2>1. Pins.op = "NOP" /\ chip.in = C!Nothing
    BY <1>2, Ages DEF Pins, Storing
  <2>2. C!NextColumn(C!Nothing) = C!Nothing
    BY DEF C!NextColumn
  <2> QED BY <1>2, <2>1, <2>2, Turned, ChipNext DEF Turn
<1>9. WriteLink(m, g)'
  <2>1. g.base + 1 + m.word = g.base + 1
    BY <1>3, <1>4 DEF InARow
  <2> QED BY <1>3, <1>6, <1>7, <1>8, <2>1 DEF WriteLink
<1> QED BY <1>2, <1>3, <1>6, <1>9 DEF Link, Mid, Waiting

(* A beat of a write.                                                      *)
LEMMA WriteTurn ==
  ASSUME PathInv, TandemInv, NEW l, NEW m, NEW g, NEW b, NEW p, NEW start, Turn(l, m, g, b, p, start),
         burst.st = "WRITE"
  PROVE  Link(m, g)' /\ ~ io.o.rdy
<1>1. /\ burst.write /\ l.st = "WB_STREAM" /\ burst.ba = g.bank /\ burst.addr = g.base + 1 + l.word
      /\ Carries(io.r, g, l.word)
      /\ IF l.word = 0 THEN io.o.cmd.op = "NOP" /\ chip.in = C!Nothing
         ELSE Carries(io.o, g, l.word - 1) /\ Landing(g, l.word - 1)
  BY Turned DEF Turn, Link, Waiting, WriteLink, WriteStates
<1>2. ~ io.o.rdy
  BY Turned DEF WritePipe
<1>3. /\ InARow(g) /\ l.word \in 0 .. g.last /\ Asks(p) /\ Both(p, start) /\ Lands /\ ~ CtrlBusy
      /\ g.last \in Nat \ {0} /\ g.base \in Nat
      /\ p.wr <=> l.word # g.last
      /\ l.word # g.last => p.din = At(g, l.word + 1)
      /\ m.st = "WB_STREAM" /\ m.word = IF l.word = g.last THEN g.last ELSE l.word + 1
  BY <1>1, <1>2, Turned DEF Turn, Known, Shown, Moved, Given, InARow
<1>4. Landing(g, l.word)'
  <2>1. CASE l.word = 0
    BY <2>1 DEF Landing
  <2>2. CASE l.word # 0
    <3> DEFINE n == l.word - 1
    <3>1. n \in 0 .. g.last /\ n < g.last /\ n + 1 = l.word /\ Carries(io.o, g, n) /\ Landing(g, n)
      BY <1>1, <1>3, <2>2
    <3> HIDE DEF n
    <3>2. landed' = Upto(g, n + 1) /\ chip'.in = At(g, n + 1)
      BY <1>3, <3>1, LandsThere
    <3> QED BY <2>2, <3>1, <3>2 DEF Landing
  <2> QED BY <2>1, <2>2
<1>5. Carries(io.o, g, l.word)'
  BY <1>1, Turned DEF Carries
<1>6. CASE ~ p.wr
  <2>1. l.word = g.last /\ m.word = g.last
    BY <1>3, <1>6
  <2>2. burst'.st = "STOP" /\ burst'.ba = g.bank /\ burst'.write
    BY <1>1, <1>3, <1>6, Turned, SeqMoves
  <2>3. io'.r.cmd.op = "STOP"
    <3>1. BurstCmd(p).op = "STOP"
      BY <1>1, <1>3, <1>6, Turned DEF BurstCmd
    <3> QED BY <1>3, <3>1, SentWrite
  <2>4. WriteLink(m, g)'
    BY <1>3, <1>4, <1>5, <2>1, <2>2, <2>3 DEF WriteLink
  <2> QED BY <1>1, <1>2, <1>3, <1>4, <2>2, <2>4 DEF Link, Mid, Waiting
<1>7. CASE p.wr
  <2>1. l.word < g.last /\ m.word = l.word + 1 /\ m.word - 1 = l.word /\ m.word \in 1 .. g.last
    BY <1>3, <1>7
  <2>2. Carries(io.r, g, m.word)'
    <3>1. BurstCmd(p) = Nop /\ Drives(p)
      BY <1>1, <1>3, <1>7, Turned DEF BurstCmd, Drives
    <3>2. io'.r.cmd = Nop /\ io'.r.dq = At(g, m.word)
      BY <1>3, <1>7, <2>1, <3>1, SentWrite
    <3> QED BY <2>1, <3>2 DEF Carries, Nop
  <2>3. burst'.ba = g.bank /\ burst'.write /\ burst'.addr = NextCell
        /\ burst'.st = IF Last THEN "STOP" ELSE "WRITE"
    BY <1>1, <1>3, <1>7, Turned, SeqMoves
  <2>4. CASE Last
    <3>1. m.word = g.last
      <4>1. l.word + 1 \notin 0 .. g.last - 1
        <5>1. g.base + (l.word + 1) = g.base + 1 + l.word
          BY <1>3
        <5> QED BY <1>1, <1>3, <2>4, <5>1 DEF InARow, Last
      <4> QED BY <1>3, <2>1, <4>1
    <3>2. WriteLink(m, g)'
      BY <1>3, <1>4, <1>5, <2>1, <2>2, <2>3, <2>4, <3>1 DEF WriteLink
    <3> QED BY <1>1, <1>2, <1>3, <1>4, <2>3, <2>4, <3>2 DEF Link, Mid, Waiting
  <2>5. CASE ~ Last
    <3>1. burst'.addr = g.base + 1 + m.word
      BY <1>1, <1>3, <2>1, <2>3, <2>5 DEF NextCell
    <3>2. WriteLink(m, g)'
      BY <1>3, <1>4, <1>5, <2>1, <2>2, <2>3, <2>5, <3>1 DEF WriteLink
    <3> QED BY <1>1, <1>2, <1>3, <1>4, <2>3, <2>5, <3>2 DEF Link, Mid, Waiting
  <2> QED BY <2>4, <2>5
<1> QED BY <1>3, <1>6, <1>7 DEF Asks

(* The end of a write: the last half-words land, then rdy.                 *)
LEMMA StopTurn ==
  ASSUME PathInv, TandemInv, NEW l, NEW m, NEW g, NEW b, NEW p, NEW start, Turn(l, m, g, b, p, start),
         burst.write, burst.st = "STOP"
  PROVE  Link(m, g)' /\ ~ io.o.rdy
<1>1. /\ l.st = "WB_STREAM" /\ burst.ba = g.bank /\ l.word = g.last
      /\ \/ Carries(io.r, g, g.last) /\ Carries(io.o, g, g.last - 1) /\ Landing(g, g.last - 1)
         \/ io.r.cmd.op = "STOP" /\ Carries(io.o, g, g.last) /\ Landing(g, g.last)
  BY DEF Turn, Link, Waiting, WriteLink
<1>2. ~ io.o.rdy
  BY Turned DEF WritePipe
<1>3. InARow(g) /\ Asks(p) /\ Both(p, start) /\ Lands /\ ~ CtrlBusy /\ g.last \in Nat \ {0}
      /\ m.st = "WB_STREAM" /\ m.word = g.last
  BY <1>1, <1>2, Turned DEF Turn, Moved, Given, InARow
<1>4. burst'.st = "TWR1" /\ burst'.ba = g.bank /\ burst'.write
  BY <1>1, <1>3, Turned, SeqMoves
<1>5. CASE Carries(io.r, g, g.last) /\ Carries(io.o, g, g.last - 1) /\ Landing(g, g.last - 1)
  <2> DEFINE n == g.last - 1
  <2>1. n \in 0 .. g.last /\ n < g.last /\ n + 1 = g.last /\ Carries(io.o, g, n) /\ Landing(g, n)
    BY <1>3, <1>5
  <2> HIDE DEF n
  <2>2. landed' = Upto(g, n + 1) /\ chip'.in = At(g, n + 1)
    BY <1>3, <2>1, LandsThere
  <2>3. Carries(io.o, g, g.last)'
    BY <1>5, Turned DEF Carries
  <2>4. WriteLink(m, g)'
    BY <1>3, <1>4, <2>1, <2>2, <2>3 DEF WriteLink, Landing
  <2> QED BY <1>2, <1>3, <1>4, <2>1, <2>2, <2>4 DEF Link, Mid, Waiting
<1>6. CASE io.r.cmd.op = "STOP" /\ Carries(io.o, g, g.last) /\ Landing(g, g.last)
  <2>1. landed' = Upto(g, g.last + 1)
    <3>1. g.last \in 0 .. g.last
      BY <1>3
    <3> QED BY <1>3, <1>6, <3>1, LandsThere
  <2>2. io'.o.cmd.op = "STOP"
    BY <1>6, Turned
  <2>3. WriteLink(m, g)'
    BY <1>3, <1>4, <2>1, <2>2 DEF WriteLink
  <2> QED BY <1>2, <1>3, <1>4, <1>6, <2>1, <2>3 DEF Link, Mid, Waiting
<1> QED BY <1>1, <1>5, <1>6

(* The end of a write: rdy is given when the whole line has landed.        *)
LEMMA EndTurn ==
  ASSUME PathInv, TandemInv, NEW l, NEW m, NEW g, NEW b, NEW p, NEW start, Turn(l, m, g, b, p, start),
         burst.st = "TWR1"
  PROVE  /\ io.o.rdy /\ burst'.st = "TWR2"
         /\ m.st = "WB_GAP" /\ landed' = Upto(g, g.last + 1)
<1>1. /\ l.st = "WB_STREAM" /\ l.word = g.last
      /\ \/ Carries(io.o, g, g.last) /\ Landing(g, g.last)
         \/ io.o.cmd.op = "STOP" /\ landed = Upto(g, g.last + 1)
  BY Turned DEF Turn, Link, Waiting, WriteLink, WriteStates
<1>2. io.o.rdy
  BY Turned DEF WritePipe
<1>3. InARow(g) /\ Asks(p) /\ Both(p, start) /\ Lands /\ ~ CtrlBusy /\ g.last \in Nat \ {0}
      /\ m.st = "WB_GAP"
  BY <1>1, <1>2, Turned DEF Turn, Moved, Given, InARow
<1>4. burst'.st = "TWR2"
  BY <1>3, Turned, SeqMoves
<1>5. CASE Carries(io.o, g, g.last) /\ Landing(g, g.last)
  <2>1. landed' = Upto(g, g.last + 1)
    <3>1. g.last \in 0 .. g.last
      BY <1>3
    <3> QED BY <1>3, <1>5, <3>1, LandsThere
  <2> QED BY <1>2, <1>3, <1>4, <2>1
<1>6. CASE io.o.cmd.op = "STOP" /\ landed = Upto(g, g.last + 1)
  <2>1. C!Storing(Pins) = C!Nothing /\ Pins.op = "STOP"
    BY <1>3, <1>6, ChipNext DEF Pins
  <2>2. landed' = landed
    BY <1>3, <2>1 DEF Lands
  <2> QED BY <1>2, <1>3, <1>4, <1>6, <2>1, <2>2
<1> QED BY <1>1, <1>5, <1>6

-----------------------------------------------------------------------------
(* A fill takes what leaves the chip, two clocks later.                    *)
LEMMA FlowTurn ==
  ASSUME PathInv, TandemInv, NEW l, NEW m, NEW g, NEW b, NEW p, NEW start, Turn(l, m, g, b, p, start),
         Reading, Flows(l, g), l.st \in Filling, ~ io.o.rdy, l.st = "FILL_STREAM" => io.o.dok
  PROVE  /\ m.st \in Filling /\ Flows(m, g)' /\ Pos(l) \in Nat
         /\ Pos(m) = IF l.st = "FILL_STREAM" /\ l.tail THEN g.last + 3 ELSE Pos(l) + 1
         /\ l.st = "FILL_STREAM" /\ l.tail => m.st = "FILL_STREAM" /\ m.tail
<1>1. InARow(g) /\ Both(p, start) /\ Known(l, g) /\ Known(m, g) /\ Moved(l, m, g, b) /\ Given(b)
      /\ g.last \in Nat \ {0}
  BY DEF Turn, InARow
<1>2. Pins.op = "NOP" /\ chip.next \in {"NOP", "READ"}
  BY Issued DEF TandemInv, OutInv
<1>3. /\ chip'.next = "NOP" /\ io'.dout = chip.out
      /\ chip'.out = IF chip.next = "READ" THEN chip.at ELSE C!NextColumn(chip.out)
  BY <1>1, <1>2, ChipNext, Turned
<1>4. CASE l.st = "FILL_WB_WAIT"
  <2>1. Pos(l) = 0 /\ m.st = "FILL_WB_PRIME" /\ m.wait /\ Pos(m) = 1
    BY <1>1, <1>4 DEF Moved, Pos
  <2>2. chip'.out = At(g, 0)
    BY <1>3, <2>1 DEF Flows
  <2>3. Flows(m, g)'
    BY <1>1, <1>3, <2>1, <2>2 DEF Flows
  <2> QED BY <1>4, <2>1, <2>3 DEF Filling
<1>5. CASE l.st # "FILL_WB_WAIT"
  <2>1. Pos(l) \in Nat /\ Pos(l) > 0
        /\ (l.st = "FILL_STREAM" /\ l.tail => Pos(l) = g.last + 3)
        /\ (l.st = "FILL_STREAM" /\ ~ l.tail => Pos(l) = l.word + 2)
        /\ (l.st = "FILL_WB_PRIME" /\ ~ l.wait => Pos(l) = 2)
        /\ (l.st = "FILL_WB_PRIME" /\ l.wait => Pos(l) = 1)
    BY <1>1, <1>5 DEF Pos, Filling, Known
  <2>2. /\ m.st \in {"FILL_WB_PRIME", "FILL_STREAM"}
        /\ Pos(m) = IF l.st = "FILL_STREAM" /\ l.tail THEN g.last + 3 ELSE Pos(l) + 1
        /\ l.st = "FILL_STREAM" /\ l.tail => m.st = "FILL_STREAM" /\ m.tail
    <3>1. CASE l.st = "FILL_WB_PRIME" /\ l.wait
      BY <1>1, <2>1, <3>1 DEF Pos, Moved
    <3>2. CASE l.st = "FILL_WB_PRIME" /\ ~ l.wait
      BY <1>1, <2>1, <3>2 DEF Pos, Moved, Given
    <3>3. CASE l.st = "FILL_STREAM"
      <4>1. m.st = "FILL_STREAM" /\ m.word = (IF l.word = g.last THEN g.last ELSE l.word + 1)
            /\ (m.tail <=> l.word = g.last)
        BY <1>1, <3>3 DEF Moved, Given
      <4>2. Pos(m) = IF m.tail THEN m.word + 3 ELSE m.word + 2
        BY <4>1 DEF Pos
      <4> QED BY <1>1, <2>1, <3>3, <4>1, <4>2 DEF Known
    <3> QED BY <1>1, <1>5, <3>1, <3>2, <3>3 DEF Filling, Known
  <2>3. chip.next = "NOP"
    BY <2>1 DEF Flows
  <2>4. chip'.out = C!NextColumn(chip.out)
    BY <1>3, <2>3
  <2> DEFINE n == Pos(l)
             k == Pos(m)
  <2>5. /\ n - 1 <= g.last => chip.out = At(g, n - 1)
        /\ n > 1 /\ n - 2 <= g.last => io.dout = At(g, n - 2)
        /\ l.st = "FILL_STREAM" => \A i \in 0 .. (IF l.tail THEN g.last ELSE l.word - 1) : l.buf[i] = At(g, i)
    BY <2>1 DEF Flows
  <2> HIDE DEF n, k
  <2>6. n \in Nat /\ k \in Nat /\ n > 0 /\ k > 1
        /\ k = (IF l.st = "FILL_STREAM" /\ l.tail THEN g.last + 3 ELSE n + 1)
    BY <1>1, <2>1, <2>2 DEF n, k
  <2>7. k - 1 <= g.last => chip'.out = At(g, k - 1)
    <3> HAVE k - 1 <= g.last
    <3>1. k = n + 1 /\ n - 1 \in 0 .. g.last - 1 /\ (n - 1) + 1 = k - 1
      BY <1>1, <2>6
    <3>2. C!NextColumn(At(g, n - 1)) = At(g, (n - 1) + 1)
      BY <1>1, <3>1 DEF InARow
    <3> QED BY <1>1, <2>4, <2>5, <3>1, <3>2
  <2>8. k - 2 <= g.last => io'.dout = At(g, k - 2)
    <3> HAVE k - 2 <= g.last
    <3>1. k = n + 1 /\ n - 1 = k - 2
      BY <1>1, <2>6
    <3> QED BY <1>3, <2>5, <3>1
  <2>9. m.st = "FILL_STREAM" => \A i \in 0 .. (IF m.tail THEN g.last ELSE m.word - 1) : m.buf[i] = At(g, i)
    <3> HAVE m.st = "FILL_STREAM"
    <3>1. CASE l.st = "FILL_WB_PRIME"
      <4>1. ~ l.wait /\ m.word = 1 /\ ~ m.tail /\ m.buf[0] = io.dout /\ n = 2
        BY <1>1, <2>1, <3>1 DEF Moved, Given, n
      <4>2. io.dout = At(g, 0) /\ 0 .. 1 - 1 = {0}
        BY <1>1, <2>5, <4>1
      <4> QED BY <4>1, <4>2
    <3>2. CASE l.st = "FILL_STREAM"
      <4>1. /\ \A i \in 0 .. g.last : m.buf[i] = IF i = l.word /\ ~ l.tail THEN io.dout ELSE l.buf[i]
            /\ m.word = (IF l.word = g.last THEN g.last ELSE l.word + 1)
            /\ m.tail <=> l.word = g.last
        BY <1>1, <3>2 DEF Moved, Given
      <4>2. CASE l.tail
        BY <1>1, <2>5, <3>2, <4>1, <4>2 DEF Known
      <4>3. CASE ~ l.tail
        <5>1. io.dout = At(g, l.word) /\ l.word \in 0 .. g.last
          BY <1>1, <2>1, <2>5, <3>2, <4>3 DEF Known, n
        <5>2. (IF m.tail THEN g.last ELSE m.word - 1) = l.word
          BY <1>1, <4>1, <5>1
        <5>3. \A i \in 0 .. l.word : m.buf[i] = At(g, i)
          BY <1>1, <2>5, <3>2, <4>1, <4>3, <5>1
        <5> QED BY <5>2, <5>3
      <4> QED BY <4>2, <4>3
    <3> QED BY <1>5, <3>1, <3>2 DEF Filling
  <2>10. Flows(m, g)'
    BY <1>3, <2>6, <2>7, <2>8, <2>9 DEF Flows, k
  <2> QED BY <2>1, <2>2, <2>10 DEF Filling
<1> QED BY <1>4, <1>5

(* The latency of a read: the first half-words leave the chip.             *)
LEMMA LatencyTurn ==
  ASSUME PathInv, TandemInv, NEW l, NEW m, NEW g, NEW b, NEW p, NEW start, Turn(l, m, g, b, p, start),
         burst.st = "CL2"
  PROVE  Link(m, g)' /\ ~ io.o.rdy
<1>1. /\ ~ burst.write /\ burst.ba = g.bank /\ Link(l, g) /\ ~ Waiting /\ ReadLink(l, g)
      /\ InARow(g) /\ Asks(p) /\ Both(p, start) /\ ~ CtrlBusy /\ Moved(l, m, g, b) /\ Given(b)
      /\ g.base \in Nat /\ Known(m, g)
  BY Turned DEF Turn, Link, Waiting, ReadStates, InARow
<1>2. ~ io.o.rdy
  BY Turned DEF ReadPipe, Reads, Empty, Silent, Tells
<1>3. /\ burst'.ba = g.bank /\ ~ burst'.write /\ burst'.addr = burst.addr
      /\ burst'.st = IF burst.wait THEN "CL2" ELSE "RDATA"
  BY <1>1, Turned, SeqMoves
<1>4. CASE Acking
  <2>1. l.st = "FILL_REQ" /\ burst.addr = g.base
    BY <1>1, <1>4 DEF ReadLink
  <2>2. m.st = "FILL_WB_WAIT"
    BY <1>1, <1>4, <2>1 DEF Moved, Given, Acking
  <2>3. ~ Acking'
    BY <1>4, Turned DEF ReadPipe, Empty, Silent, Tells
  <2>4. chip'.next = "READ" /\ chip'.at = At(g, 0)
    <3>1. Pins.op = "READ" /\ Pins.ba = g.bank /\ Pins.a = g.base + 0
      BY <1>1, <1>4, <2>1, Issued
    <3> QED BY <1>1, <3>1, ChipNext DEF At
  <2>5. Pos(m) = 0 /\ Flows(m, g)'
    BY <2>2, <2>4 DEF Flows, Pos
  <2>6. ReadLink(m, g)'
    BY <1>1, <1>3, <2>1, <2>2, <2>3, <2>5 DEF ReadLink, Filling
  <2> QED BY <1>2, <1>3, <2>2, <2>6 DEF Link, Mid, Waiting
<1>5. CASE ~ Acking
  <2>1. l.st = "FILL_WB_WAIT" /\ burst.addr = g.base /\ Flows(l, g) /\ ~ burst.wait
    BY <1>1, <1>5, Turned DEF ReadLink, ReadPipe
  <2>2. Reading /\ l.st \in Filling /\ l.st # "FILL_STREAM"
    BY <1>5, <2>1 DEF Reading, Filling
  <2>3. m.st = "FILL_WB_PRIME" /\ m.wait
    BY <1>1, <2>1 DEF Moved
  <2>4. Flows(m, g)'
    BY <1>2, <2>1, <2>2, FlowTurn
  <2>5. Pos(m) = 1
    BY <2>3 DEF Pos
  <2>6. ReadLink(m, g)'
    BY <1>1, <1>3, <2>1, <2>3, <2>4, <2>5 DEF ReadLink, Filling
  <2> QED BY <1>2, <1>3, <2>1, <2>3, <2>6 DEF Link, Mid, Waiting
<1> QED BY <1>4, <1>5

(* A beat of a read.                                                       *)
LEMMA ReadTurn ==
  ASSUME PathInv, TandemInv, NEW l, NEW m, NEW g, NEW b, NEW p, NEW start, Turn(l, m, g, b, p, start),
         burst.st = "RDATA"
  PROVE  Link(m, g)' /\ ~ io.o.rdy
<1>1. /\ ~ burst.write /\ burst.ba = g.bank /\ ReadLink(l, g)
      /\ InARow(g) /\ Asks(p) /\ Both(p, start) /\ ~ CtrlBusy /\ Known(l, g) /\ Shown(l, g, p)
      /\ g.base \in Nat /\ g.last \in Nat \ {0} /\ burst.addr \in Nat
  BY Turned DEF Turn, Link, Waiting, ReadStates, InARow
<1>2. ~ io.o.rdy
  BY Turned DEF ReadPipe, Beats
<1> DEFINE n == Pos(l)
<1>3. /\ l.st \in Filling /\ ~ (l.st = "FILL_STREAM" /\ l.tail) /\ Flows(l, g)
      /\ burst.addr \in {g.base + n, g.base + n - 1} /\ burst.addr >= g.base
      /\ burst.addr > g.base => io.r.dok
      /\ burst.addr > g.base + 1 => io.o.dok
  BY <1>1 DEF ReadLink
<1>4. /\ n \in Nat /\ n <= g.last + 2
      /\ l.st = "FILL_STREAM" => n >= 3
      /\ l.st # "FILL_STREAM" => n <= 2
      /\ n = g.last + 2 /\ l.st = "FILL_STREAM" => l.word = g.last
      /\ l.st = "FILL_STREAM" /\ l.word = g.last => n = g.last + 2
  BY <1>1, <1>3 DEF Known, Filling, Pos
<1>5. Reading /\ (l.st = "FILL_STREAM" => io.o.dok)
  BY <1>1, <1>3, <1>4 DEF Reading
<1>6. m.st \in Filling /\ Flows(m, g)' /\ Pos(m) = n + 1
  BY <1>2, <1>3, <1>5, FlowTurn
<1>7. Known(m, g)
  BY DEF Turn
<1>8. p.rd <=> ~ (l.st = "FILL_STREAM" /\ l.word = g.last)
  BY <1>1, <1>3 DEF Shown, Filling
<1> HIDE DEF n
<1>9. /\ burst'.ba = g.bank /\ ~ burst'.write /\ burst'.addr = NextCell
      /\ burst'.st = IF Last \/ ~ p.rd THEN "STOP" ELSE "RDATA"
  BY <1>1, Turned, SeqMoves
<1>10. io'.o = io.r
  BY Turned
<1>11. CASE Last \/ ~ p.rd
  <2>1. n >= g.last /\ burst.addr > g.base
    <3>1. CASE Last
      <4>1. \A i \in 0 .. g.last - 1 : burst.addr # g.base + i
        BY <1>1, <3>1 DEF InARow, Last
      <4>2. PICK d \in Nat : burst.addr = g.base + d
        <5>1. burst.addr - g.base \in Nat /\ burst.addr = g.base + (burst.addr - g.base)
          BY <1>1, <1>3
        <5> QED BY <5>1
      <4>3. d >= g.last
        BY <1>1, <4>1, <4>2
      <4>4. d = n \/ d = n - 1
        BY <1>1, <1>3, <1>4, <4>2
      <4> QED BY <1>1, <1>4, <4>2, <4>3, <4>4
    <3>2. CASE ~ p.rd
      BY <1>1, <1>3, <1>4, <1>8, <3>2
    <3> QED BY <1>11, <3>1, <3>2
  <2>2. n + 1 \in g.last + 1 .. g.last + 3
    BY <1>1, <1>4, <2>1
  <2>3. io.r.dok
    BY <1>3, <2>1
  <2>4. burst'.st = "STOP"
    BY <1>9, <1>11
  <2>5. ReadLink(m, g)'
    BY <1>6, <1>9, <1>10, <2>2, <2>3, <2>4 DEF ReadLink
  <2> QED BY <1>2, <1>6, <1>9, <2>4, <2>5 DEF Link, Mid, Waiting, Filling
<1>12. CASE ~ Last /\ p.rd
  <2>1. burst'.st = "RDATA" /\ burst'.addr = burst.addr + 1
    BY <1>9, <1>12 DEF NextCell
  <2>2. ~ (m.st = "FILL_STREAM" /\ m.tail)
    <3> SUFFICES ASSUME m.st = "FILL_STREAM", m.tail PROVE FALSE
      OBVIOUS
    <3>1. Pos(m) = g.last + 3
      BY <1>7 DEF Pos, Known
    <3>2. n = g.last + 2
      BY <1>1, <1>4, <1>6, <3>1
    <3> QED BY <1>1, <1>4, <1>8, <1>12, <3>2
  <2>3. io'.r.dok
    <3>1. Selected(p).dok
      BY <1>1, Turned, SentBusy DEF Tells
    <3> QED BY <3>1, Turned, PipeNext
  <2>4. burst'.addr \in {g.base + Pos(m), g.base + Pos(m) - 1} /\ burst'.addr >= g.base
    BY <1>1, <1>3, <1>4, <1>6, <2>1
  <2>5. burst'.addr > g.base + 1 => io'.o.dok
    BY <1>1, <1>3, <1>10, <2>1
  <2>6. ReadLink(m, g)'
    BY <1>6, <2>1, <2>2, <2>3, <2>4, <2>5 DEF ReadLink
  <2> QED BY <1>2, <1>6, <1>9, <2>1, <2>6 DEF Link, Mid, Waiting, Filling
<1> QED BY <1>8, <1>11, <1>12

(* The end of a read: the chip goes on until it is stopped.                *)
LEMMA TailTurn ==
  ASSUME PathInv, TandemInv, NEW l, NEW m, NEW g, NEW b, NEW p, NEW start, Turn(l, m, g, b, p, start),
         burst.st = "STOP", ~ burst.write
  PROVE  Link(m, g)' /\ ~ io.o.rdy
<1>1. /\ burst.ba = g.bank /\ InARow(g) /\ Asks(p) /\ Both(p, start) /\ ~ CtrlBusy /\ g.last \in Nat \ {0}
      /\ l.st \in Filling /\ Pos(l) \in g.last + 1 .. g.last + 3 /\ Flows(l, g) /\ io.o.dok
  BY Turned DEF Turn, Link, Waiting, ReadLink, InARow
<1>2. ~ io.o.rdy
  BY Turned DEF ReadPipe, Beats
<1>3. Reading
  BY DEF Reading
<1>4. /\ m.st \in Filling /\ Flows(m, g)'
      /\ Pos(m) = IF l.st = "FILL_STREAM" /\ l.tail THEN g.last + 3 ELSE Pos(l) + 1
  BY <1>1, <1>2, <1>3, FlowTurn
<1>5. Pos(m) \in g.last + 2 .. g.last + 3
  <2>1. ~ (l.st = "FILL_STREAM" /\ l.tail) => Pos(l) <= g.last + 2
    <3>1. Known(l, g)
      BY DEF Turn
    <3> QED BY <1>1, <3>1 DEF Known, Pos, Filling
  <2> QED BY <1>1, <1>4, <2>1
<1>6. burst'.st = "PRE" /\ burst'.ba = g.bank /\ ~ burst'.write
  BY <1>1, Turned, SeqMoves
<1>7. ReadLink(m, g)'
  BY <1>4, <1>5, <1>6 DEF ReadLink
<1> QED BY <1>2, <1>4, <1>6, <1>7 DEF Link, Mid, Waiting, Filling

(* The end of a read: rdy is given when the buffer holds the line.         *)
LEMMA CloseTurn ==
  ASSUME PathInv, TandemInv, NEW l, NEW m, NEW g, NEW b, NEW p, NEW start, Turn(l, m, g, b, p, start),
         burst.st = "PRE", ~ burst.write
  PROVE  /\ io.o.rdy /\ burst'.st = "TRP1"
         /\ m.st = "POSTFILL_WAIT" /\ \A i \in 0 .. g.last : m.buf[i] = At(g, i)
<1>1. /\ InARow(g) /\ Asks(p) /\ Both(p, start) /\ ~ CtrlBusy /\ g.last \in Nat \ {0}
      /\ l.st \in Filling /\ Pos(l) \in g.last + 2 .. g.last + 3 /\ Flows(l, g)
      /\ Known(l, g) /\ Moved(l, m, g, b) /\ Given(b)
  BY Turned DEF Turn, Link, Waiting, ReadLink, InARow
<1>2. io.o.rdy /\ io.o.dok
  BY Turned DEF ReadPipe, Closes, Tells
<1>3. burst'.st = "TRP1"
  BY <1>1, Turned, SeqMoves
<1>4. l.st = "FILL_STREAM" /\ (~ l.tail => l.word = g.last)
  BY <1>1 DEF Pos, Filling, Known
<1>5. m.st = "POSTFILL_WAIT"
      /\ \A i \in 0 .. g.last : m.buf[i] = IF i = l.word /\ ~ l.tail THEN io.dout ELSE l.buf[i]
  BY <1>1, <1>2, <1>4 DEF Moved, Given
<1>6. CASE l.tail
  <2>1. \A i \in 0 .. g.last : l.buf[i] = At(g, i)
    BY <1>1, <1>4, <1>6 DEF Flows
  <2> QED BY <1>2, <1>3, <1>5, <1>6, <2>1
<1>7. CASE ~ l.tail
  <2>1. Pos(l) = g.last + 2
    BY <1>4, <1>7 DEF Pos
  <2>2. Pos(l) > 1 /\ Pos(l) - 2 = g.last /\ Pos(l) - 2 <= g.last
    BY <1>1, <2>1
  <2>3. io.dout = At(g, g.last)
    BY <1>1, <2>2 DEF Flows
  <2>4. \A i \in 0 .. g.last - 1 : l.buf[i] = At(g, i)
    BY <1>1, <1>4, <1>7 DEF Flows
  <2>5. \A i \in 0 .. g.last : m.buf[i] = At(g, i)
    BY <1>1, <1>4, <1>5, <1>7, <2>3, <2>4
  <2> QED BY <1>2, <1>3, <1>5, <2>5
<1> QED BY <1>1, <1>6, <1>7 DEF Known

(* The owner's clock: it goes on, or it is handed rdy and has its line.    *)
LEMMA OwnerTurn ==
  ASSUME PathInv, TandemInv, NEW l, NEW m, NEW g, NEW b, NEW p, NEW start, Turn(l, m, g, b, p, start)
  PROVE  /\ Left(m, g)'
         /\ ~ io.o.rdy => Link(m, g)'
         /\ io.o.rdy => m.st \notin Mid /\ (Waiting' \/ burst'.st = "TWR2")
<1>1. CASE Waiting
  BY <1>1, WaitTurn DEF Left, Link, Mid, Req
<1>2. CASE burst.st \in {"ACT", "TRCD1", "TRCD2", "WACK", "WDATA", "READ_CMD", "CL1"}
  BY <1>2, OpenTurn DEF Left, Link, Mid, Req
<1>3. CASE burst.st = "WRITE_CMD"
  BY <1>3, FirstTurn DEF Left, Link, Mid, Req
<1>4. CASE burst.st = "WRITE"
  BY <1>4, WriteTurn DEF Left, Link, Mid, Req
<1>5. CASE burst.st = "STOP"
  BY <1>5, StopTurn, TailTurn, Turned DEF Left, Link, Mid, Req
<1>6. CASE burst.st = "TWR1"
  <2>1. io.o.rdy /\ burst'.st = "TWR2" /\ m.st = "WB_GAP" /\ landed' = Upto(g, g.last + 1)
    BY <1>6, EndTurn
  <2> QED BY <2>1 DEF Left, Mid
<1>7. CASE burst.st = "CL2"
  BY <1>7, LatencyTurn DEF Left, Link, Mid, Req
<1>8. CASE burst.st = "RDATA"
  BY <1>8, ReadTurn DEF Left, Link, Mid, Req
<1>9. CASE burst.st = "PRE" /\ ~ burst.write
  <2>1. /\ io.o.rdy /\ burst'.st = "TRP1" /\ m.st = "POSTFILL_WAIT"
        /\ \A i \in 0 .. g.last : m.buf[i] = At(g, i)
    BY <1>9, CloseTurn
  <2> QED BY <2>1 DEF Left, Mid, Waiting
<1>10. Waiting \/ burst.st # "TWR2"
  BY DEF Turn, Link
<1> QED BY <1>1, <1>2, <1>3, <1>4, <1>5, <1>6, <1>7, <1>8, <1>9, <1>10, Turned DEF Waiting, BurstStates, After

(* A lane that does not own the port is handed nothing.                    *)
Quiet(b) == ~ b.ack /\ ~ b.dok /\ ~ b.rdy

(* A lane that is told nothing neither enters nor leaves the port.         *)
LEMMA OtherTurn ==
  ASSUME NEW l, NEW m, NEW g, NEW b, Moved(l, m, g, b), Quiet(b), l.st \notin Mid
  PROVE  /\ m.st \notin Mid /\ Left(m, g)'
         /\ l.st \in Req => m.st = l.st
<1>1. m.st \notin Mid \cup {"WB_GAP", "POSTFILL_WAIT"} /\ (l.st \in Req => m.st = l.st)
  BY DEF Moved, Quiet, Mid, Req
<1> QED BY <1>1 DEF Left

(* A port that is free stays free for the one who takes it.                *)
LEMMA FreeTurn ==
  ASSUME PathInv, NEW p, NEW start, Both(p, start), Asks(p), ~ p.rd, ~ p.wr,
         Waiting \/ burst.st = "TWR2"
  PROVE  Waiting'
<1>1. burst \in SeqRegs /\ (burst.st \in WriteStates => burst.write)
  BY DEF PathInv, SeqInv
<1>2. CASE CtrlBusy
  BY <1>2, Stays, Kept DEF Both, Waiting
<1>3. CASE ~ CtrlBusy
  BY <1>1, <1>3, SeqMoves DEF Both, Waiting, WriteStates
<1> QED BY <1>2, <1>3

-----------------------------------------------------------------------------
(* The two lanes.                                                          *)
LEMMA LineGeometry ==
  LA!Geometry /\ LB!Geometry /\ InARow(LineA) /\ InARow(LineB)
<1>1. /\ GoodLine(WordsA, HalfA, BaseA) /\ GoodLine(WordsB, HalfB, BaseB)
  BY LinesAssumption
<1>2. LA!Geometry /\ LB!Geometry
  BY <1>1 DEF GoodLine, LA!Geometry, LB!Geometry
<1>3. InARow(LineA)
  BY <1>1, Straight DEF LineA
<1>4. InARow(LineB)
  BY <1>1, Straight DEF LineB
<1> QED BY <1>2, <1>3, <1>4

(* The lane of the path is the lane that was proved about.                 *)
LEMMA SameA ==
  ASSUME NEW b
  PROVE  /\ A!LaneInit <=> LA!LaneInit
         /\ A!LaneStep(b) <=> LA!LaneStep(b)
         /\ (A!ExtRd <=> LA!ExtRd) /\ (A!ExtWr <=> LA!ExtWr) /\ A!ExtDout = LA!ExtDout
         /\ A!ExtReq <=> LA!ExtReq
         /\ \A i \in Nat : LA!Cell(i) = At(LineA, i) /\ A!Cell(i) = At(LineA, i)
<1>1. A!LaneInit <=> LA!LaneInit
  BY DEF A!LaneInit, LA!LaneInit, A!Cell, LA!Cell, A!LastWord, LA!LastWord
<1>2. (A!ExtRd <=> LA!ExtRd) /\ (A!ExtWr <=> LA!ExtWr) /\ (A!ExtReq <=> LA!ExtReq)
  BY DEF A!ExtRd, LA!ExtRd, A!ExtWr, LA!ExtWr, A!ExtReq, LA!ExtReq, A!LastWord, LA!LastWord
<1>3. A!ExtDout = LA!ExtDout
  BY DEF A!ExtDout, LA!ExtDout, A!Cell, LA!Cell, A!HalfIndex, LA!HalfIndex, A!LastWord, LA!LastWord
<1>4. \A i \in Nat : LA!Cell(i) = At(LineA, i) /\ A!Cell(i) = At(LineA, i)
  BY DEF LA!Cell, A!Cell, At, LineA
<1>5. A!LaneStep(b) <=> LA!LaneStep(b)
  BY DEF A!LaneStep, LA!LaneStep, A!Rest, LA!Rest, A!Ask, LA!Ask, A!Flush, LA!Flush, A!Hit, LA!Hit,
     A!Serve, LA!Serve, A!Wait, LA!Wait, A!Check, LA!Check, A!Advance, LA!Advance, A!Done, LA!Done,
     A!Evict, LA!Evict, A!Miss, LA!Miss, A!WbLoad, LA!WbLoad, A!WbPrime, LA!WbPrime,
     A!WbReq, LA!WbReq, A!WbStream, LA!WbStream, A!WbGap, LA!WbGap, A!FillReq, LA!FillReq,
     A!FillWait, LA!FillWait, A!FillPrime, LA!FillPrime, A!FillStream, LA!FillStream,
     A!PostFill, LA!PostFill, A!To, LA!To, A!Fetch, LA!Fetch, A!Keep, LA!Keep,
     A!WbPrefetch, LA!WbPrefetch, A!WbTakes, LA!WbTakes, A!LastWord, LA!LastWord, A!Stale, LA!Stale
<1> QED BY <1>1, <1>2, <1>3, <1>4, <1>5

(* What the lane shows and how it moves, in the words of the port.         *)
LEMMA MovesA ==
  ASSUME LA!LaneInv, NEW b, b.ack \in BOOLEAN, b.dok \in BOOLEAN, b.rdy \in BOOLEAN, A!LaneStep(b)
  PROVE  LA!LaneInv' /\ Moved(laneA, laneA', LineA, b)
<1>1. LA!LaneInv' /\ LA!LaneMoves(b)
  <2>1. LA!Bus(b) /\ LA!LaneStep(b)
    BY SameA DEF LA!Bus
  <2> QED BY <2>1, LineGeometry, LA!LaneNext
<1>2. laneA.st \in LA!AllStates
  BY DEF LA!LaneInv, LA!LaneRegs
<1>3. LineA.last = LA!LastWord
  BY DEF LineA, LA!LastWord
<1>4. laneA.st \notin Mid \cup Req => laneA'.st \notin Mid \cup {"WB_GAP", "POSTFILL_WAIT"}
  BY <1>1, <1>2 DEF LA!LaneMoves, LA!AllStates, LA!WriteStates, LA!ReadStates, LA!OtherStates,
     LA!Mid, Mid, Req
<1> QED BY <1>1, <1>3, <1>4 DEF LA!LaneMoves, Moved

(* What the lane shows on the port.                                        *)
LEMMA ShowsA ==
  ASSUME LA!LaneInv
  PROVE  /\ Known(laneA, LineA)
         /\ laneA.st = "WB_REQ" => A!ExtWr /\ ~ A!ExtRd /\ A!ExtDout = At(LineA, 0)
         /\ laneA.st = "WB_STREAM" => /\ ~ A!ExtRd /\ (A!ExtWr <=> laneA.word # LineA.last)
                                      /\ laneA.word # LineA.last => A!ExtDout = At(LineA, laneA.word + 1)
         /\ laneA.st \in {"FILL_REQ", "FILL_WB_WAIT", "FILL_WB_PRIME"} => A!ExtRd /\ ~ A!ExtWr
         /\ laneA.st = "FILL_STREAM" => ~ A!ExtWr /\ (A!ExtRd <=> laneA.word # LineA.last)
         /\ A!ExtReq => laneA.st \in Mid \cup Req
<1>1. LineA.last = LA!LastWord /\ LA!LastWord \in Nat
  BY LineGeometry DEF LineA, LA!LastWord, LA!Geometry
<1>2. Known(laneA, LineA)
  BY <1>1 DEF LA!LaneInv, LA!LaneRegs, LA!Counted, Known
<1>3. laneA.word \in Nat /\ laneA.word + 1 \in Nat /\ 0 \in Nat
  BY <1>1, <1>2 DEF Known
<1>4. \A i \in Nat : LA!Cell(i) = At(LineA, i)
  BY SameA
<1>5. (A!ExtRd <=> LA!ExtRd) /\ (A!ExtWr <=> LA!ExtWr) /\ A!ExtDout = LA!ExtDout /\ (A!ExtReq <=> LA!ExtReq)
  BY SameA
<1> QED BY <1>1, <1>2, <1>3, <1>4, <1>5, LineGeometry, LA!LanePort DEF LA!Mid, Mid, Req

(* The lane of the path is the lane that was proved about.                 *)
LEMMA SameB ==
  ASSUME NEW b
  PROVE  /\ B!LaneInit <=> LB!LaneInit
         /\ B!LaneStep(b) <=> LB!LaneStep(b)
         /\ (B!ExtRd <=> LB!ExtRd) /\ (B!ExtWr <=> LB!ExtWr) /\ B!ExtDout = LB!ExtDout
         /\ B!ExtReq <=> LB!ExtReq
         /\ \A i \in Nat : LB!Cell(i) = At(LineB, i) /\ B!Cell(i) = At(LineB, i)
<1>1. B!LaneInit <=> LB!LaneInit
  BY DEF B!LaneInit, LB!LaneInit, B!Cell, LB!Cell, B!LastWord, LB!LastWord
<1>2. (B!ExtRd <=> LB!ExtRd) /\ (B!ExtWr <=> LB!ExtWr) /\ (B!ExtReq <=> LB!ExtReq)
  BY DEF B!ExtRd, LB!ExtRd, B!ExtWr, LB!ExtWr, B!ExtReq, LB!ExtReq, B!LastWord, LB!LastWord
<1>3. B!ExtDout = LB!ExtDout
  BY DEF B!ExtDout, LB!ExtDout, B!Cell, LB!Cell, B!HalfIndex, LB!HalfIndex, B!LastWord, LB!LastWord
<1>4. \A i \in Nat : LB!Cell(i) = At(LineB, i) /\ B!Cell(i) = At(LineB, i)
  BY DEF LB!Cell, B!Cell, At, LineB
<1>5. B!LaneStep(b) <=> LB!LaneStep(b)
  BY DEF B!LaneStep, LB!LaneStep, B!Rest, LB!Rest, B!Ask, LB!Ask, B!Flush, LB!Flush, B!Hit, LB!Hit,
     B!Serve, LB!Serve, B!Wait, LB!Wait, B!Check, LB!Check, B!Advance, LB!Advance, B!Done, LB!Done,
     B!Evict, LB!Evict, B!Miss, LB!Miss, B!WbLoad, LB!WbLoad, B!WbPrime, LB!WbPrime,
     B!WbReq, LB!WbReq, B!WbStream, LB!WbStream, B!WbGap, LB!WbGap, B!FillReq, LB!FillReq,
     B!FillWait, LB!FillWait, B!FillPrime, LB!FillPrime, B!FillStream, LB!FillStream,
     B!PostFill, LB!PostFill, B!To, LB!To, B!Fetch, LB!Fetch, B!Keep, LB!Keep,
     B!WbPrefetch, LB!WbPrefetch, B!WbTakes, LB!WbTakes, B!LastWord, LB!LastWord, B!Stale, LB!Stale
<1> QED BY <1>1, <1>2, <1>3, <1>4, <1>5

(* What the lane shows and how it moves, in the words of the port.         *)
LEMMA MovesB ==
  ASSUME LB!LaneInv, NEW b, b.ack \in BOOLEAN, b.dok \in BOOLEAN, b.rdy \in BOOLEAN, B!LaneStep(b)
  PROVE  LB!LaneInv' /\ Moved(laneB, laneB', LineB, b)
<1>1. LB!LaneInv' /\ LB!LaneMoves(b)
  <2>1. LB!Bus(b) /\ LB!LaneStep(b)
    BY SameB DEF LB!Bus
  <2> QED BY <2>1, LineGeometry, LB!LaneNext
<1>2. laneB.st \in LB!AllStates
  BY DEF LB!LaneInv, LB!LaneRegs
<1>3. LineB.last = LB!LastWord
  BY DEF LineB, LB!LastWord
<1>4. laneB.st \notin Mid \cup Req => laneB'.st \notin Mid \cup {"WB_GAP", "POSTFILL_WAIT"}
  BY <1>1, <1>2 DEF LB!LaneMoves, LB!AllStates, LB!WriteStates, LB!ReadStates, LB!OtherStates,
     LB!Mid, Mid, Req
<1> QED BY <1>1, <1>3, <1>4 DEF LB!LaneMoves, Moved

(* What the lane shows on the port.                                        *)
LEMMA ShowsB ==
  ASSUME LB!LaneInv
  PROVE  /\ Known(laneB, LineB)
         /\ laneB.st = "WB_REQ" => B!ExtWr /\ ~ B!ExtRd /\ B!ExtDout = At(LineB, 0)
         /\ laneB.st = "WB_STREAM" => /\ ~ B!ExtRd /\ (B!ExtWr <=> laneB.word # LineB.last)
                                      /\ laneB.word # LineB.last => B!ExtDout = At(LineB, laneB.word + 1)
         /\ laneB.st \in {"FILL_REQ", "FILL_WB_WAIT", "FILL_WB_PRIME"} => B!ExtRd /\ ~ B!ExtWr
         /\ laneB.st = "FILL_STREAM" => ~ B!ExtWr /\ (B!ExtRd <=> laneB.word # LineB.last)
         /\ B!ExtReq => laneB.st \in Mid \cup Req
<1>1. LineB.last = LB!LastWord /\ LB!LastWord \in Nat
  BY LineGeometry DEF LineB, LB!LastWord, LB!Geometry
<1>2. Known(laneB, LineB)
  BY <1>1 DEF LB!LaneInv, LB!LaneRegs, LB!Counted, Known
<1>3. laneB.word \in Nat /\ laneB.word + 1 \in Nat /\ 0 \in Nat
  BY <1>1, <1>2 DEF Known
<1>4. \A i \in Nat : LB!Cell(i) = At(LineB, i)
  BY SameB
<1>5. (B!ExtRd <=> LB!ExtRd) /\ (B!ExtWr <=> LB!ExtWr) /\ B!ExtDout = LB!ExtDout /\ (B!ExtReq <=> LB!ExtReq)
  BY SameB
<1> QED BY <1>1, <1>2, <1>3, <1>4, <1>5, LineGeometry, LB!LanePort DEF LB!Mid, Mid, Req

-----------------------------------------------------------------------------
(* The invariant from one clock to the next.                               *)
LEMMA OwnersA ==
  ASSUME PathInv, TandemInv, LineInv, NEW start, Clock(start), Owns(0), NEW m, m = laneA'
  PROVE  Turn(laneA, m, LineA, Answer(0), Request, start)
<1>1. /\ LA!LaneInv /\ Link(laneA, LineA) /\ arb.active /\ arb.sel = 0
  BY DEF LineInv, Owns
<1>2. /\ Answer(0).ack = (Owns(0) /\ io.o.ack) /\ Answer(0).dok = (Owns(0) /\ io.o.dok)
      /\ Answer(0).rdy = (Owns(0) /\ io.o.rdy) /\ Answer(0).din = io.dout
  BY DEF Answer
<1>3. Given(Answer(0)) /\ Answer(0).ack \in BOOLEAN /\ Answer(0).dok \in BOOLEAN /\ Answer(0).rdy \in BOOLEAN
  BY <1>2 DEF Given
<1>4. Moved(laneA, m, LineA, Answer(0)) /\ LA!LaneInv'
  <2>1. A!LaneStep(Answer(0))
    BY DEF Clock
  <2> QED BY <1>1, <1>3, <2>1, MovesA
<1>5. Known(laneA, LineA) /\ Known(m, LineA)
  <2>1. Known(laneA, LineA)'
    BY <1>4, LineGeometry DEF LA!LaneInv, LA!LaneRegs, LA!Counted, Known, LineA, LA!LastWord, LA!Geometry
  <2> QED BY <1>1, <2>1, ShowsA DEF Known
<1>6. ~ Owns(1)
  BY <1>1 DEF Owns
<1>7. /\ Request.rd = ((Owns(0) /\ A!ExtRd) \/ (Owns(1) /\ B!ExtRd))
      /\ Request.wr = ((Owns(0) /\ A!ExtWr) \/ (Owns(1) /\ B!ExtWr))
      /\ Request.ba = BankA /\ Request.addr = BaseA /\ Request.din = A!ExtDout
  BY <1>1 DEF Request
<1>8. Shown(laneA, LineA, Request)
  BY <1>1, <1>6, <1>7, ShowsA DEF Shown, LineA
<1>9. Both(Request, start) /\ Lands
  BY DEF Clock, Both, Moves
<1> QED BY <1>1, <1>3, <1>4, <1>5, <1>8, <1>9, RequestAsks, LineGeometry DEF Turn

(* The lane that owns the port sees its own answers, the controller its request. *)
LEMMA OwnersB ==
  ASSUME PathInv, TandemInv, LineInv, NEW start, Clock(start), Owns(1), NEW m, m = laneB'
  PROVE  Turn(laneB, m, LineB, Answer(1), Request, start)
<1>1. /\ LB!LaneInv /\ Link(laneB, LineB) /\ arb.active /\ arb.sel = 1
  BY DEF LineInv, Owns
<1>2. /\ Answer(1).ack = (Owns(1) /\ io.o.ack) /\ Answer(1).dok = (Owns(1) /\ io.o.dok)
      /\ Answer(1).rdy = (Owns(1) /\ io.o.rdy) /\ Answer(1).din = io.dout
  BY DEF Answer
<1>3. Given(Answer(1)) /\ Answer(1).ack \in BOOLEAN /\ Answer(1).dok \in BOOLEAN /\ Answer(1).rdy \in BOOLEAN
  BY <1>2 DEF Given
<1>4. Moved(laneB, m, LineB, Answer(1)) /\ LB!LaneInv'
  <2>1. B!LaneStep(Answer(1))
    BY DEF Clock
  <2> QED BY <1>1, <1>3, <2>1, MovesB
<1>5. Known(laneB, LineB) /\ Known(m, LineB)
  <2>1. Known(laneB, LineB)'
    BY <1>4, LineGeometry DEF LB!LaneInv, LB!LaneRegs, LB!Counted, Known, LineB, LB!LastWord, LB!Geometry
  <2> QED BY <1>1, <2>1, ShowsB DEF Known
<1>6. ~ Owns(0)
  BY <1>1 DEF Owns
<1>7. /\ Request.rd = ((Owns(0) /\ A!ExtRd) \/ (Owns(1) /\ B!ExtRd))
      /\ Request.wr = ((Owns(0) /\ A!ExtWr) \/ (Owns(1) /\ B!ExtWr))
      /\ Request.ba = BankB /\ Request.addr = BaseB /\ Request.din = B!ExtDout
  BY <1>1 DEF Request
<1>8. Shown(laneB, LineB, Request)
  BY <1>1, <1>6, <1>7, ShowsB DEF Shown, LineB
<1>9. Both(Request, start) /\ Lands
  BY DEF Clock, Both, Moves
<1> QED BY <1>1, <1>3, <1>4, <1>5, <1>8, <1>9, RequestAsks, LineGeometry DEF Turn

(* A name for the next value of a lane may be replaced by it.              *)
LEMMA Primed ==
  ASSUME NEW m, NEW k, m = laneA', k = laneB'
  PROVE  /\ (Link(m, LineA)' => Link(laneA, LineA)') /\ (Left(m, LineA)' => Left(laneA, LineA)')
         /\ (Link(k, LineB)' => Link(laneB, LineB)') /\ (Left(k, LineB)' => Left(laneB, LineB)')
<1>1. (Left(m, LineA)' => Left(laneA, LineA)') /\ (Left(k, LineB)' => Left(laneB, LineB)')
  BY DEF Left
<1>2. Flows(m, LineA)' <=> Flows(laneA, LineA)'
  BY DEF Flows, Pos
<1>3. Flows(k, LineB)' <=> Flows(laneB, LineB)'
  BY DEF Flows, Pos
<1>4. ReadLink(m, LineA)' => ReadLink(laneA, LineA)'
  BY <1>2 DEF ReadLink, Pos
<1>5. ReadLink(k, LineB)' => ReadLink(laneB, LineB)'
  BY <1>3 DEF ReadLink, Pos
<1>6. WriteLink(m, LineA)' => WriteLink(laneA, LineA)'
  BY DEF WriteLink, Carries, Landing
<1>7. WriteLink(k, LineB)' => WriteLink(laneB, LineB)'
  BY DEF WriteLink, Carries, Landing
<1>8. (Link(m, LineA)' => Link(laneA, LineA)') /\ (Link(k, LineB)' => Link(laneB, LineB)')
  BY <1>4, <1>5, <1>6, <1>7 DEF Link
<1> QED BY <1>1, <1>8

(* The arbiter chooses a lane that asks.                                   *)
LEMMA Chosen ==
  ASSUME NEW asking, asking \subseteq {0, 1}, asking # {}
  PROVE  Min(asking) \in asking
<1>1. asking \in {{0}, {1}, {0, 1}}
  OBVIOUS
<1>2. 0 <= 1 /\ ~ (1 <= 0) /\ 0 <= 0 /\ 1 <= 1
  OBVIOUS
<1>3. \E x \in asking : \A y \in asking : x <= y
  BY <1>1, <1>2
<1>4. Min(asking) = CHOOSE x \in asking : \A y \in asking : x <= y
  BY DEF Min
<1> QED BY <1>3, <1>4

(* The lane that does not own the port.                                    *)
LEMMA OthersA ==
  ASSUME LineInv, NEW start, Clock(start), ~ Owns(0), NEW m, m = laneA'
  PROVE  /\ LA!LaneInv' /\ Left(m, LineA)' /\ m.st \notin Mid
         /\ A!ExtReq => m.st \in Req
<1>1. LA!LaneInv /\ laneA.st \notin Mid
  BY DEF LineInv
<1>2. /\ Answer(0).ack = (Owns(0) /\ io.o.ack) /\ Answer(0).dok = (Owns(0) /\ io.o.dok)
      /\ Answer(0).rdy = (Owns(0) /\ io.o.rdy)
  BY DEF Answer
<1>3. Quiet(Answer(0)) /\ Answer(0).ack \in BOOLEAN /\ Answer(0).dok \in BOOLEAN /\ Answer(0).rdy \in BOOLEAN
  BY <1>2 DEF Quiet
<1>4. Moved(laneA, m, LineA, Answer(0)) /\ LA!LaneInv'
  <2>1. A!LaneStep(Answer(0))
    BY DEF Clock
  <2> QED BY <1>1, <1>3, <2>1, MovesA
<1>5. m.st \notin Mid /\ Left(m, LineA)' /\ (laneA.st \in Req => m.st = laneA.st)
  BY <1>1, <1>3, <1>4, OtherTurn
<1>6. A!ExtReq => laneA.st \in Mid \cup Req
  BY <1>1, ShowsA
<1> QED BY <1>1, <1>4, <1>5, <1>6

(* The lane that does not own the port.                                    *)
LEMMA OthersB ==
  ASSUME LineInv, NEW start, Clock(start), ~ Owns(1), NEW m, m = laneB'
  PROVE  /\ LB!LaneInv' /\ Left(m, LineB)' /\ m.st \notin Mid
         /\ B!ExtReq => m.st \in Req
<1>1. LB!LaneInv /\ laneB.st \notin Mid
  BY DEF LineInv
<1>2. /\ Answer(1).ack = (Owns(1) /\ io.o.ack) /\ Answer(1).dok = (Owns(1) /\ io.o.dok)
      /\ Answer(1).rdy = (Owns(1) /\ io.o.rdy)
  BY DEF Answer
<1>3. Quiet(Answer(1)) /\ Answer(1).ack \in BOOLEAN /\ Answer(1).dok \in BOOLEAN /\ Answer(1).rdy \in BOOLEAN
  BY <1>2 DEF Quiet
<1>4. Moved(laneB, m, LineB, Answer(1)) /\ LB!LaneInv'
  <2>1. B!LaneStep(Answer(1))
    BY DEF Clock
  <2> QED BY <1>1, <1>3, <2>1, MovesB
<1>5. m.st \notin Mid /\ Left(m, LineB)' /\ (laneB.st \in Req => m.st = laneB.st)
  BY <1>1, <1>3, <1>4, OtherTurn
<1>6. B!ExtReq => laneB.st \in Mid \cup Req
  BY <1>1, ShowsB
<1> QED BY <1>1, <1>4, <1>5, <1>6

(* The invariant of the lanes from one clock to the next.                  *)
LEMMA LineKept ==
  ASSUME PathInv, TandemInv, LineInv, NEW start, Clock(start)
  PROVE  LineInv'
<1>1. PICK m : m = laneA'
  OBVIOUS
<1>2. PICK k : k = laneB'
  OBVIOUS
<1>3. arb \in [active: BOOLEAN, sel: {0, 1}] /\ (~ arb.active => Waiting \/ burst.st = "TWR2")
  BY DEF LineInv
<1>4. ArbStep(Asking, io.o.rdy) /\ Both(Request, start) /\ Asks(Request)
  BY RequestAsks DEF Clock, Both, Moves
<1>5. CASE Owns(0)
  <2>1. Turn(laneA, m, LineA, Answer(0), Request, start)
    BY <1>1, <1>5, OwnersA
  <2>2. /\ Left(m, LineA)' /\ (~ io.o.rdy => Link(m, LineA)')
        /\ io.o.rdy => m.st \notin Mid /\ (Waiting' \/ burst'.st = "TWR2")
    BY <2>1, OwnerTurn
  <2>3. arb.active /\ arb.sel = 0 /\ ~ Owns(1)
    BY <1>5 DEF Owns
  <2>4. LB!LaneInv' /\ Left(k, LineB)' /\ k.st \notin Mid
    BY <1>2, <2>3, OthersB
  <2>5. LA!LaneInv'
    <3>1. /\ LA!LaneInv /\ Answer(0).ack = (Owns(0) /\ io.o.ack) /\ Answer(0).dok = (Owns(0) /\ io.o.dok)
          /\ Answer(0).rdy = (Owns(0) /\ io.o.rdy)
      BY DEF Answer, LineInv
    <3>2. A!LaneStep(Answer(0)) /\ Answer(0).ack \in BOOLEAN /\ Answer(0).dok \in BOOLEAN /\ Answer(0).rdy \in BOOLEAN
      BY <3>1 DEF Clock
    <3> QED BY <3>1, <3>2, MovesA
  <2>6. arb' = IF io.o.rdy THEN [arb EXCEPT !.active = FALSE] ELSE arb
    BY <1>4, <2>3 DEF ArbStep, Hold, Release, Stay, Pick
  <2>7. arb' \in [active: BOOLEAN, sel: {0, 1}] /\ arb'.sel = 0 /\ (arb'.active <=> ~ io.o.rdy)
    BY <1>3, <2>3, <2>6
  <2> QED BY <1>1, <1>2, <2>2, <2>4, <2>5, <2>7, Primed DEF LineInv, Owns
<1>6. CASE Owns(1)
  <2>1. Turn(laneB, k, LineB, Answer(1), Request, start)
    BY <1>2, <1>6, OwnersB
  <2>2. /\ Left(k, LineB)' /\ (~ io.o.rdy => Link(k, LineB)')
        /\ io.o.rdy => k.st \notin Mid /\ (Waiting' \/ burst'.st = "TWR2")
    BY <2>1, OwnerTurn
  <2>3. arb.active /\ arb.sel = 1 /\ ~ Owns(0)
    BY <1>6 DEF Owns
  <2>4. LA!LaneInv' /\ Left(m, LineA)' /\ m.st \notin Mid
    BY <1>1, <2>3, OthersA
  <2>5. LB!LaneInv'
    <3>1. /\ LB!LaneInv /\ Answer(1).ack = (Owns(1) /\ io.o.ack) /\ Answer(1).dok = (Owns(1) /\ io.o.dok)
          /\ Answer(1).rdy = (Owns(1) /\ io.o.rdy)
      BY DEF Answer, LineInv
    <3>2. B!LaneStep(Answer(1)) /\ Answer(1).ack \in BOOLEAN /\ Answer(1).dok \in BOOLEAN /\ Answer(1).rdy \in BOOLEAN
      BY <3>1 DEF Clock
    <3> QED BY <3>1, <3>2, MovesB
  <2>6. arb' = IF io.o.rdy THEN [arb EXCEPT !.active = FALSE] ELSE arb
    BY <1>4, <2>3 DEF ArbStep, Hold, Release, Stay, Pick
  <2>7. arb' \in [active: BOOLEAN, sel: {0, 1}] /\ arb'.sel = 1 /\ (arb'.active <=> ~ io.o.rdy)
    BY <1>3, <2>3, <2>6
  <2> QED BY <1>1, <1>2, <2>2, <2>4, <2>5, <2>7, Primed DEF LineInv, Owns
<1>7. CASE ~ arb.active
  <2>1. ~ Owns(0) /\ ~ Owns(1) /\ ~ Request.rd /\ ~ Request.wr
    BY <1>7 DEF Owns, Request
  <2>2. Waiting'
    BY <1>3, <1>4, <1>7, <2>1, FreeTurn
  <2>3. /\ LA!LaneInv' /\ Left(m, LineA)' /\ m.st \notin Mid /\ (A!ExtReq => m.st \in Req)
        /\ LB!LaneInv' /\ Left(k, LineB)' /\ k.st \notin Mid /\ (B!ExtReq => k.st \in Req)
    BY <1>1, <1>2, <2>1, OthersA, OthersB
  <2>4. /\ A!ExtReq /\ m.st \in Req => Link(m, LineA)'
        /\ B!ExtReq /\ k.st \in Req => Link(k, LineB)'
    BY <2>2 DEF Link
  <2>5. Asking \subseteq {0, 1} /\ (0 \in Asking <=> A!ExtReq) /\ (1 \in Asking <=> B!ExtReq)
    BY DEF Asking
  <2>6. CASE Asking = {} /\ arb' = arb
    BY <1>1, <1>2, <1>3, <1>7, <2>2, <2>3, <2>6, Primed DEF LineInv, Owns
  <2>7. CASE Asking # {} /\ arb' = [active |-> TRUE, sel |-> Min(Asking)]
    <3>1. arb'.sel \in Asking /\ arb'.active = TRUE /\ arb' \in [active: BOOLEAN, sel: {0, 1}]
      BY <2>5, <2>7, Chosen
    <3>2. CASE arb'.sel = 0
      BY <1>1, <1>2, <2>3, <2>4, <2>5, <3>1, <3>2, Primed DEF LineInv, Owns
    <3>3. CASE arb'.sel = 1
      BY <1>1, <1>2, <2>3, <2>4, <2>5, <3>1, <3>3, Primed DEF LineInv, Owns
    <3> QED BY <2>5, <3>1, <3>2, <3>3
  <2> QED BY <1>4, <1>7, <2>6, <2>7 DEF ArbStep, Hold, Release, Stay, Pick
<1> QED BY <1>3, <1>5, <1>6, <1>7 DEF Owns

(* Both lanes start in it.                                                 *)
LEMMA LineStarts ==
  ASSUME Init
  PROVE  LineInv
<1>1. LA!LaneInv /\ laneA.st = "IDLE" /\ LB!LaneInv /\ laneB.st = "IDLE"
  <2>1. LA!LaneInit /\ LB!LaneInit
    BY SameA, SameB DEF Init
  <2> QED BY <2>1, LineGeometry, LA!LaneStarts, LB!LaneStarts
<1>2. burst.st = "IDLE" /\ arb = [active |-> FALSE, sel |-> 0]
  BY DEF Init, SdramInit, BurstInit, ArbInit
<1> QED BY <1>1, <1>2 DEF LineInv, Waiting, Owns, Mid, Left

(* Every step of the specification keeps it.                               *)
LEMMA LineSteps ==
  ASSUME PathInv, TandemInv, LineInv, [Next]_vars
  PROVE  LineInv'
<1>1. CASE Next
  BY <1>1, LineKept DEF Next
<1>2. CASE UNCHANGED vars
  <2>1. UNCHANGED <<burst, io, arb, laneA, laneB, chip, landed>>
    BY <1>2 DEF vars
  <2>2. LA!LaneInv'
    BY <2>1 DEF LineInv, LA!LaneInv, LA!LaneRegs, LA!WbReady, LA!Counted, LA!Fetched
  <2>3. LB!LaneInv'
    BY <2>1 DEF LineInv, LB!LaneInv, LB!LaneRegs, LB!WbReady, LB!Counted, LB!Fetched
  <2>4. (Owns(0) => Link(laneA, LineA))' /\ (Owns(1) => Link(laneB, LineB))'
    <3>1. (Flows(laneA, LineA) => Flows(laneA, LineA)') /\ (Flows(laneB, LineB) => Flows(laneB, LineB)')
      BY <2>1 DEF Flows, Pos
    <3>2. (ReadLink(laneA, LineA) => ReadLink(laneA, LineA)') /\ (ReadLink(laneB, LineB) => ReadLink(laneB, LineB)')
      BY <2>1, <3>1 DEF ReadLink, Pos, Acking
    <3>3. (WriteLink(laneA, LineA) => WriteLink(laneA, LineA)') /\ (WriteLink(laneB, LineB) => WriteLink(laneB, LineB)')
      BY <2>1 DEF WriteLink, Carries, Landing
    <3> QED BY <2>1, <3>2, <3>3 DEF LineInv, Owns, Link, Waiting
  <2>5. Left(laneA, LineA)' /\ Left(laneB, LineB)'
    BY <2>1 DEF LineInv, Left
  <2> QED BY <2>1, <2>2, <2>3, <2>4, <2>5 DEF LineInv, Owns, Waiting
<1> QED BY <1>1, <1>2

(* The lines on their way, for every geometry: each lane is where the      *)
(* sequencer's state says, and every half-word on the pins, in the chip    *)
(* and in the buffers is the one that belongs at its place of the line.    *)
THEOREM LinesCorrect == Spec /\ Clocks = {TRUE} => [](PathInv /\ TandemInv /\ LineInv)
<1>1. Init /\ Clocks = {TRUE} => PathInv /\ TandemInv /\ LineInv
  BY PathStarts, TandemStarts, LineStarts
<1>2. PathInv /\ TandemInv /\ LineInv /\ [Next]_vars => (PathInv /\ TandemInv /\ LineInv)'
  BY PathSteps, TandemSteps, LineSteps
<1> QED BY <1>1, <1>2, PTL DEF Spec

-----------------------------------------------------------------------------
(* The chip stores only while the sequencer writes.                        *)
LEMMA StoresWhen ==
  ASSUME PathInv, C!Storing(Pins) # C!Nothing
  PROVE  burst.write /\ burst.st \in {"WRITE", "STOP", "TWR1"}
<1>1. Pins.op = "WRITE" \/ (Pins.op = "NOP" /\ chip.in # C!Nothing)
  BY DEF C!Storing
<1>2. chip.in # C!Nothing => Storing
  BY Ages
<1>3. Storing /\ burst.st = "TWR2" => Pins.op = "STOP"
  BY Issued
<1> QED BY <1>1, <1>2, <1>3, OnPins DEF Storing

(* A half-word that is stored is the one on the data pins.                 *)
LEMMA StoredRight ==
  ASSUME PathInv, NEW l, NEW g, Link(l, g), Known(l, g), InARow(g), C!Storing(Pins) # C!Nothing
  PROVE  io.o.dq = C!Storing(Pins)
<1>1. burst.write /\ burst.st \in {"WRITE", "STOP", "TWR1"}
  BY StoresWhen
<1>2. WriteLink(l, g) /\ g.last \in Nat \ {0} /\ l.word \in 0 .. g.last
  BY <1>1 DEF Link, Waiting, InARow, Known
<1>3. ~ (burst.st = "WRITE" /\ l.word = 0)
  <2> SUFFICES ASSUME burst.st = "WRITE", l.word = 0 PROVE FALSE
    OBVIOUS
  <2>1. Pins.op = "NOP" /\ chip.in = C!Nothing
    BY <1>2 DEF WriteLink, Pins
  <2> QED BY <2>1 DEF C!Storing
<1>4. Pins.op # "STOP"
  BY DEF C!Storing
<1>5. \/ Carries(io.o, g, g.last) /\ Landing(g, g.last)
      \/ Carries(io.o, g, g.last - 1) /\ Landing(g, g.last - 1)
      \/ l.word # 0 /\ Carries(io.o, g, l.word - 1) /\ Landing(g, l.word - 1)
  BY <1>1, <1>2, <1>3, <1>4 DEF WriteLink, Pins
<1>6. g.last \in 0 .. g.last /\ g.last - 1 \in 0 .. g.last /\ (l.word # 0 => l.word - 1 \in 0 .. g.last)
  BY <1>2
<1> QED BY <1>5, <1>6, StoredThere

(* A half-word that is taken is the one the simulator shows.               *)
LEMMA TakenAlike ==
  ASSUME PathInv, TandemInv, NEW l, NEW g, Link(l, g), Known(l, g), l.st \in Filling, Pos(l) # 0
  PROVE  seen = io.dout
<1>1. /\ ~ Waiting /\ burst.st # "TWR2"
      /\ burst.write => WriteLink(l, g)
      /\ ~ burst.write => ReadLink(l, g)
  BY DEF Link, Filling, Req
<1>2. /\ burst \in SeqRegs /\ (burst.st \in WriteStates => burst.write)
      /\ (burst.st \in ReadStates => ~ burst.write)
  BY DEF PathInv, SeqInv
<1>3. burst.st \in BurstStates /\ burst.write \in BOOLEAN
  BY <1>2 DEF SeqRegs
<1>4. ~ burst.write
  BY <1>1, <1>2, <1>3 DEF WriteLink, Waiting, ReadStates, Filling, BurstStates, After
<1>5. burst.st \in {"RDATA", "STOP", "PRE"} /\ Flows(l, g)
  BY <1>1, <1>2, <1>3, <1>4 DEF ReadLink, Waiting, WriteStates, Filling, BurstStates, After, Pos
<1>6. Reading /\ chip.next # "READ"
  BY <1>4, <1>5 DEF Reading, Flows, Pos, Filling, Known
<1> QED BY <1>6 DEF TandemInv, OutInv

(* The three invariants mean what the runs check.                          *)
LEMMA LinesRight ==
  ASSUME PathInv, TandemInv, LineInv
  PROVE  WrittenRight /\ FilledRight /\ SimulatorAgrees
<1>1. /\ Known(laneA, LineA) /\ Known(laneB, LineB) /\ InARow(LineA) /\ InARow(LineB)
  BY ShowsA, ShowsB, LineGeometry DEF LineInv
<1>2. C!Storing(Pins) # C!Nothing => io.o.dq = C!Storing(Pins)
  <2> HAVE C!Storing(Pins) # C!Nothing
  <2>1. ~ Waiting /\ burst.st # "TWR2"
    BY StoresWhen DEF Waiting
  <2>2. Owns(0) \/ Owns(1)
    BY <2>1 DEF LineInv, Owns
  <2> QED BY <1>1, <2>2, StoredRight DEF LineInv
<1>3. /\ Upto(LineA, LineA.last + 1) = Line(BankA, BaseA, WordsA)
      /\ Upto(LineB, LineB.last + 1) = Line(BankB, BaseB, WordsB)
  BY LineGeometry DEF Upto, At, Line, LineA, LineB, LA!Geometry, LB!Geometry
<1>4. WrittenRight
  BY <1>2, <1>3 DEF WrittenRight, LineInv, Left
<1>5. FilledRight
  <2>1. LineA.last = WordsA - 1 /\ LineB.last = WordsB - 1
    BY DEF LineA, LineB
  <2>2. /\ \A i \in 0 .. WordsA - 1 : A!Cell(i) = At(LineA, i)
        /\ \A i \in 0 .. WordsB - 1 : B!Cell(i) = At(LineB, i)
    BY SameA, SameB
  <2> QED BY <2>1, <2>2 DEF FilledRight, LineInv, Left
<1>6. Takes(laneA, Answer(0)) => seen = io.dout
  <2> HAVE Takes(laneA, Answer(0))
  <2>1. laneA.st \in Filling /\ Pos(laneA) # 0
    BY <1>1 DEF Takes, Filling, Pos, Known
  <2>2. Link(laneA, LineA)
    BY <2>1 DEF LineInv, Filling, Mid
  <2> QED BY <1>1, <2>1, <2>2, TakenAlike
<1>7. Takes(laneB, Answer(1)) => seen = io.dout
  <2> HAVE Takes(laneB, Answer(1))
  <2>1. laneB.st \in Filling /\ Pos(laneB) # 0
    BY <1>1 DEF Takes, Filling, Pos, Known
  <2>2. Link(laneB, LineB)
    BY <2>1 DEF LineInv, Filling, Mid
  <2> QED BY <1>1, <2>1, <2>2, TakenAlike
<1>8. SimulatorAgrees
  BY <1>6, <1>7, Agreeing DEF SimulatorAgrees
<1> QED BY <1>4, <1>5, <1>8

(* Every half-word of a write-back lands in its own cell, and the line     *)
(* that is written is the whole line.                                      *)
THEOREM LinesWritten == Spec /\ Clocks = {TRUE} => []WrittenRight
BY LinesCorrect, LinesRight, PTL

(* A fill puts each half-word of memory at its own place.                  *)
THEOREM LinesFilled == Spec /\ Clocks = {TRUE} => []FilledRight
BY LinesCorrect, LinesRight, PTL

(* The simulator's SDRAM cannot be told from the chip by the two lanes.    *)
THEOREM SimulatorFaithful == Spec /\ Clocks = {TRUE} => []SimulatorAgrees
BY LinesCorrect, LinesRight, PTL

=============================================================================
