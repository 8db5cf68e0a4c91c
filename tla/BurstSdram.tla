---------------------------- MODULE BurstSdram ----------------------------
(***************************************************************************)
(* The burst SDRAM controller, jtframe_burst_sdram.v, after the chip has   *)
(* been initialised and with prog_en low: the mode register is set to      *)
(* full-page bursts once, then bursts and refreshes share the chip.        *)
(*                                                                         *)
(* p is the request port in this clock: rd, wr, ba, addr and din; start    *)
(* asks for refreshes.                                                     *)
(***************************************************************************)
EXTENDS BurstCtrl, Refresh

VARIABLES
  busy,    \* the delay lines and the mode register's FSM
  io       \* the two pipeline stages between the sequencer and the pins

Delay   == 4         \* the width of init_l, mode_busy_l, rfshing_l and burst_idle_l
Nothing == <<>>

(* MODE_IDLE to MODE_WAIT2 of jtframe_burst_mode.v.                        *)
ModeAfter == [PRE |-> "TRP1", TRP1 |-> "TRP2", TRP2 |-> "CMD", CMD |-> "WAIT1",
              WAIT1 |-> "WAIT2", WAIT2 |-> "IDLE"]

Quiescent == [cmd |-> Nop, dq |-> Nothing, ack |-> FALSE, dok |-> FALSE, rdy |-> FALSE]

(* init has just gone low: its delay line is still full.                   *)
SdramInit ==
  /\ BurstInit
  /\ RfshInit
  /\ busy = [init |-> Delay, mode_l |-> 0, rfsh_l |-> 0, idle |-> Delay,
             mode |-> "IDLE", fullpage |-> FALSE]
  /\ io = [r |-> Quiescent, o |-> Quiescent, dout |-> Nothing]

ModeBusy == busy.mode # "IDLE"
InitSel  == busy.init > 0
ModeSel  == ModeBusy \/ busy.mode_l > 0
RfshSel  == rfsh.rfshing \/ busy.rfsh_l > 0
CtrlBusy == InitSel \/ ModeSel \/ RfshSel
IdleOk   == BurstIdle /\ busy.idle = Delay

NoReq(p)  == ~ p.rd /\ ~ p.wr
RfshBg_fault(p) == ~ CtrlBusy /\ IdleOk /\ NoReq(p) /\ rfsh.br
RfshBg(p) == ~ CtrlBusy /\ IdleOk /\ (NoReq(p) \/ rfsh.help) /\ rfsh.br

ModeStarts == ~ InitSel /\ ~ busy.fullpage /\ busy.rfsh_l = 0 /\ IdleOk

Fades(on, n) == IF on THEN Delay ELSE IF n = 0 THEN 0 ELSE n - 1

BusyStep ==
  busy' = [init   |-> Fades(FALSE, busy.init),
           mode_l |-> Fades(ModeBusy, busy.mode_l),
           rfsh_l |-> Fades(rfsh.rfshing, busy.rfsh_l),
           idle   |-> IF ~ BurstIdle THEN 0
                      ELSE IF busy.idle = Delay THEN Delay ELSE busy.idle + 1,
           mode   |-> IF ModeBusy THEN ModeAfter[busy.mode]
                      ELSE IF ModeStarts THEN "PRE" ELSE "IDLE",
           fullpage |-> busy.fullpage \/ busy.mode = "WAIT2"]

ModeCmd ==
  CASE busy.mode = "PRE" -> [Nop EXCEPT !.op = "PRECHARGE_ALL"]
    [] busy.mode = "CMD" -> [Nop EXCEPT !.op = "LOAD_MODE"]
    [] OTHER             -> Nop

(* jtframe_burst_mux.v: who owns the pins.  The sequencer of the first     *)
(* initialisation only issues NOP by now.                                  *)
Selected(p) ==
  CASE InitSel                           -> Quiescent
    [] ~ InitSel /\ ModeSel              -> [Quiescent EXCEPT !.cmd = ModeCmd]
    [] ~ InitSel /\ ~ ModeSel /\ RfshSel -> [Quiescent EXCEPT !.cmd = RfshCmd]
    [] ~ CtrlBusy -> [cmd |-> BurstCmd(p), dq |-> IF Drives(p) THEN p.din ELSE Nothing,
                      ack |-> BurstAck, dok |-> BurstDok, rdy |-> BurstRdy(p)]

(* jtframe_burst_io.v: two registers to the pins and to the requester, one *)
(* from the data pins.                                                     *)
IoStep(p, dq) == io' = [r |-> Selected(p), o |-> io.r, dout |-> dq]

SdramStep(p, start, dq) ==
  /\ BurstStep(p, ~ CtrlBusy)
  /\ RfshStep(start, RfshBg(p), NoReq(p))
  /\ BusyStep
  /\ IoStep(p, dq)

=============================================================================
