------------------------------ MODULE Refresh ------------------------------
(***************************************************************************)
(* The refresh engine, jtframe_sdram64_rfsh.v: every rise of start adds    *)
(* refreshes to the debt cnt, br asks for the chip, bg grants it, and      *)
(* while nobody requests, one grant pays for as many as are owed.          *)
(***************************************************************************)
EXTENDS Integers

CONSTANTS
  MaxDebt,    \* 2^CW - 1: the largest count
  Batch,      \* RFSHCNT: refreshes added by a rise of start
  Clocks      \* HF, whether the clock is 96 or 48 MHz: the ones to look at

ASSUME RefreshAssumption ==
  /\ MaxDebt \in Nat /\ Batch \in 1 .. MaxDebt-1     \* the check of lines 42-49
  /\ (MaxDebt + 1) % 2 = 0
  /\ Clocks \subseteq BOOLEAN

VARIABLES
  rfsh,
  fast        \* HF of this instance

Steps  == IF fast THEN 10 ELSE 6    \* STW: clocks of a refresh, one-hot in st
First  == IF fast THEN 2 ELSE 1     \* RFRSH: the step that issues it

RfshRegs == [cnt: 0..MaxDebt, st: 0..Steps-1, br: BOOLEAN, rfshing: BOOLEAN, help: BOOLEAN,
             last: BOOLEAN, cmd: {"NOP", "PRECHARGE_ALL", "REFRESH"}]

RfshInit ==
  /\ rfsh = [cnt |-> 0, st |-> 0, br |-> FALSE, rfshing |-> FALSE, help |-> FALSE,
             last |-> FALSE, cmd |-> "NOP"]
  /\ fast \in Clocks

NextCnt == rfsh.cnt + Batch
Ends    == rfsh.st = Steps-1
Rises(start) == start /\ ~ rfsh.last

(* Set when the count is about to overflow, reset under half of its range. *)
HelpNext ==
  \/ rfsh.help /\ 2 * NextCnt >= MaxDebt + 1
  \/ NextCnt > MaxDebt

(* The payment of a refresh overwrites the debt that comes in its clock.   *)
CntNext(start) ==
  IF Ends /\ rfsh.cnt # 0 THEN rfsh.cnt - 1
  ELSE IF ~ Rises(start) THEN rfsh.cnt
  ELSE IF rfsh.help THEN MaxDebt
  ELSE NextCnt % (MaxDebt + 1)

Again(noreq)    == Ends /\ rfsh.cnt # 0 /\ noreq
Runs(bg, noreq) == (rfsh.rfshing \/ bg) /\ (Ends => Again(noreq))

StNext(bg, noreq) ==
  CASE Again(noreq)                            -> First
    [] ~ Again(noreq) /\ (rfsh.rfshing \/ bg)  -> (rfsh.st + 1) % Steps
    [] ~ Again(noreq) /\ ~ rfsh.rfshing /\ ~ bg -> IF rfsh.cnt # 0 THEN 0 ELSE rfsh.st

RfshStep(start, bg, noreq) ==
  /\ rfsh' = [cnt     |-> CntNext(start),
              st      |-> StNext(bg, noreq),
              br      |-> ~ bg /\ (rfsh.br \/ (rfsh.cnt # 0 /\ ~ rfsh.rfshing)),
              rfshing |-> Runs(bg, noreq),
              help    |-> HelpNext,
              last    |-> start,
              cmd     |-> CASE rfsh.st = 0 -> "PRECHARGE_ALL"
                            [] rfsh.st = First -> "REFRESH"
                            [] OTHER -> "NOP"]
  /\ UNCHANGED fast

RfshCmd == [op |-> rfsh.cmd, ba |-> 0, a |-> 0]

=============================================================================
