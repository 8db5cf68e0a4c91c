------------------------------ MODULE SimSdram ------------------------------
(***************************************************************************)
(* The SDRAM of the repository's C++ simulator, SDRAMModel of              *)
(* verilator/sdram.cpp.  tick runs once a clock: the command, then at most *)
(* one beat of a write burst, then one of a read burst.                    *)
(*                                                                         *)
(* pins is the command on the pins: op, ba and a, which is a row for       *)
(* ACTIVE and the whole address in the bank for READ and WRITE; READA and  *)
(* WRITEA have the auto-precharge bit A10 set.  masked tells that the DQM  *)
(* pins are high.  A cell is <<bank, address>>, its contents its identity. *)
(***************************************************************************)
EXTENDS Naturals

CONSTANTS Page,      \* 1 << colw_: cells in a row
          Banks

VARIABLE sim

Nothing == <<>>

(* What LOAD_MODE sets; the sequential order of columns is the only one    *)
(* the controllers ask for.                                                *)
Modes == [len: {1, 2, 4, 8, Page}, full: BOOLEAN, cas: 1..3, single: BOOLEAN]

None == [kind |-> "NONE"]

SimInit(mode) ==
  sim = [row |-> [b \in Banks |-> Nothing], burst |-> None, mode |-> mode,
         dqm |-> <<FALSE, FALSE>>]

Reads(pins)  == pins.op \in {"READ", "READA"}
Writes(pins) == pins.op \in {"WRITE", "WRITEA"}
Auto(pins)   == pins.op \in {"READA", "WRITEA"}

AnyActive == \E b \in Banks : sim.row[b] # Nothing

(* The errors tick throws: commands the rows that are open do not allow.   *)
Throws(pins) ==
  \/ pins.op \in {"REFRESH", "LOAD_MODE"} /\ (AnyActive \/ sim.burst # None)
  \/ pins.op = "ACTIVE" /\ sim.row[pins.ba] # Nothing
  \/ (Reads(pins) \/ Writes(pins)) /\ sim.row[pins.ba] = Nothing

-----------------------------------------------------------------------------
(* A stage of tick: the rows and the burst it leaves.                      *)
Stage(row, burst) == [row |-> row, burst |-> burst]

Close(row, b) == [row EXCEPT ![b] = Nothing]

(* terminate_burst when the last beat is done or a new burst comes.        *)
Terminate(s) ==
  Stage(IF s.burst # None /\ s.burst.auto THEN Close(s.row, s.burst.ba) ELSE s.row, None)

(* terminate_burst(false) when it is the burst of bank b.                  *)
Cut(s, b) == IF s.burst # None /\ s.burst.ba = b THEN None ELSE s.burst

RowOf(b) == IF sim.row[b] = Nothing THEN 0 ELSE sim.row[b][1]

(* start_read and start_write.                                             *)
Start(pins) ==
  LET single == Writes(pins) /\ sim.mode.single
      full   == sim.mode.full /\ ~ single
  IN [kind |-> IF Reads(pins) THEN "READ" ELSE "WRITE", ba |-> pins.ba,
      row  |-> RowOf(pins.ba), col |-> pins.a % Page, beat |-> 0,
      len  |-> IF single THEN 1 ELSE sim.mode.len,
      wait |-> IF Reads(pins) THEN sim.mode.cas ELSE 0, stop |-> 0,
      full |-> full, auto |-> Auto(pins) /\ ~ full]

(* The column counts up and wraps in the block of the burst's length.      *)
CellOf(burst) ==
  LET base == (burst.col \div burst.len) * burst.len IN
  <<burst.ba, burst.row * Page + base + ((burst.col + burst.beat) % burst.len)>>

Does(s, kind) == s.burst # None /\ s.burst.kind = kind

Stopped(s) ==
  CASE Does(s, "READ") /\ ~ s.burst.auto  -> Stage(s.row, [s.burst EXCEPT !.stop = sim.mode.cas])
    [] Does(s, "WRITE") /\ ~ s.burst.auto -> Stage(s.row, None)
    [] OTHER -> s

AfterCommand(pins) ==
  LET now == Stage(sim.row, sim.burst) IN
  CASE pins.op = "ACTIVE" ->
         Stage([sim.row EXCEPT ![pins.ba] = <<pins.a>>], Cut(now, pins.ba))
    [] pins.op = "PRECHARGE"     -> Stage(Close(sim.row, pins.ba), Cut(now, pins.ba))
    [] pins.op = "PRECHARGE_ALL" -> Stage([b \in Banks |-> Nothing], None)
    [] Reads(pins) \/ Writes(pins) -> Stage(Terminate(now).row, Start(pins))
    [] pins.op = "STOP" -> Stopped(now)
    [] OTHER -> now

(* A burst of a fixed length ends with its last beat.                      *)
Beat(s) ==
  LET b == s.burst IN
  IF ~ b.full /\ b.beat + 1 >= b.len THEN Terminate(s)
  ELSE Stage(s.row, [b EXCEPT !.beat = (@ + 1) % b.len])

(* accept_write_beat                                                       *)
AfterWrite(s) == IF Does(s, "WRITE") THEN Beat(s) ELSE s

(* advance_read: the CAS latency, then a beat; a STOP lets as many more    *)
(* out as the latency had kept back.                                       *)
AfterRead(s) ==
  CASE ~ Does(s, "READ") -> s
    [] Does(s, "READ") /\ s.burst.wait > 0 ->
         Stage(s.row, [s.burst EXCEPT !.wait = @ - 1])
    [] Does(s, "READ") /\ s.burst.wait = 0 ->
         LET t == Beat(s) IN
         CASE t.burst = None \/ s.burst.stop = 0 -> t
           [] t.burst # None /\ s.burst.stop = 1 -> Stage(t.row, None)
           [] t.burst # None /\ s.burst.stop > 1 ->
                Stage(t.row, [t.burst EXCEPT !.stop = @ - 1])

SimStep_fault(pins, mode, masked) ==
  LET s == AfterRead(AfterWrite(AfterCommand(pins))) IN
  sim' = [row |-> s.row, burst |-> s.burst,
          mode |-> IF pins.op = "LOAD_MODE" THEN [mode EXCEPT !.single = sim.mode.single]
                   ELSE sim.mode,
          dqm |-> <<sim.dqm[2], masked>>]

SimStep(pins, mode, masked) ==
  LET s == AfterRead(AfterWrite(AfterCommand(pins))) IN
  sim' = [row |-> s.row, burst |-> s.burst,
          mode |-> IF pins.op = "LOAD_MODE" THEN mode ELSE sim.mode,
          dqm |-> <<sim.dqm[2], masked>>]

-----------------------------------------------------------------------------
(* The cell this clock's beat of a write burst stores the data pins in.    *)
SimStores(pins) ==
  LET s == AfterCommand(pins) IN
  IF Does(s, "WRITE") THEN CellOf(s.burst) ELSE Nothing

(* The cell whose contents are on the data pins in this clock; DQM of two  *)
(* clocks ago hides them.                                                  *)
SimOut(pins) ==
  LET s == AfterWrite(AfterCommand(pins)) IN
  IF Does(s, "READ") /\ s.burst.wait = 0 /\ ~ sim.dqm[1] THEN CellOf(s.burst) ELSE Nothing

=============================================================================
