----------------------------- MODULE BurstPath -----------------------------
(***************************************************************************)
(* The way of a line between two cache lanes and the SDRAM: the lanes'     *)
(* half-word streams, the arbiter of the cache mux, the burst controller   *)
(* with its refreshes, and the chip, next to which runs the SDRAM of the   *)
(* C++ simulator on the same pins.                                         *)
(***************************************************************************)
EXTENDS BurstSdram, CacheMuxArb

CONSTANTS
  WordsA, HalfA, BankA, BaseA,     \* the two lanes: the geometry of a line,
  WordsB, HalfB, BankB, BaseB,     \* and where it is
  Scenarios                        \* what may happen in a run, sets of AllUses

AllUses == {"A", "B",        \* the lane is used at all
            "flush",         \* lanes flush
            "overlap"}       \* start may rise during a refresh

ASSUME ScenariosAssumption == Scenarios \subseteq SUBSET AllUses

(* A line is a power of two of half-words, aligned and within a row.       *)
GoodLine(words, half, base) ==
  /\ words \in Nat \ {0, 1} /\ half \in Nat \ {0} /\ words % half = 0
  /\ base \in Nat /\ base % words = 0 /\ Page % words = 0

ASSUME LinesAssumption ==
  /\ GoodLine(WordsA, HalfA, BaseA) /\ BankA \in Nat
  /\ GoodLine(WordsB, HalfB, BaseB) /\ BankB \in Nat
  /\ Lanes = {0, 1}

VARIABLES
  laneA, laneB,
  chip,
  uses,       \* what happens in this behaviour
  landed,     \* history: the cells written since the last WRITE command
  sim,
  seen        \* what the controller would have read from the simulator's SDRAM

vars == <<burst, rfsh, fast, busy, io, arb, laneA, laneB, chip, uses, landed, sim, seen>>

A == INSTANCE LineStream WITH lane <- laneA, Words <- WordsA, Half <- HalfA, Bank <- BankA, Base <- BaseA
B == INSTANCE LineStream WITH lane <- laneB, Words <- WordsB, Half <- HalfB, Bank <- BankB, Base <- BaseB
C == INSTANCE SdramChip WITH Banks <- {BankA, BankB}
S == INSTANCE SimSdram WITH Banks <- {BankA, BankB}

(* The mode the first initialisation sets and the one of LOAD_MODE.        *)
BootMode  == [len |-> 4, full |-> FALSE, cas |-> 2, single |-> TRUE]
BurstMode == [len |-> Page, full |-> TRUE, cas |-> 2, single |-> FALSE]

Init ==
  /\ SdramInit /\ ArbInit /\ A!LaneInit /\ B!LaneInit /\ C!ChipInit
  /\ uses \in Scenarios
  /\ landed = {}
  /\ S!SimInit(BootMode) /\ seen = S!Nothing

Asking == (IF A!ExtReq THEN {0} ELSE {}) \cup (IF B!ExtReq THEN {1} ELSE {})

(* rd and wr go to the controller only from the lane that owns the port;   *)
(* address and data follow the lane chosen last.                           *)
Request ==
  [rd   |-> (Owns(0) /\ A!ExtRd) \/ (Owns(1) /\ B!ExtRd),
   wr   |-> (Owns(0) /\ A!ExtWr) \/ (Owns(1) /\ B!ExtWr),
   ba   |-> IF arb.sel = 0 THEN BankA ELSE BankB,
   addr |-> IF arb.sel = 0 THEN BaseA ELSE BaseB,
   din  |-> IF arb.sel = 0 THEN A!ExtDout ELSE B!ExtDout]

Answer(l) == [ack |-> Owns(l) /\ io.o.ack, dok |-> Owns(l) /\ io.o.dok,
              rdy |-> Owns(l) /\ io.o.rdy, din |-> io.dout]

Pins == io.o.cmd

Lands ==
  LET c == C!Storing(Pins) IN
  landed' = (IF Pins.op = "WRITE" THEN {} ELSE landed) \cup (IF c = C!Nothing THEN {} ELSE {c})

(* rfsh is a strobe of a clock divider: one clock long, and its period far *)
(* longer than a refresh, unless that one has had to wait for its turn.    *)
MayStart == rfsh.rfshing => "overlap" \in uses

Uses(l, now, next) ==
  /\ l \in uses \/ next = now
  /\ "flush" \in uses \/ ~ next.flushing

(* A row on the pins A11 and A12 may look like a mask: they are the DQM.   *)
Simulate ==
  /\ S!SimStep(Pins, BurstMode, Pins.op = "ACTIVE")
  /\ seen' = S!SimOut(Pins)

Clock(start) ==
  /\ start => ~ rfsh.last /\ MayStart
  /\ SdramStep(Request, start, chip.out)
  /\ ArbStep(Asking, io.o.rdy)
  /\ C!ChipStep(Pins)
  /\ Lands
  /\ Simulate
  /\ A!LaneStep(Answer(0)) /\ Uses("A", laneA, laneA')
  /\ B!LaneStep(Answer(1)) /\ Uses("B", laneB, laneB')
  /\ UNCHANGED uses

Next == \E start \in BOOLEAN : Clock(start)

Spec == Init /\ [][Next]_vars

(* The clock never stops: some register moves again and again, as one can   *)
(* in every state.                                                         *)
FairSpec == Spec /\ []<><<TRUE>>_vars

-----------------------------------------------------------------------------
Line(bank, base, words) == {<<bank, base + i>> : i \in 0 .. words-1}

(* Every command the controller puts on the pins is legal for the chip:    *)
(* bursts, refreshes and the mode setting never cross.                     *)
ChipRules == C!Legal(Pins)

(* A line that has been read holds, at each place, the half-word of memory *)
(* that belongs there.                                                     *)
FilledRight ==
  /\ laneA.st = "POSTFILL_WAIT" => \A i \in 0 .. WordsA-1 : laneA.buf[i] = A!Cell(i)
  /\ laneB.st = "POSTFILL_WAIT" => \A i \in 0 .. WordsB-1 : laneB.buf[i] = B!Cell(i)

(* Every half-word written lands in its own cell, and a write-back that    *)
(* ends has written the whole line and nothing else.                       *)
WrittenRight ==
  /\ C!Storing(Pins) # C!Nothing => io.o.dq = C!Storing(Pins)
  /\ laneA.st = "WB_GAP" => landed = Line(BankA, BaseA, WordsA)
  /\ laneB.st = "WB_GAP" => landed = Line(BankB, BaseB, WordsB)

Takes(lane, b) == \/ lane.st = "FILL_WB_PRIME" /\ ~ lane.wait
                  \/ lane.st = "FILL_STREAM" /\ b.dok /\ ~ lane.tail

(* The SDRAM of the simulator does what the chip does wherever a core can  *)
(* tell: it accepts every command, stores every half-word in the same      *)
(* cell, and hands a lane the same half-words, though it ends read bursts  *)
(* at another clock than the chip.                                         *)
SimulatorAgrees ==
  /\ ~ S!Throws(Pins)
  /\ S!SimStores(Pins) = C!Storing(Pins)
  /\ Takes(laneA, Answer(0)) \/ Takes(laneB, Answer(1)) => seen = io.dout

Transfers(st) == st \in {"WB_REQ", "WB_STREAM", "FILL_REQ", "FILL_WB_WAIT",
                         "FILL_WB_PRIME", "FILL_STREAM"}

(* Every transfer ends, that of the lane the arbiter puts second too: the  *)
(* other one always leaves the port free for a clock in which it does not  *)
(* ask.                                                                    *)
TransfersEnd ==
  /\ Transfers(laneA.st) ~> ~ Transfers(laneA.st)
  /\ Transfers(laneB.st) ~> ~ Transfers(laneB.st)

(* While the other lane is not used, no load of one lane holds an overdue  *)
(* refresh back: between two of its bursts the controller is idle for the  *)
(* five clocks that a refresh waits for.                                   *)
OverdueRefreshed == "B" \notin uses /\ rfsh.help /\ rfsh.br ~> rfsh.rfshing

=============================================================================
