------------------------------ MODULE Sdram64 ------------------------------
(***************************************************************************)
(* The SDRAM controller of the slot-based cores, jtframe_sdram64.v, in     *)
(* play (no download runs): a state machine a bank, the latch of the       *)
(* requests, the refresh engine, and the arbitration of the pins, with the *)
(* slots of each bank as its requester and the SDRAM on the pins.  A step  *)
(* is a clock.                                                             *)
(***************************************************************************)
EXTENDS Refresh

CONSTANTS
  Page, Banks,
  BurstLen,    \* half-words of the chip's burst, the longest of the requesters'
  Wide,        \* the banks whose requester takes the whole burst, the others take half
  AutoCases,   \* BAx_AUTOPRECH: the sets of banks that may have it
  WenBanks,    \* BAx_WEN: the banks that may be written to
  Addrs,       \* what the requesters ask for
  Overload     \* the clocks at which refreshes may be owed for long

ASSUME Sdram64Assumption ==
  /\ BurstLen \in {1, 2, 4}
  /\ Banks \subseteq 0..3 /\ Banks # {}
  /\ Wide \cup WenBanks \subseteq Banks /\ AutoCases \subseteq SUBSET Banks
  /\ Wide = {} => BurstLen = 1
  /\ Page \in Nat \ {0} /\ Page % BurstLen = 0
  /\ Overload \subseteq Clocks
  /\ Addrs \subseteq Nat /\ \A a \in Addrs : a % BurstLen = 0

VARIABLES
  auto,        \* the banks that have BAx_AUTOPRECH in this instance
  bank,        \* the registers of each bank's state machine
  latch,       \* the request of each bank as jtframe_sdram64_latch keeps it
  wrl,         \* wr_l
  quiet,       \* noreq, when it is a register
  out,         \* the registered outputs and pins
  slots,       \* each bank's requester
  sim, timing  \* the SDRAM of the simulator, and the timing checks

vars == <<auto, bank, latch, wrl, quiet, out, slots, rfsh, fast, sim, timing>>

INSTANCE Sdram64Bank WITH HF <- fast

S == INSTANCE SimSdram
T == INSTANCE SdramTiming WITH Burst <- BurstLen

Mode == [len |-> BurstLen, full |-> FALSE, cas |-> 2, single |-> TRUE]

LenOf(b) == IF b \in Wide \/ BurstLen = 1 THEN BurstLen ELSE BurstLen \div 2
Geo(b)   == [len |-> LenOf(b), auto |-> b \in auto]

Nop      == [op |-> "NOP", ba |-> 0, a |-> 0]
NoOne    == [b \in Banks |-> FALSE]
NoLatch  == [rd |-> FALSE, wr |-> FALSE, a |-> 0, match |-> FALSE]

Init ==
  /\ RfshInit /\ auto \in AutoCases
  /\ bank = [b \in Banks |-> BankReset]
  /\ latch = [b \in Banks |-> NoLatch] /\ wrl = NoOne /\ quiet = TRUE
  /\ out = [pins |-> Nop, din |-> S!Nothing, dout |-> S!Nothing,
            dbusy |-> FALSE, dbusy64 |-> FALSE, dok |-> NoOne, rdy |-> NoOne]
  /\ slots = [b \in Banks |-> [st |-> "IDLE", wr |-> FALSE, a |-> 0, n |-> 0]]
  /\ S!SimInit(Mode) /\ T!TimingInit

-----------------------------------------------------------------------------
(* The requester of a bank, jtframe_ramslot_ctrl: rd or wr until ack, then *)
(* nothing until rdy, and a new request as early as with rdy.  n counts    *)
(* the half-words that have come or been stored.                           *)
Rd(b) == slots[b].st = "ASK" /\ ~ slots[b].wr
Wr(b) == slots[b].st = "ASK" /\ slots[b].wr

Free(b) == slots[b].st = "IDLE" \/ out.rdy[b]

Moves(b) == IF slots[b].wr THEN out.pins.op \in {"WRITE", "WRITEA"} /\ out.pins.ba = b
            ELSE out.dok[b]

Requests(ask) ==
  {r \in [ask -> [wr : BOOLEAN, a : Addrs]] : \A b \in ask : r[b].wr => b \in WenBanks}

SlotsStep(asked) ==
  slots' = [b \in Banks |->
    IF b \in DOMAIN asked THEN [st |-> "ASK", wr |-> asked[b].wr, a |-> asked[b].a, n |-> 0]
    ELSE IF Free(b) THEN [slots[b] EXCEPT !.st = "IDLE", !.wr = FALSE, !.n = 0]
    ELSE [slots[b] EXCEPT !.st = IF Ack(bank[b]) THEN "WAIT" ELSE @,
                          !.n = IF Moves(b) THEN @ + 1 ELSE @]]

-----------------------------------------------------------------------------
(* What a bank sees of its request: through registers at 96 MHz.           *)
RowOf(a) == a \div Page

NoReq == \A b \in Banks : ~ Rd(b) /\ ~ Wr(b)

Asked_fault(b) == [rd |-> Rd(b), wr |-> Wr(b), a |-> slots[b].a, match |-> TRUE]

Asked(b) == [rd |-> Rd(b), wr |-> Wr(b), a |-> slots[b].a,
             match |-> RowOf(slots[b].a) = bank[b].row]
Seen(b)  == IF fast THEN latch[b] ELSE Asked(b)
SeenQuiet == IF fast THEN quiet ELSE NoReq

LatchStep_fault ==
  /\ latch' = IF fast THEN [b \in Banks |-> Asked(b)] ELSE latch
  /\ quiet' = (fast => NoReq)
  /\ wrl' = [b \in Banks |-> Seen(b).wr]

LatchStep ==
  /\ latch' = IF fast THEN [b \in Banks |-> [Asked(b) EXCEPT !.wr = @ /\ ~ Rdy(Geo(b), bank[b])]]
              ELSE latch
  /\ quiet' = (fast => NoReq)
  /\ wrl' = [b \in Banks |-> Seen(b).wr /\ ~ Rdy(Geo(b), bank[b])]

-----------------------------------------------------------------------------
(* Every bank's view of the others, of the refresh engine and of the bus,  *)
(* which the lowest bank that asks for it gets (BAPRIO).                   *)
AllIdle  == \A b \in Banks : bank[b].st = IDLE
RfshBg_fault == AllIdle /\ SeenQuiet /\ rfsh.br
RfshBg   == AllIdle /\ (SeenQuiet \/ rfsh.help) /\ rfsh.br

Sees(b) ==
  [bg |-> FALSE, rd |-> Seen(b).rd, wr |-> wrl[b], match |-> Seen(b).match,
   help |-> rfsh.help, setp |-> RfshBg,
   dbusy |-> out.dbusy, dbusy64 |-> out.dbusy64,
   dqm |-> \E c \in Banks : bank[c].dqm_busy,
   act |-> \E c \in Banks : bank[c].post_act]

Granted(b) ==
  /\ ~ rfsh.rfshing
  /\ Br(bank[b], Sees(b))
  /\ \A c \in Banks : c < b => ~ Br(bank[c], Sees(c))

In(b) == [Sees(b) EXCEPT !.bg = Granted(b)]

Closes(b)    == DoPrech(Geo(b), bank[b], In(b))
Opens(b)     == DoAct(Geo(b), bank[b], In(b))
Transfers(b) == DoRead(Geo(b), bank[b], In(b))

TransferOp(b, wr) == IF wr THEN IF b \in auto THEN "WRITEA" ELSE "WRITE"
                           ELSE IF b \in auto THEN "READA" ELSE "READ"

(* Of two commands at once the first would be on the pins.                 *)
Op(b) ==
  IF Closes(b) THEN "PRECHARGE"
  ELSE IF Opens(b) THEN "ACTIVE"
  ELSE IF Transfers(b) THEN TransferOp(b, ~ Seen(b).rd)
  ELSE "NOP"

Command(b) ==
  [op |-> Op(b), ba |-> b, a |-> IF Op(b) = "ACTIVE" THEN RowOf(Seen(b).a) ELSE Seen(b).a]

Holder == {b \in Banks : Granted(b)}

NextPins ==
  IF rfsh.rfshing THEN RfshCmd
  ELSE IF Holder = {} THEN Nop
  ELSE LET c == Command(CHOOSE b \in Holder : TRUE) IN IF c.op = "NOP" THEN Nop ELSE c

(* The data pins always carry the data of a bank; without a grant they are *)
(* of no interest.                                                         *)
OutStep ==
  out' = [pins    |-> NextPins,
          din     |-> IF \E b \in Holder : WrBusy(Geo(b), bank[b], In(b))
                      THEN LET b == CHOOSE b \in Holder : TRUE IN <<b, slots[b].a>>
                      ELSE S!Nothing,
          dout    |-> S!SimOut(out.pins),
          dbusy   |-> \E b \in Banks : Dbusy(Geo(b), bank[b], In(b)),
          dbusy64 |-> \E b \in Banks : Dbusy64(Geo(b), bank[b], In(b)),
          dok     |-> [b \in Banks |-> bank[b].dok],
          rdy     |-> [b \in Banks |-> Rdy(Geo(b), bank[b])]]

BanksStep ==
  bank' = [b \in Banks |-> BankStep(Geo(b), bank[b], In(b), RowOf(Seen(b).a))]

(* start is a strobe that comes once a line of the screen, far more clocks *)
(* apart than the payment of an overdue refresh takes; without overload,   *)
(* what the last one owes has been paid.                                   *)
MayStart ==
  /\ ~ rfsh.last /\ ~ rfsh.rfshing
  /\ rfsh.help => rfsh.cnt = MaxDebt
  /\ rfsh.cnt = 0 \/ fast \in Overload

Masks(pins) == pins.op \in {"ACTIVE", "WRITE", "WRITEA"}

Next ==
  /\ UNCHANGED auto
  /\ LatchStep /\ BanksStep /\ OutStep
  /\ S!SimStep(out.pins, Mode, Masks(out.pins))
  /\ T!TimingStep(out.pins)
  /\ \E start \in BOOLEAN : (start => MayStart) /\ RfshStep(start, RfshBg, SeenQuiet)
  /\ \E ask \in SUBSET {b \in Banks : Free(b)} : \E asked \in Requests(ask) : SlotsStep(asked)

Spec == Init /\ [][Next]_vars

(* The clock runs and the lines of the screen go on.                       *)
FairSpec == Spec /\ []<><<TRUE>>_vars /\ []<>~ MayStart

-----------------------------------------------------------------------------
(* Every command on the pins keeps the rules and the times of the chip:    *)
(* the banks' overlapping accesses and the refreshes never cross.          *)
ChipRules == T!Legal(out.pins) /\ ~ S!Throws(out.pins)

(* The half-words that come with dok are, in order, those the requester    *)
(* asked for: no other bank's access cuts the burst, moves it or masks it. *)
ReadRight ==
  \A b \in Banks : LET s == slots[b] IN
    out.dok[b] /\ s.st = "WAIT" /\ ~ s.wr => out.dout = <<b, s.a + s.n>>

(* A write stores its requester's data in the requester's cell.            *)
WriteRight == out.din = S!SimStores(out.pins)

(* rdy comes for a request that has been acknowledged, when all of it has  *)
(* been done.                                                              *)
AnswersRight ==
  \A b \in Banks : LET s == slots[b] IN
    /\ Ack(bank[b]) => s.st = "ASK"
    /\ out.rdy[b] => /\ s.st = "WAIT"
                     /\ IF s.wr THEN s.n = 1 ELSE out.dok[b] /\ s.n = LenOf(b) - 1

(* The controller drives the data pins only when no burst is left on them. *)
NoContention ==
  out.pins.op \in {"WRITE", "WRITEA"} => sim.burst = S!None

(* An overdue refresh is not held back by any load.                        *)
OverdueRefreshed == rfsh.help /\ rfsh.br ~> rfsh.rfshing

(* At the clocks at which refreshes may be owed for long every request is  *)
(* acknowledged, whatever the load.  It is the overdue refreshes that see  *)
(* to it: a write waits for a pause on the data pins, and the reads of     *)
(* another bank may leave none until help stops them.                      *)
RequestsServed == \A b \in Banks :
  fast \in Overload /\ slots[b].st = "ASK" ~> slots[b].st = "WAIT"

=============================================================================
