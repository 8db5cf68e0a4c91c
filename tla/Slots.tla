------------------------------- MODULE Slots -------------------------------
(***************************************************************************)
(* The slots of a bank, jtframe_rom_*slots.v, jtframe_ram1_*slots.v and    *)
(* jtframe_ram2_*slots.v: each client's cache or requester, the selector   *)
(* that gives them the bank by turns, and the bank of jtframe_sdram64 as   *)
(* its port shows it.  A step is a clock.                                  *)
(***************************************************************************)
EXTENDS RamSlot

CONSTANTS
  Setups,  \* instances: the kind of each slot, its client's manners, the RAMs
           \* with ERASE, TAG_RAM, the bank's burst (len) and auto-precharge
  Lines,   \* entries of a large cache
  Words,   \* entries of a small cache
  Asks,    \* the ROM addresses that the client of each slot asks for
  Size,    \* cells of the RAM
  Vals     \* what is written to the RAM

ASSUME SetupsAssumption ==
  /\ Asks \in [Slots -> SUBSET Nat] /\ Vals \subseteq Nat
  /\ {Lines, Words, Size} \subseteq Nat \ {0}
  /\ \A u \in Setups :
       /\ u.kind \in [Slots -> {"line", "block", "word", "ram", "none"}]
       /\ u.client \in [Slots -> {"hold", "toggle", "glitch"}]
       /\ u.len \in {2, 4} /\ {u.tag_ram, u.auto} \subseteq BOOLEAN
       /\ u.erase \subseteq Slots

VARIABLES
  setup,   \* the instance, chosen once
  client,  \* what each client shows: cs, a, wr, v
  steady,  \* the clients that show what they showed in the clock before
  unit,    \* the registers of each slot's cache or requester
  ctl,     \* the registers of the selector
  port,    \* the bank's work on the selector's request
  mem,     \* the RAM in the bank, which all the RAM slots reach
  latest,  \* history: what it should hold
  made,    \* history: the clients whose write has been made
  seen     \* history: what the cell that each client reads has held meanwhile

history == <<latest, made, seen>>
vars == <<setup, client, steady, unit, ctl, port, mem, history>>

INSTANCE LineCache WITH TagRam <- setup.tag_ram, LineLen <- setup.len
INSTANCE BlockCache WITH Double <- setup.len = 4
INSTANCE WordCache
INSTANCE RamRq

Kind(s) == setup.kind[s]

Cells == 0 .. Size - 1

(* The half-word of the ROM at a; 0 is what registers are reset to.        *)
Rom(a) == a + 1

ResetOf(s) ==
  CASE Kind(s) = "line"  -> LineReset
    [] Kind(s) = "block" -> BlockReset
    [] Kind(s) = "word"  -> WordReset
    [] OTHER             -> RamReset(s \in setup.erase)

(* A RAM is being erased, and the game is held in reset.                   *)
EraseBsy == \E s \in Slots : Kind(s) = "ram" /\ ~ unit[s].erased

PortIdle == [n |-> 0, of |-> {}, a |-> 0, wr |-> FALSE]

Init ==
  /\ setup \in Setups
  /\ client = [s \in Slots |-> [cs |-> FALSE, a |-> 0, wr |-> FALSE, v |-> 0]]
  /\ steady = Slots
  /\ unit = [s \in Slots |-> ResetOf(s)]
  /\ ctl = SlotReset /\ port = PortIdle
  /\ mem \in [Cells -> IF \E s \in Slots : Kind(s) = "ram" THEN Vals \cup {0} ELSE {0}]
  /\ latest = IF EraseBsy THEN [a \in Cells |-> 0] ELSE mem
  /\ made = {} /\ seen = [s \in Slots |-> {}]

-----------------------------------------------------------------------------
(* The bank: n is 1 once it has seen a request, and counts the clocks from *)
(* its acknowledge.  The data of a read come three clocks after ack, rdy   *)
(* with the last; a write is over a clock after ack, or takes the time of  *)
(* a read if it is followed by an auto-precharge.                          *)
Long == ~ port.wr \/ setup.auto
Dst  == IF port.wr /\ port.n = 2 THEN TRUE ELSE Long /\ port.n = 4
Rdy  == IF Long THEN port.n = setup.len + 3 ELSE port.n = 2

(* A burst wraps at its own length.                                        *)
BurstWord(k) ==
  LET a == port.a - (port.a % setup.len) + ((port.a + k) % setup.len)
  IN IF \E s \in port.of : Kind(s) = "ram"
     THEN IF a \in Cells THEN mem[a] ELSE 0
     ELSE Rom(a)

Din == IF ~ port.wr /\ port.n \in 4 .. setup.len + 3 THEN BurstWord(port.n - 4) ELSE 0

MayAck == port.n = 1 /\ (ctl.rd \/ ctl.wr)

PortStep(ack) ==
  /\ port' = IF ack THEN [n |-> 2, of |-> ctl.sel, a |-> ctl.addr, wr |-> ctl.wr]
             ELSE IF Rdy THEN PortIdle
             ELSE IF port.n >= 2 \/ (port.n = 0 /\ (ctl.rd \/ ctl.wr))
                  THEN [port EXCEPT !.n = @ + 1]
             ELSE port
  /\ mem' = IF ack /\ ctl.wr THEN [mem EXCEPT ![ctl.addr] = ctl.din] ELSE mem

-----------------------------------------------------------------------------
(* Each slot: what it sees, and what it shows to selector and client.      *)
In(s) == [cs |-> client[s].cs, a |-> client[s].a, wr |-> client[s].wr,
          we |-> s \in ctl.sel, dst |-> Dst, rdy |-> Rdy, din |-> Din]

Requests(s) ==
  CASE Kind(s) = "line"  -> LineReq(unit[s], In(s))
    [] Kind(s) = "block" -> BlockReq(unit[s], In(s))
    [] Kind(s) = "word"  -> WordReq(unit[s], In(s))
    [] Kind(s) = "ram"   -> RamReq(unit[s], In(s))
    [] OTHER             -> FALSE

Addr(s) ==
  CASE Kind(s) = "line"  -> LineAddr(unit[s], In(s))
    [] Kind(s) = "block" -> BlockAddr(In(s))
    [] Kind(s) = "ram"   -> RamAddr(unit[s], In(s))
    [] OTHER             -> client[s].a

Ask(s) == [addr |-> Addr(s),
           rnw  |-> Kind(s) = "ram" => RamRnw(unit[s], In(s)),
           din  |-> IF Kind(s) # "ram" THEN ctl.din
                    ELSE IF EraseBsy THEN 0 ELSE client[s].v]

Ok(s) ==
  CASE Kind(s) = "line"  -> DataOk(unit[s], In(s))
    [] Kind(s) = "block" -> BlockOk(unit[s], In(s))
    [] Kind(s) = "word"  -> unit[s].ok
    [] OTHER             -> unit[s].data_ok

Dout(s) ==
  CASE Kind(s) = "line"  -> LineDout(unit[s], In(s))
    [] Kind(s) = "block" -> BlockDout(unit[s], In(s))
    [] OTHER             -> unit[s].dout

UnitStep(s) ==
  CASE Kind(s) = "line"  -> LineStep(unit[s], In(s))
    [] Kind(s) = "block" -> BlockStep(unit[s], In(s))
    [] Kind(s) = "word"  -> WordStep(unit[s], In(s))
    [] Kind(s) = "ram"   -> RamStep(unit[s], In(s))
    [] OTHER             -> unit[s]

-----------------------------------------------------------------------------
(* An ok that comes from a register belongs to the clock before, and its   *)
(* client must take that into account.                                     *)
Registered(s) == Kind(s) = "word" \/ (Kind(s) = "line" /\ setup.tag_ram)

Answered(s) == client[s].cs /\ Ok(s) /\ (Registered(s) => s \in steady)

(* What clients do: wait for the answer and then move on with or without a *)
(* pause ("hold"), drop cs between two addresses but at any time           *)
(* ("toggle"), or change the address at any time ("glitch").  The client   *)
(* of a RAM waits, and drops cs after each answer; its first request comes *)
(* when the erasure is over, its last write included.                      *)
MayDrop(s) == Answered(s) \/ (Kind(s) # "ram" /\ setup.client[s] # "hold")
MayMove(s) == /\ Kind(s) # "ram"
              /\ setup.client[s] = "glitch" \/ (setup.client[s] = "hold" /\ Answered(s))

MayAsk(s)  == ~ client[s].cs /\ (Kind(s) = "ram" => ~ EraseBsy /\ s \notin ctl.sel)

Asked(s) ==
  IF Kind(s) = "ram" THEN [cs : {TRUE}, a : Cells, wr : {TRUE}, v : Vals]
                          \cup [cs : {TRUE}, a : Cells, wr : {FALSE}, v : {0}]
  ELSE [cs : {TRUE}, a : Asks[s], wr : {FALSE}, v : {0}]

NextClient(s) ==
  CASE Kind(s) = "none" -> {client[s]}
    [] OTHER -> {client[s]}
         \cup (IF client[s].cs /\ MayDrop(s) THEN {[client[s] EXCEPT !.cs = FALSE]} ELSE {})
         \cup (IF MayAsk(s) \/ MayMove(s) THEN Asked(s) ELSE {})

ClientsStep ==
  /\ LET next == [s \in Slots |-> NextClient(s)]
     IN /\ client' \in [Slots -> UNION {next[s] : s \in Slots}]
        /\ \A s \in Slots : client'[s] \in next[s]
  /\ steady' = {s \in Slots : client'[s] = client[s]}

(* The history of the RAM, as a memory that changes at one instant would   *)
(* have it: a client's write is made when the bank takes its data, once.   *)
Stores(ack) ==
  {s \in ctl.sel : ack /\ ctl.wr /\ client[s].cs /\ client[s].wr /\ s \notin made}

HistoryStep(ack) ==
  /\ latest' = [a \in Cells |->
       LET by == {s \in Stores(ack) : client[s].a = a}
       IN IF by = {} THEN latest[a] ELSE client[CHOOSE s \in by : TRUE].v]
  /\ made' = (made \cup Stores(ack)) \cap steady'
  /\ seen' = [s \in Slots |->
       IF Kind(s) # "ram" \/ ~ client'[s].cs \/ client'[s].wr THEN {}
       ELSE {latest'[client'[s].a]} \cup (IF s \in steady' THEN seen[s] ELSE {})]

Next ==
  /\ UNCHANGED setup
  /\ ClientsStep
  /\ unit' = [s \in Slots |-> UnitStep(s)]
  /\ \E ack \in BOOLEAN :
       /\ ack => MayAck
       /\ PortStep(ack)
       /\ LET req == {s \in Slots : Requests(s)}
          IN ctl' = SlotStep(ctl, req, [s \in Slots |-> Ask(s)], ack, Rdy)
       /\ HistoryStep(ack)

Spec == Init /\ [][Next]_vars

(* The clock runs and the bank acknowledges what it is asked for, which    *)
(* run Sdram64 shows at 48 MHz.                                            *)
FairSpec == Spec /\ []<><<TRUE>>_vars /\ []<>~ MayAck

-----------------------------------------------------------------------------
Right(s) == Answered(s) => Dout(s) = Rom(client[s].a)

(* The buffer and the cache with tags in RAM answer any client that drops  *)
(* cs between two addresses; the others one that waits for its answer.     *)
Served_fit(s) ==
  \/ setup.client[s] = "hold"
  \/ setup.client[s] = "toggle" /\ (Kind(s) = "block" \/ (Kind(s) = "line" /\ setup.tag_ram))

(* An answer is the half-word that was asked for.                          *)
AnswersRight == \A s \in Slots : Kind(s) # "ram" /\ Served_fit(s) => Right(s)

(* The RAM slots share a memory that changes at one instant: a write that  *)
(* is answered has been made, and a read returns what its cell has held    *)
(* since the client asked; before any write that is 0 where RAM is erased. *)
RamLatest == \A s \in Slots : Kind(s) = "ram" /\ Answered(s) =>
  IF client[s].wr THEN s \in made ELSE Dout(s) \in seen[s]

(* What a large cache or a buffer keeps is what the ROM holds, at the      *)
(* place where it is looked for, and so is the part of a line that has     *)
(* come, whatever the clients do; what a small cache keeps, if its client  *)
(* waits for its answer.                                                   *)
CachesRight == \A s \in Slots : LET c == unit[s] IN
  CASE Kind(s) = "line" ->
         /\ \A x \in Index : c.valid[x] =>
              /\ IndexOf(c.tags[x]) = x
              /\ c.data[x] = [k \in 0 .. setup.len - 1 |-> Rom(c.tags[x] * setup.len + k)]
         /\ c.receiving =>
              \A k \in 0 .. c.beat - 1 : c.fill[k] = Rom(c.fill_line * setup.len + k)
    [] Kind(s) = "block" ->
         s \notin ctl.sel => \A e \in 1..2 : c.good[e] =>
           c.data[e] = <<Rom(2 * c.block[e]), Rom(2 * c.block[e] + 1)>>
    [] Kind(s) = "word" /\ setup.client[s] = "hold" ->
         \A e \in Entries : c.valid[e] => c.dmem[e] = Rom(c.amem[e])
    [] OTHER -> TRUE

(* A client that waits is answered.                                        *)
WaitEnds == \A s \in Slots :
  client[s].cs /\ setup.client[s] # "glitch" ~> Answered(s) \/ ~ client[s].cs

(* jtframe_romrq.v recommends to toggle cs for each request.               *)
ToggledRight == \A s \in Slots :
  Kind(s) # "ram" /\ setup.client[s] = "toggle" => Right(s)
=============================================================================
