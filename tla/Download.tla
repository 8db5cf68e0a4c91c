------------------------------ MODULE Download ------------------------------
(***************************************************************************)
(* The download of a ROM file in the repository's simulator: the host of   *)
(* verilator/test.cpp sends a byte every so many clocks, jtframe_dwnld.v   *)
(* turns it into a write and keeps one more in reserve, and the            *)
(* programming bank of jtframe_sdram64.v makes the writes between the      *)
(* refreshes.  A step is a clock of the SDRAM; a byte is known by its      *)
(* position in the file.                                                   *)
(***************************************************************************)
EXTENDS Refresh, DwnldQueue

CONSTANTS
  Page, Banks,
  BurstLen,    \* half-words of the chip's burst
  Paces,       \* clocks from a byte to the next, at either clock
  Line,        \* clocks between two rises of rfsh, at least
  Files        \* the files the host may have to send

(* A file: its length, the bytes of its header, where the second bank's    *)
(* and the PROM's bytes start, and where the NVRAM's do (all of them at    *)
(* len when it has none); first is what a quick download sends at least.   *)
ASSUME DownloadAssumption ==
  /\ BurstLen \in {2, 4} /\ {0, 1} \subseteq Banks /\ Page \in Nat \ {0}
  /\ Line \in Nat \ {0}
  /\ \A p \in Paces : p \in BOOLEAN \X {8, 16, 32}
  /\ \A f \in Files :
       /\ {f.len, f.header, f.ba1, f.prom, f.nvram, f.first} \subseteq Nat
       /\ f.header <= f.ba1 /\ f.ba1 <= f.prom /\ f.prom <= f.nvram /\ f.nvram <= f.len
       /\ f.header <= f.first

VARIABLES
  pace, file,
  full,        \* the host sends the whole file
  host,        \* the host and the lines it drives
  bank,        \* the programming bank
  quiet,       \* noreq, when it is a register
  out,         \* the registered outputs and pins
  since,       \* clocks since rfsh rose, up to Line
  rst,         \* the reset of the game
  sim, timing,
  mem,         \* what was written to the SDRAM: cell, half and byte
  prom         \* the bytes the PROMs have taken

vars == <<fast, pace, file, full, host, dwn, came, gone, bank, quiet, out, since, rst,
          rfsh, sim, timing, mem, prom>>

INSTANCE Sdram64Bank WITH HF <- fast

S == INSTANCE SimSdram
T == INSTANCE SdramTiming WITH Burst <- BurstLen

Mode == [len |-> BurstLen, full |-> FALSE, cas |-> 2, single |-> TRUE]
Geo  == [len |-> 2, auto |-> TRUE]       \* PROG_LEN = 32
Nop  == [op |-> "NOP", ba |-> 0, a |-> 0]

-----------------------------------------------------------------------------
(* The host's clock is not twice the SDRAM's.                              *)
FullPace == pace >= 16

(* Where a byte of the file belongs.                                       *)
KindOf(k) ==
  IF k < file.header THEN "header" ELSE IF k >= file.prom THEN "prom" ELSE "sdram"

BankOf(k)   == IF k >= file.ba1 THEN 1 ELSE 0
Offset(k)   == k - (IF BankOf(k) = 1 THEN file.ba1 ELSE file.header)
WordOf(k)   == Offset(k) \div 2
HalfOf(k)   == Offset(k) % 2

(* What a download sends: all, or the first bytes and the PROM's.          *)
RomLen   == file.nvram
FirstLen == IF RomLen < file.first THEN RomLen ELSE file.first
HasTail  == RomLen > file.first /\ file.prom < RomLen
Jumps    == ~ full /\ HasTail /\ file.prom > FirstLen
Length   == IF full THEN file.len ELSE IF HasTail THEN RomLen ELSE FirstLen

Sent == {k \in 0 .. Length - 1 : Jumps => k < FirstLen \/ k >= file.prom}
ForSdram == {k \in Sent : KindOf(k) = "sdram"}
ForProms == {k \in Sent : KindOf(k) = "prom" /\ k < RomLen}

At(h) == IF h.addr < 0 THEN 0 ELSE h.addr

Init ==
  /\ RfshInit /\ since = Line
  /\ pace \in {p[2] : p \in {q \in Paces : q[1] = fast}}
  /\ file \in Files /\ full \in BOOLEAN
  /\ host = [addr |-> -1, tick |-> 0, rom |-> TRUE, ram |-> FALSE, wr |-> FALSE,
             done |-> FALSE, dumps |-> FALSE, release |-> FALSE]
  /\ DwnInit /\ came = file.header /\ gone = file.header
  /\ bank = BankReset /\ quiet = TRUE /\ rst = TRUE
  /\ out = [pins |-> Nop, din |-> 0, mask |-> S!Nothing, ack |-> FALSE]
  /\ S!SimInit(Mode) /\ T!TimingInit
  /\ mem = {} /\ prom = {}

-----------------------------------------------------------------------------
(* What jtframe_dwnld sees of the host, and its bytes to the SDRAM so far.  *)
HostLine == [wr |-> host.wr, rom |-> host.rom, byte |-> At(host), kind |-> KindOf(At(host))]

DwnldRegs ==
  /\ DwnStep(HostLine, out.ack)
  /\ came' = IF ForSdramNow THEN came + 1 ELSE came
  /\ gone' = IF out.ack THEN gone + 1 ELSE gone

DwnldBusy == host.rom \/ dwn.prom \/ dwn.we
ProgEn    == host.rom \/ DwnldBusy

-----------------------------------------------------------------------------
(* The host.  Download.step_download takes the steps of a byte: the next   *)
(* address, then the write or the end.                                     *)
Bytes(h) ==
  CASE h.tick = 0 ->
         LET next == IF Jumps /\ h.addr + 1 = FirstLen THEN file.prom ELSE h.addr + 1
             nv   == file.nvram < file.len /\ next >= file.nvram
         IN [h EXCEPT !.addr = next, !.ram = @ \/ nv, !.rom = @ /\ ~ nv]
    [] h.tick = 1 /\ h.addr < Length -> [h EXCEPT !.wr = TRUE]
    [] h.tick = 1 /\ h.addr >= Length ->
         [h EXCEPT !.rom = FALSE, !.ram = FALSE, !.done = TRUE]
    [] OTHER -> h

Update(h) ==
  LET quiet1 == [h EXCEPT !.wr = FALSE] IN
  IF ~ h.rom /\ ~ h.ram THEN quiet1
  ELSE IF h.done THEN [quiet1 EXCEPT !.tick = 0]
  ELSE [Bytes(quiet1) EXCEPT !.tick = (@ + 1) % pace]

Finishes == ~ host.done /\ Update(host).done

(* JTSim.clock: the lines of the game are those of the clock's edge.  The  *)
(* end of the download dumps the SDRAM and asks for the reset's release.   *)
Released_fault == host.release /\ ~ Update(host).rom /\ ~ Update(host).ram

Released ==
  /\ host.release
  /\ ~ Update(host).rom /\ ~ Update(host).ram
  /\ ~ host.rom /\ ~ dwn'.prom /\ ~ dwn'.we

HostStep ==
  /\ host' = [Update(host) EXCEPT
                !.dumps   = Finishes /\ full,
                !.release = (@ \/ Finishes) /\ ~ Released]
  /\ rst' = (rst /\ ~ Released)

-----------------------------------------------------------------------------
(* The programming bank and the refresh engine on the SDRAM.               *)
ProgRq == ProgEn /\ dwn.we
SeenQuiet_fault == IF fast THEN quiet ELSE ~ ProgEn

SeenQuiet == IF fast THEN quiet ELSE ~ ProgRq

RfshBg_fault == bank.st = IDLE /\ rfsh.br

RfshBg == bank.st = IDLE /\ (SeenQuiet \/ rfsh.help) /\ rfsh.br

Sees == [bg |-> FALSE, rd |-> FALSE, wr |-> dwn.we, match |-> FALSE, help |-> FALSE,
         setp |-> FALSE, dbusy |-> FALSE, dbusy64 |-> FALSE, dqm |-> FALSE, act |-> FALSE]

In == [Sees EXCEPT !.bg = Br(bank, Sees) /\ ~ rfsh.rfshing]

Does(D(_, _, _)) == ProgEn /\ D(Geo, bank, In)

Command ==
  CASE Does(DoPrech) -> [op |-> "PRECHARGE_ALL", ba |-> BankOf(dwn.prog), a |-> 0]
    [] Does(DoAct)   -> [op |-> "ACTIVE", ba |-> BankOf(dwn.prog), a |-> WordOf(dwn.prog) \div Page]
    [] Does(DoRead)  -> [op |-> "WRITEA", ba |-> BankOf(dwn.prog), a |-> WordOf(dwn.prog)]
    [] ~ Does(DoPrech) /\ ~ Does(DoAct) /\ ~ Does(DoRead) -> Nop

BankRegs ==
  /\ bank' = IF ProgEn THEN BankStep(Geo, bank, In, 0) ELSE BankReset
  /\ quiet' = (fast => ~ ProgRq)
  /\ out' = [pins |-> IF rfsh.rfshing THEN RfshCmd ELSE Command,
             din  |-> dwn.prog,
             mask |-> IF Does(DoRead) THEN <<HalfOf(dwn.prog)>> ELSE S!Nothing,
             ack  |-> ProgEn /\ Ack(bank)]

(* rfsh comes at a fixed rate, in any phase to the download.               *)
RfshRegular ==
  \E start \in BOOLEAN :
    /\ start => since = Line
    /\ since' = IF start THEN 0 ELSE IF since < Line THEN since + 1 ELSE Line
    /\ RfshStep(start, RfshBg, SeenQuiet)

Stores == S!SimStores(out.pins) # S!Nothing

Memories ==
  /\ S!SimStep(out.pins, Mode, FALSE) /\ T!TimingStep(out.pins)
  /\ mem' = IF Stores THEN mem \cup {<<S!SimStores(out.pins), out.mask, out.din>>} ELSE mem
  /\ prom' = IF dwn.prom THEN prom \cup {dwn.prog} ELSE prom

Next ==
  /\ UNCHANGED <<pace, file, full>>
  /\ DwnldRegs /\ HostStep /\ BankRegs /\ RfshRegular /\ Memories

Spec == Init /\ [][Next]_vars
FairSpec == Spec /\ []<><<TRUE>>_vars

-----------------------------------------------------------------------------
(* Every command on the pins keeps the rules and the times of the chip.    *)
ChipRules == T!Legal(out.pins) /\ ~ S!Throws(out.pins)

(* Byte k in its half of its cell.                                         *)
Entry(k) == << <<BankOf(k), WordOf(k)>>, <<HalfOf(k)>>, k>>

(* Each byte for the SDRAM was written in its place, and nothing else was. *)
Placed == mem = {Entry(k) : k \in ForSdram}

(* The game leaves its reset with all of the file in its place.            *)
LoadedAtRelease == ~ rst => Placed /\ prom = ForProms

(* The files with the contents of the SDRAM have every byte sent, unless   *)
(* the bytes come every eight clocks: the last write may then wait for a   *)
(* refresh while the host finishes.                                        *)
DumpComplete == host.dumps /\ FullPace => Placed

(* The refreshes of a rise of rfsh are made before the next one, whatever  *)
(* the pace of the bytes.                                                  *)
DebtPaid == rfsh.cnt <= Batch

(* The host and the controller respect the registers of the download ...   *)
IsQueue ==
  /\ FullPace => QInit
  /\ [](FullPace => HostLine \in Lines /\ out.ack \in BOOLEAN)
  /\ [][FullPace => QStep(HostLine, out.ack)]_qvars

(* ... which therefore hold the bytes under way, each once and in order.   *)
InOrder == FullPace => Exact

(* The download ends and the game starts.                                  *)
Starts == <>~ rst

=============================================================================
