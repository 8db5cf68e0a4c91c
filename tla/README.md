# Verification of the jtframe memory path

jtcores is a collection of FPGA reimplementations of arcade boards. The boards
themselves (`src/cores`) are mostly data paths; what they share is the framework
`src/modules/jtframe`, and the part of the framework in which concurrency,
caching and timing meet is the way from a game core to the SDRAM. This directory
models that path in TLA+, twice over, because the framework has two of them: the
write-back caches with the burst controller behind them, and the slots with the
four-bank controller; and it models how a game gets into the memory in the first
place, from the host of the C++ simulator to the SDRAM.

One TLA+ step is one rising edge of a clock. A component is a module with
record-valued registers and one action per state or condition of its always
block; components that share a clock are composed by conjunction.

## 1. Inventory

Paths are below `src/modules/jtframe/hdl/sdram` unless said otherwise.

| Component | State it keeps | Operations | What makes it correct |
|---|---|---|---|
| Tag store `jtframe_cache_tags.sv` | valid, dirty, tag per way and set; registered read port; round-robin pointer per set | look up, scan, clear a set, update an entry, advance the pointer | a line is in one way only; a comparison never uses the tags of another set |
| Request front end `jtframe_cache_req.sv` | edge trackers, a latch for one request, a read probe, pending flush and invalidate | catch edges of rd/wr/flush/invalidate, latch what comes while blocked, probe hits during a flush | no request, flush or invalidation is lost or performed twice |
| Cache controller `jtframe_cache_ctrl.sv` | FSM of 20 states, current request, victim, scan position, data RAM | lookup, fill, write-back, flush scan, invalidate, answer | reads see the last write; a clean line equals memory; `flush_done` and `invalidate_done` are true |
| Flush sequencer `jtframe_cache_mux_flush.v` | pending sources, source in work, lanes seen | queue ends of flushes, invalidate the targets, release `flush_done` | never early, never lost, every source answered |
| Mux arbiter `jtframe_cache_mux_arb.v` | owner of the burst port | pick, release on rdy | one owner per burst, nobody waits for ever |
| Cache mux `jtframe_cache_mux.v` | held oks of eight lanes | address composition, ok-hold, wiring | an ok belongs to the request that is on |
| Burst controller `jtframe_burst_sdram.v` with `_ctrl`, `_mode`, `_mux`, `_io` | sequencer, mode FSM, delay lines, two pipeline stages | accept, stream until rd/wr falls or the page ends, precharge; set the mode register | legal commands only; each half-word in its place |
| Refresh engine `jtframe_sdram64_rfsh.v` | debt counter, one-hot step, help, br | add to the debt, ask, refresh while nobody requests | what is owed is paid |
| Bank controller `jtframe_sdram64.v` with `_bank`, `_latch` | one FSM a bank, request latches, shared bus | interleave the banks, precharge, refresh; program a word | bus never driven twice; data reach the bank that asked |
| ROM/RAM slots `jtframe_ramslot_ctrl.v`, `jtframe_rom_*slots.v`, `jtframe_ram*slots.v` | slot in service, its request | pick a requester of a bank | data return to the slot that asked |
| Slot caches `jtframe_romrq.v` with `_bcache`, `_dcache`/`_lcache`, `_xscache` and `jtframe_ucache.v`; `jtframe_ram_rq.v` | one to a few lines or words, the fill in progress | hit, request, fill | an answer is the word at the address that is asked for |
| Download `jtframe_dwnld.v` | one write in progress, one in reserve | split the host's bytes into banks and PROMs, write | no byte lost or misplaced when the SDRAM is slow |
| Simulator `src/modules/jtframe/verilator/test.cpp` | the SDRAM's banks and open rows; the download's position; the reset | decode the pins; send a file; dump; release the reset | the SDRAM behaves like the chip; nothing is dumped or released too early |
| Older controllers `jtframe_sdram.v`, `jtframe_sdram_bank*.v` | | | superseded |
| Clocks, video, sound, input, CPU glue (`hdl/…`) | | | data paths and vendor glue |
| Build tools `src/modules/jtframe/src/jtframe` (Go) | files | generate Verilog, MRA and memory maps | sequential text processing |
| Game cores `src/cores` | | | clients of the path |

How they interact. *Cache path*: a core raises `rd`, `wr`, `flush` or `invalidate` of a
lane and holds the request until `ok`; the lane's front end latches, its
controller looks the tags up and, on a miss, raises `ext_rd`/`ext_wr`, levels that
last as long as the burst should; the arbiter gives the port to one lane until
`rdy`; the burst sequencer turns the level into ACTIVE, READ or WRITE, STOP and
PRECHARGE, two pipeline stages before the pins; refreshes and the mode register's
FSM take the chip when the sequencer has been idle for five clocks. When a lane
whose source number has a mask ends a flush, the flush sequencer invalidates the
lanes of the mask before the requester sees `flush_done`. *Slot path*: each client
of a bank has a slot with a small cache; the slot asks the bank's selector, which
asks the bank's state machine; four of those share the pins, the data bus and the
refresh engine. *Download*: the host puts a byte on the lines every so many clocks;
`jtframe_dwnld` makes a masked write of it, which the bank chosen for programming
performs between refreshes, while the game is in reset.

What is hard there: tags are read one clock late while four actors redirect the
read port; reads are served during a flush through a side path; requests, flushes
and invalidations overlap in every order; commands, acknowledges and data cross
pipelines, so that a lane stops a burst clocks after the fact and takes the first
half-word by counting, and that a bank decides on what the others did a clock
ago; refreshes are only let in between accesses; a client may drop or change its
request while the word of an earlier one is on its way; the host of a download
does not wait. The repository's own tests of the cache lane list what they leave
out (`src/modules/jtframe/ver/sdram/cache/README.md`, "What These Tests Do Not
Cover"): requests that arrive while another transaction is busy, victim
selection, arbitration, and refresh against bursts. These are what the models are
about. `PROJECT.json` lists each hazard at its line with the properties that cover it.

## 2. Modules

| Module | Models | Notes |
|---|---|---|
| `CacheTags` | `jtframe_cache_tags.sv` | `ram`, `q` (the registered port), `repl` (the pointers); the updates of one clock |
| `CacheReq` | `jtframe_cache_req.sv` | the latch `held`, the probe pipeline `probe`, the edge trackers |
| `Cache` | `jtframe_cache_ctrl.sv`, `jtframe_cache.sv`, `jtframe_cache_data.sv` | one action per FSM state; `CtlOut` is the combinational output to the other two; a line moves in one step |
| `WordStore` | what the lane promises: an array of words, one open request per path | abstract specification |
| `CacheSystem` | a lane, its requester and a burst controller that answers at any time | properties, refinement mapping, fairness |
| `CacheInvariant` | the inductive invariant of a lane | checked by TLC, used by the proofs |
| `CacheProofs` | theorems about a lane | |
| `CacheRefinement` | the proofs that a lane implements `WordStore`, and of what a requester is answered that takes turns with its flushes | |
| `CacheMuxFlush`, `CacheMuxFlushSystem`, `MCCacheMuxFlush` | `jtframe_cache_mux_flush.v`, with lanes that flush and clear | any number of sources and lanes, any masks; history variable `stale`: the lanes a source still waits for |
| `CacheMuxFlushProofs` | theorems about the sequencer | |
| `LineStream` | the states `S_WB_*` and `S_FILL_*` of `jtframe_cache_ctrl.sv`, half-word by half-word | what `Cache` abstracts to one step |
| `LineStreamProofs` | lemmas about a lane's line, for every geometry | |
| `CacheMuxArb` | `jtframe_cache_mux_arb.v` | |
| `BurstCtrl`, `BurstSdram` | `jtframe_burst_ctrl.v`; `jtframe_burst_sdram.v`, `_mode.v`, `_mux.v`, `_io.v` | delay lines, mode FSM, pin multiplexer and pipeline around the sequencer and `Refresh` |
| `Refresh` | `jtframe_sdram64_rfsh.v`, XL=0 | `fast` is HF: at 96 MHz `br` is a register and the waits are longer |
| `SdramChip` | `src/modules/jtframe/hdl/ver/mt48lc16m16a2.v` | open rows, burst pipeline, timing checks in clocks of 96 MHz |
| `SdramTiming` | the same checks at either clock, by bank, with auto-precharge | used where there is no full-page burst |
| `SimSdram` | the SDRAM of `verilator/test.cpp` | what the simulator makes of the same pins |
| `BurstPath` | two lanes, arbiter, controller, chip and the simulator's SDRAM wired together | properties |
| `BurstInvariant`, `BurstProofs` | the invariants of the burst path and the theorems about it | `PathInv` the controller, `TandemInv` chip and simulator, `LineInv` (in `BurstProofs`) the lanes |
| `Sdram64Bank`, `Sdram64` | `jtframe_sdram64_bank.v`; `jtframe_sdram64.v` and `_latch.v` with a requester a bank, the refresh engine and the SDRAM | |
| `Sdram64Invariant` | the inductive invariants of that controller | `IInv`: what each register and the pins hold of an access; `TimesInv`: how long the rows have been open or shut |
| `Sdram64Proofs` | theorems about the controller: its answers and its data; the rules and times of the chip | |
| `Dwnld` | `jtframe_dwnld.v` | |
| `DwnldQueue` | `Dwnld` with any host and any SDRAM that respect two assumptions | what the registers promise: a queue |
| `Download`, `MCDownload` | the host of `test.cpp`, `Dwnld`, the programming bank, refreshes and the SDRAM | |
| `DownloadInvariant` | the inductive invariants of the download | `ControlInv` host, registers, bank and refreshes in time; `ChipInv` the chip and the simulator's SDRAM; `DataInv` what was written |
| `DownloadProofs` | theorems about the queue and about the whole download | |
| `LineCache`, `BlockCache`, `WordCache`, `RamRq` | `jtframe_romrq_lcache.v`, `jtframe_romrq_bcache.v`, `jtframe_romrq_xscache.v` with `jtframe_ucache.v`, `jtframe_ram_rq.v` | |
| `RamSlot` | `jtframe_ramslot_ctrl.v` | any set of slots |
| `Slots`, `MCSlots` | the slots of a bank, with clients and with the bank as its port shows it | |
| `SlotsInvariant`, `SlotsProofs` | the inductive invariant of the slots and the theorems about them | |

An operator whose name ends in `_fault` is a broken variant of the definition after
it, the bug that a property is there to notice; nothing uses it.

### Correspondence and abstraction

* Registers keep the source's names as record fields (`ctl.flushing`, `req.probe`,
  `arb.active`, `rfsh.br`); FSM states keep theirs without the `S_`/`B_` prefix.
* One-hot and shift registers become what they count: `st` of the refresh engine is
  the index of its bit, a delay line of four bits is the number of clocks until it
  is all zeros (or has been all ones).
* In the lane, an address is `[tag, set, off]`, a word a small number; byte masks
  (`wdsn`), packing and endianness are left out, and the burst controller is an
  environment that raises `ack` and `rdy` at any time while it is asked.
* In `BurstPath` and `Sdram64` a half-word *is* the cell it belongs to, and in the
  download a byte is its position in the file. Whether data go where they belong
  can then be read off the model without contents. In `Slots` the ROM holds
  `Rom(a)`, another word at each address, and 0 is what registers are reset to.
* The requester of a lane follows `jtframe_cache.md` and the repository's tests:
  `rd`/`wr` are held until `ok`, then low for a clock; `flush`/`invalidate` are
  one-clock pulses, not repeated before the previous one is done. The constant
  `Uses` says which overlaps a run explores.
* The requester of a bank in `Sdram64` is `jtframe_ramslot_ctrl`: `rd` or `wr` until
  `ack`, nothing until `rdy`, a new request as early as with `rdy`. In `Slots` the
  selector is there in full, and the bank is reduced to its port: it acknowledges
  at any time from the clock after it sees a request, sends the words of a burst
  from three clocks after that and `rdy` with the last; a write is over a clock
  after `ack`, or with auto-precharge takes the time of a read (`BankStep` of
  `Sdram64Bank` is where this is read off).
* Clients of a slot have manners. *hold*: the request stays until it is answered,
  and the next may follow at once. *toggle*: `cs` may fall at any time, and does
  between two addresses, as the header comment of `jtframe_romrq.v` asks of a
  client that cannot wait. *glitch*: the address may change at any clock. A RAM's
  client holds, and drops `cs` after each answer. With TAG_RAM, and in the small
  cache, `ok` is a register and belongs to the clock before, so the word is right
  only for a client that shows what it showed then (`steady`); a client that moves
  inside a line sees the word of the clock before once more, which the parameter
  OKLATCH documents for its latency. OKLATCH itself is never used by the cache of
  the default slots.
* Slot parameters: 16-bit clients; LATCH, FASTWR and AUTOTOGGLE at 0 and `clr` tied
  to 0, as the generated ports have it; ERASE as each setup says (it is 1 unless
  `dont_erase` is given). While a RAM is erased `hold_rst` keeps the game in reset, so
  the client of a RAM asks only when no erasure is on and the last write of its own has left the
  bank (`MayAsk`); the clients of ROM slots are left free, which is more than the
  code does.
* A RAM slot and the others reach one array `mem` of `Size` cells. What it should hold is told by
  history variables: `latest` changes in the clock in which the bank takes a client's write,
  `made` has the clients whose write has been taken, and `seen` what the cell that a client
  reads has held since it asked.
* Reset is the initial state; a reset in the middle of a run is not modelled.
* `BurstPath` and `Sdram64` start when the initialisation has let go of the chip, with
  `prog_en` low; `Download` is the time in which it is high. Timing ages in `SdramChip`
  are per chip, not per bank, which is stricter.

## 3. What TLC checks

| Run | Bounds | Shows |
|---|---|---|
| `CacheOverlap` | 2 ways, 1 set, 3 lines; all overlaps of requests and flushes | `IInv` (the inductive invariant of the proofs), `UniqueTags`, `FlushKeepsLines` |
| `CacheEvict` | 1 block, 2 lines, 2 values; all overlaps | the lane implements `WordStore` (`IsWordStore`); `CleanMatchesMemory`, `FlushDoneCoherent` |
| `CacheQuiet` | 2 ways, 3 lines, 2 values; no overlap | `ReadLatest` and `OkAnswersRequest`: a requester that respects the flush sees plain memory |
| `CacheLive` | 1 way, 2 sets, 2 tags; writes, flushes, invalidations, all overlaps | `TypeOK`, `InvalidateDoneEmpty`; `RequestServed` and `DrainServed` under fairness |
| `MuxFlush` | 4 sources, 6 lanes, masks of cps3's shape | `TypeOK`, `DoneMeansCleared`, `NoFlushLost`, `FlushAnswered` |
| `BurstPath` | a lane of 8 half-words in 32-bit words and one of 4 in 16-bit words that ends its page, two banks, debt up to 3 | `ChipRules`, `FilledRight`, `WrittenRight`, `TransfersEnd`, `OverdueRefreshed`; `SimulatorAgrees`: the simulator's SDRAM sends and stores what the chip does |
| `Sdram64` | two banks, one of a double burst, with and without auto-precharge, two rows each, writes in one, both clocks, debt up to 3 | `ChipRules`, `ReadRight`, `WriteRight`, `AnswersRight`, `NoContention`; `OverdueRefreshed`, and at 48 MHz `RequestsServed`, under fairness |
| `Download` | five files of up to 10 bytes, and of 40 in one bank, full and quick, a byte every 8, 16 or 32 clocks, both clocks, a refresh batch every 100 clocks in any phase | `ChipRules`, `LoadedAtRelease`, `DumpComplete`, `DebtPaid`, `InOrder`, `Starts`, `IsQueue` |
| `Slots` | two slots of one bank, five pairs of kinds and eight single ones, three addresses on two lines of an entry, a RAM of two cells | `AnswersRight`, `RamLatest`, `CachesRight`; `WaitEnds` under fairness |
| `CacheStaleRead`, `Sdram96Misread`, `SlotsWrongWord` | | counterexamples, section 6 |

Why the bounds are enough to be interesting.

* *Lane.* Two lines per way and set are the least with evictions, a third line makes
  the replacement pointer wrap over a full set; one block with two lines makes
  every second request evict a dirty line; two sets make scan and clear cross a
  set boundary. Word values beyond two cannot be told apart by any action. The
  geometry is a parameter of the proofs.
* *Burst path.* Eight half-words in pairs exercise all three prefetch rules of the
  write-back, the second lane ends with its page; a debt of three is the least at
  which `help` has its hysteresis. A behaviour is of one of two kinds (`Scenarios`):
  one lane that also flushes, with refreshes requested at any time, or two lanes
  that never flush, with refreshes requested while none is in progress. Flushing
  with two lanes and lanes beyond two are outside the run.
* *Bank controller.* Two banks are the least that share the bus; their bursts have
  different lengths, because each stage of `dbusy` belongs to one length; a row hit, a
  row conflict and an empty row occur at two addresses of different rows. The debt goes to three, as in the burst
  path. `MayStart` keeps refreshes apart: one batch comes only when the last is paid, unless
  `Overload` allows debts at that clock; `Sdram64` has `Overload = {FALSE}`, so that
  `help` and its forced refreshes are exercised at 48 MHz, and the same at 96 MHz
  is the finding `Sdram96Misread`.
* *Download.* The files have every kind of boundary: a header, no header, one bank or
  two, PROMs, an NVRAM, an odd length; one is long enough for several batches of refreshes.
  A batch of two every `Line = 100` clocks is a refresh in 50 clocks, where the source has nine in the
  3072 clocks of a line of the screen, one in 341: often enough to delay a write in every phase. The
  bound matters. With a batch every 72 clocks and a byte every 8, the writes leave
  fewer refreshes than fall due: in a long file the debt grows until `help` forces one, which then
  meets the programming bank in the middle of a write, and both `DebtPaid` and `ChipRules`
  fail; that rate is an order of magnitude beyond the source's. A pace of 8 clocks a byte is that of
  `_JTFRAME_SIM96` with a 48 MHz SDRAM; a pace of 32 that of `_JTFRAME_SIM_SLOWLOAD`.
  At pace 8 the run claims less: every byte is in its place when the reset
  is released, but the dump at the end may miss the last byte if a refresh comes before its write, and
  a PROM's byte may take the registers a clock before the acknowledge of the
  last SDRAM byte, so `DumpComplete`, `InOrder` and `IsQueue` are about the paces of
  a full period only. With bursts of four at pace 8 bytes would be lost; no core
  combines the two.
* *Slots.* Lines and words of two entries; three addresses of which two share an entry,
  so hits, misses, conflicts and hits during a fill all occur. The pairs put a RAM
  next to a cache, two RAMs on the same two cells, both of them erased, caches next to caches, with bursts of two and
  four, both kinds of tags and auto-precharge; each cache is also alone with a
  toggling and a glitching client. With three slots the two of highest priority
  can starve the third: `WaitEnds` is about two.

A run with more than one constant `Uses`, `Scenarios`, `Setups` or `Files` is not a
weakening: the constant only selects which inputs are enumerated.

### Fairness

* `CacheSystem`: the clock runs (`WF` of `Next` without what the requester `Raises`), and a burst that is asked for is
  accepted and ends (`WF` of `BurstMoves`). `BurstPath` shows that the real
  controller does so for two lanes (`TransfersEnd`).
* `CacheMuxFlushSystem`: the clock runs (`WF` of the steps in which no source begins a flush), a flush in progress ends and a clear that
  was started ends, which is `DrainServed` of a lane for lanes whose requesters pause now and then.
* `BurstPath`, `Sdram64`, `Download`: only that the clock runs, written `[]<><<TRUE>>_vars`. A state
  in which nobody asks for anything may stay as it is, and there this makes a requester move;
  but whenever somebody waits, some register changes without the help of a new request or of `rfsh`, so that
  the condition never does the work of a requester where a property is about a wait.
  The lines of the screen go on as well, in `Sdram64` (`[]<>~MayStart`): a refresh batch falls due again and again.
* `Slots`: the same, and the bank acknowledges what it is asked for (`[]<>~MayAck`), which
  is `RequestsServed` of `Sdram64` at 48 MHz.

No fairness is assumed of requesters or clients. That has a price in two places. At 96 MHz
nothing is claimed of `RequestsServed`: without debts the reads of one bank may keep
a write of another out for as long as they go on, and a debt that is left to grow until `help` cuts them short
is where the controller misreads (`Sdram96Misread`). And `DrainServed` of a lane says that a flush or an
invalidation ends *unless requests keep coming for ever*: latched requests go before it.

## 4. What is proved

All theorems are checked by TLAPS for every value of the constants.

**A cache lane** (`CacheProofs`), from `GeometryAssumption`: the geometry
constants are positive naturals. `TypeCorrect`; `Invariance`: `Spec => []IInv`; from it
`NoTwoCopies` (`UniqueTags`), `CleanIsMemory` (`CleanMatchesMemory`),
`InvalidateEmpties` (`InvalidateDoneEmpty`), `FlushCompletes` (`FlushDoneCoherent`)
and `FlushIsTransparent` (`FlushKeepsLines`).

Why `IInv` is needed: none of the safety properties is inductive. `UniqueTags`
survives the end of a fill only if the line fetched is in no way (`MissAbsent`),
which holds because the lookup compared the tags of the right set (`LookupFresh`)
and nothing updated the set since, which in turn needs that a flush and a request
never work at the same time (`FlushPhase`, `BlkPlaced`). `CleanMatchesMemory`
survives the clearing of the dirty mark only if the line was just written
(`WrittenBack`) from the block that still holds it (`VictimHeld`).
`FlushDoneCoherent` needs that the scan leaves nothing dirty behind (`Scanned`,
`FlushedAll`), which needs that the scan compares fresh tags (`CheckFresh`) although
read probes redirect the tag port. `InvalidateDoneEmpty` needs `Cleared`. The
proof of the step has one lemma per state of the controller, with the tag store's
updates summarised by a lemma for each kind of update (`ReadEffect`, `UpdateEffect`,
`ClearEffect`, `AdvanceEffect`).

`LaneIsWordStore` (`CacheRefinement`): a lane whose requester never invalidates it
implements `WordStore` (`IsWordStore`), for every geometry and every overlap of requests,
flushes and the reads a flush lets through. An invalidation drops dirty words, which is
what it is for, so the theorem assumes `"invalidate" \notin Uses`, as the run does.
The mapping says which word an address has: the one in the way that holds its line,
or else memory's (`Word`; it is well defined by `UniqueTags`). A fill, a write-back and
the clear after reset leave every word as it is (`FillWords`, `WbWords`,
`ClearedWords`), a write changes one (`WriteWords`), and all other steps move
nothing (`KeptWords`). `IInv` alone is not enough for it: `RInv` adds that memory has the line
a fill overwrites (`VictimSafe`), that an answer is read from the block that holds
its line (`AnswerPresent`), and for a read during a flush that its lookup compares fresh
tags (`ProbeFresh`), that the line it found is in its block until the answer two clocks
later (`ProbeHeld`) and that this answer comes before any line can move (`ProbePhase`),
since the probe may outlive the flush by two clocks. Then each step is mapped to an
acceptance, an answer, the fall of `ok`, or a stutter (`RefinesNext`).

`EachAnsweredOnce` and `ReadsTheLatest` (same module): a requester that does not
start a flush with a request on, nor a request before its flush is done
(`WaitsTurn`, which forbids the two overlaps of `Uses`; without it the finding
`CacheStaleRead` is a counterexample), sees `ok` only for the request that is on
(`OkAnswersRequest`) and, if it does not invalidate, reads the word it wrote last
(`ReadLatest`). The argument follows a request through its stages: away, risen at the
front end (`Fresh`), latched (`Kept`), taken by the controller
(`Taken`), answered (`Told`); exactly one of them holds (`InTurn`). A flush goes through stages
of its own (`DrainStages`), and `DrainApart` says that no stage of one meets a stage of
the other, so that no probe ever runs (`NoProbe`). `LInv` adds that what
`Word` says of the lane is what was last written there (`LatestStored`) and that the
answer under way is that word (`AnswerStored`).

**The flush sequencer** (`CacheMuxFlushProofs`): `SequencerTyped` (`TypeOK`), `FlushDoneNotEarly`
(`DoneMeansCleared`) and `FlushDoneNotLost` (`NoFlushLost`) for any number of sources and
lanes and any masks, from `SequencerInvariant`.

**The download** (`DownloadProofs`). `QueueExact`: in `DwnldQueue` the two
registers of `jtframe_dwnld` hold exactly the bytes taken and not yet acknowledged,
in order, for every file, every time a write takes and every host that sends no
byte while both are full and no PROM byte while a write is on. `DownloadInOrder`
carries this to the whole simulator as `Spec /\ IsQueue => []InOrder`: a download whose
host and SDRAM respect those assumptions loses, repeats and reorders nothing.

That they do, and the rest of what the run checks, is proved too for bytes that come every 16 clocks
or more (`FullPace`): `DownloadIsQueue` (`IsQueue`), `BytesInOrder` (`InOrder`), `DebtIsPaid` (`DebtPaid`), `DownloadLegal`
(`ChipRules`), `GameIsLoaded` (`LoadedAtRelease`) and `DumpIsComplete` (`DumpComplete`), for every file, both clocks, any
`Page` and refreshes in any phase. The host is never held back, so nothing but time keeps it from
overrunning the registers, and every one of these theorems is in the end an argument about time:

* `ControlInv` (`ControlHolds`). The tick of the host tells how long ago the last byte could be taken (`Age`) and how long it is until
  the next one (`Left`); the state of the bank, with the refresh that may hold it up, how many
  clocks a write still needs to reach the state that answers it (`ToRead`). `TimeInv` bounds their sum. At 48 MHz a
  write, with the refresh before it, is answered at age 9 at the latest. At 96 MHz it is answered
  at 16 if it is the first, which also has to precharge, just as the second byte comes: this is the one case in which the
  reserve register is used (`pendwe`). A later write may still be in its last states when the next byte comes,
  but it has been answered.
* `DebtInv` gives every refresh of a batch 40 clocks and the first of them `ToPay`: the rest of
  the one in progress, or the clocks until the bank rests with no request (`ToGrant`: after this
  write if the next byte is far enough away, else after the next write) and a whole refresh. So
  the batch is over before 50 clocks for each have passed, and the next rise of `rfsh` finds nothing owed.
* `ChipInv` (`ChipHolds`). One write at a time is in the bank, so that the row that is open and the age of each of the chip's times are
  functions of the bank's state (`BankIs`): from ACT to one or two clocks after the WRITEA the row is the write's
  (`Closing`), then the bank precharges itself. A refresh starts only when the bank
  is idle, and `TimingInv` says that by then the precharge is old enough. `SimInv` is the same for the simulator's SDRAM.
* `DataInv` (`DataHolds`). The memory holds one entry for each byte from the header's end up to the one being written
  (`Written`); the PROMs and the register on its way to them hold each PROM byte the host has passed (`Past`).
  That the last write is made before the host is done follows from `TimeInv` and `NotAlone`.

The theorems assume `Ordinary`, which speaks of constants only: `50 * Batch <= Line` (the source
has 9 refreshes in the 3072 clocks of a line, 341 clocks each), `2 * Batch <= MaxDebt` (18 in a counter to 63), and that no file has
exactly one byte for the SDRAM. That last condition is needed: the only write of such a file is also the first,
which takes 16 clocks at 96 MHz if a refresh comes before it, and TLC shows that then the dump misses the byte, or, if a PROM's byte
follows, that this byte takes the registers in the clock of the acknowledge (`DumpComplete` fails in the one
case, `IsQueue` and `InOrder` in the other). No ROM set is that small. `Ordinary` leaves all files of the run and its
constants in. A byte every 8 clocks is beyond the theorems: there a refresh may make a write late
enough for the second register to be in use at any byte, and the bounds above do not hold.

**The slots** (`SlotsProofs`): `SlotsInvariance`: `Spec => []IInv` for every set of slots, kind of each,
size of cache, burst and address; from it `CachesHoldRom` (`CachesRight`),
`AnswersAreRight` (`AnswersRight`) and `RamReadsTheLatest` (`RamLatest`). The argument: a cache asks for one line at a time
and its request keeps that line until the selector has taken it; from then until
the last word the bank belongs to that slot, and what comes is the burst of the
line it asked for; so each beat of the fill extends a prefix of the ROM's line, and
no answer is given from a half-filled line, because `ok` is kept low while the slot is
selected; and a client that waits shows the same address all the time. Neither
`CachesRight` nor `AnswersRight` is inductive: both need the relation between the
selector's registers, the port's count and the cache's own fill registers, which
`SlotsInvariant` states kind by kind. `CachesHoldRom` is about every client where the slot has a buffer or a large cache, and about
clients that wait where it has a small cache: of the others it is false (`SlotsWrongWord`).

`RamLatest` is about any number of RAM slots that reach the same cells (`jtframe_ram2_4slots.v` has two),
any of which may be erased first, next to any ROM slots. A RAM slot has no cache, but it is not alone: another may write
its cell between its request and the data. So the property is that of an atomic memory: a write that is answered has
been made, and a read gives what its cell has held at some instant since the client asked, which with a single RAM
slot is the last word written. The invariant follows a slot from the erasure
(`RamErases`, and `RamEnds` while its last write is in the bank) to idle (`RamIdle`), over the rise of `cs` (`RamRises`), the wait for the
selector (`RamWaits`) and the work of the bank (`RamWorks`) to the answer (`RamTold`). `MemInv` says where the RAM
holds `latest`: everywhere but at the cells that some slot has yet to erase or is erasing. No client can
write such a cell, since none asks before all the erasures are over.

**The bank controller** (`Sdram64Proofs`): `AnswersTheirOwn` (`AnswersRight`), `ReadsTheirOwn`
(`ReadRight`), `WritesTheirOwn` (`WriteRight`) and `NeverContends` (`NoContention`), for any
number of banks, bursts of 1, 2 and 4 of which any bank may take only half, any choice
of auto-precharge and any addresses, at both clocks. The invariant `IInv` (`Sdram64Invariant`)
rests on one observation: the state of a bank's machine tells the clock that its
access is in, and hence what each register of the bank (`BusyInv`), the copies of the request in the latches
(`LatchInv`, `WorkInv`), the requester's count (`AnswerInv`), the pins (`PinsInv`), the row open in the
SDRAM (`RowInv`) and the burst in the SDRAM's pipeline (`BurstInv`) hold. Two facts
carry the sharing of the bus: two banks are never both between READ and the last of
their data (`BusyInv`), which `dbusy` guarantees only together with `dqm_busy`, because a
bank's own view of the bus is a clock old; and at 96 MHz, where `br` is a register, a bank
that was granted on the strength of an older view is held back by the masks (`GrantInv`).
A read's half-words are not masked because no other bank opens a row before `dqm_busy` falls (`DataInv`).

`KeepsTheChipsRules` (`ChipRules`): every ACTIVE finds its bank closed, every transfer its
row open, every REFRESH all banks closed, and none of them comes before tRCD, tRAS, tRC,
tRP, tWR, tRRD and tRFC allow. `IInv` orders the commands; `TimesInv`, inductive together with it, bounds
the ages of the chip's timing checks from below. At both clocks the times and the states are
small multiples of the clocks from ACTIVE to READ (`Units`), so that one argument
serves both. An access that is past READ by so many clocks has had its row open for tRCD and those
clocks (`OpenFor`); a bank that rests may close its row a clock from now, and one whose row
is shut lacks at most a clock of tRP and of tRC (`MayClose`); a bank with auto-precharge is
back at rest only after the chip has closed the row by itself (`ClosesItself`); and the
step of the refresh engine tells how long ago the REFRESH was (`PauseInv`). An ACTIVE may follow
the bank's own PRECHARGE by exactly tRP: there the order of the steps leaves no margin.

The theorems assume `Unhurried`: at 96 MHz no refreshes are owed beyond one batch when the
next comes, and two batches fit in the counter, so that `help` is not raised at that
clock. The source's values satisfy the second part (`RFSHCNT` is 9 and the
counter has 6 bits), and a batch takes far less than the line between two. Without the
first the theorems are false, which is the finding `Sdram96Misread`. At 48 MHz `help`
may be raised, and forces its refreshes.

**The burst path** (`BurstProofs`): `CommandsLegal` (`ChipRules`), `LinesWritten` (`WrittenRight`),
`LinesFilled` (`FilledRight`) and `SimulatorFaithful` (`SimulatorAgrees`), for every page, two lanes of any
geometry, bank and base, all that they may ask for and refreshes at any moment (`Scenarios`).
Three invariants rest on one another, each tried as an invariant of the run `BurstPath`
before it was proved.

* `PathInv` (`PathCorrect`) is about the controller alone, for any requester (`Asks`). The
  sequencer is two clocks ahead of the pins, so no statement about the pins is inductive
  without the pipeline: `CmdPipe`, `ReadPipe` and `WritePipe` say for each state of the
  sequencer what is in both stages. Who has the pins is decided by delay lines:
  `BusyInv` says that while a refresh or the mode has them the sequencer rests or stands in
  ACT, frozen with its request; that the mode FSM and the refresh engine may both be let in, in one
  clock, is why ACT is in it. `RowInv` names the one row that is open, and `AgeInv` bounds the ages
  of the chip's timing checks by the state (`MinAct`, `MinPre`, `MinRef`): it is from these
  minima that each command is legal (`PathLegal`). As in the bank controller an ACTIVE comes exactly
  tRP after a PRECHARGE at the earliest.
* `TandemInv` (`TandemCorrect`) puts the simulator's SDRAM beside the chip. The two count differently: the
  chip keeps a cell that moves on with each clock, the simulator a burst with a start, a beat and
  delays. `OutInv` and `StoreInv` say that they are at the same cell (`CellOf`, `Cells`), and in which phases
  of the sequencer the simulator's burst may outlive the chip's: from the STOP to the PRECHARGE,
  where nobody takes what it shows.
* `LineInv` (`LinesCorrect`) adds the lanes. `Link` relates the lane that owns the port to the
  sequencer: while it writes, the half-word in each stage, on the pins and in the chip is the
  one that belongs there, counted back from the lane's `word` (`WriteLink`); while it reads,
  `Pos` counts the half-words that have left the chip, two more than the lane has taken (`ReadLink`, `Flows`).
  The lane stops a burst two clocks late, so the sequencer may send a beat or two beyond the line:
  these fall in the clocks in which `rdy` has reached the lane or `tail` is set. That the lane offers the right
  half-word is `LaneInv` of `LineStreamProofs`: the word register and the read port of the data RAM hold
  what the port asks for next, for any number of half-words in a word (`Prefetched`). A line lies in one row
  (`Straight`), since its size divides the page's and its base is a multiple of it.

The theorems assume `Clocks = {TRUE}`, the controller at 96 MHz (`HF=1`, its default): the ages of
`SdramChip` are in clocks of 96 MHz, and the two cores with cache lanes, cps3 and narc, define
`JTFRAME_SDRAM96` (`jtframe_board_sdram.v:141`). Otherwise they assume what
`LinesAssumption` and `PageAssumption` say of the parameters.

## 5. What is only model-checked

* Liveness, which is outside the prover's reach: `RequestServed`, `DrainServed`, `FlushAnswered`, `TransfersEnd`,
  `OverdueRefreshed`, `RequestsServed`, `WaitEnds` and `Starts`.
* The download at a byte every 8 clocks (`DebtPaid`, `ChipRules` and `LoadedAtRelease` at that pace), and that it ends (`Starts`).

## 6. Where code and documentation differ

Each is a run that TLC ends with a counterexample, and a finding in `PROJECT.json`.

* **Stale read** (`CacheStaleRead`, `jtframe_cache_req.sv:165`): a probe pending when a
  flush ends becomes a latched request although the same `rd` is taken as an edge;
  the read is performed twice and the second `ok`, with the first read's data, meets the
  next request.
* **Misread at 96 MHz** (`Sdram96Misread`, `jtframe_sdram64_bank.v:161`): in the clock in
  which `help` rises a bank that asked a clock earlier is still granted and puts a
  command on the pins that its state machine does not follow; another bank then skips its read
  and answers with the first one's data. It takes refreshes owed for most of the counter's range.
* **Wrong word** (`SlotsWrongWord`, `jtframe_ucache.v:69`): a client that drops its
  request and makes another before the first is answered, as the comment in
  `jtframe_romrq.v` advises, gets from the small cache and from the large one with
  direct tags the word of the first, and the small cache keeps it.

Other behaviours were met while modelling and cost no data or need circumstances no
core creates; no run is kept for them:

* A flush that rises in the clock of `ok` makes the front end latch the level of the
  request just answered, which is then served twice (`jtframe_cache_req.sv:178`).
* Requests latched while a flush is pending are served before it, one after the
  other, and can keep it out as long as they come (`jtframe_cache_ctrl.sv:623`): `draining ~> ~draining`
  fails, and `DrainServed` says what is left of it.
* A RAM slot counts as erased when the selector takes its last write. A client whose `cs` rose while that write
  is still in the bank would have its edge lost and be answered by the end of the erasure
  (`jtframe_ram_rq.v:76`, `:100`); the reset of a CPU takes longer than that (`MayAsk`).
* Pending flush sources are picked by fixed priority: two that flush all the time
  starve a third (`jtframe_cache_mux_flush.v:54`). So do three lanes on the arbiter.
* Under the burst controller `help` does not force a refresh: two lanes that miss
  back to back leave one idle clock where five are needed (`jtframe_burst_sdram.v:100`).
* A rise of `start` in the clock in which a refresh ends is overwritten, and the batch
  is lost (`jtframe_sdram64_rfsh.v:93`).
* The mode FSM looks at the delayed `rfshing_d` only, so that a change of `prog_en` may start it in
  the first clocks of a refresh (`jtframe_burst_mode.v:61`).
* `jtframe_cache.md:39-40` says the block accessed last is protected and the victim
  pseudo-random, while the victim is the way of a pointer that hits do not move
  (`jtframe_cache_tags.sv:134`).
* `jtframe_burst_sdram.md` says `dok` marks each returned beat and `dst` the first, while
  after a write burst both come a clock late (`jtframe_burst_ctrl.v:116`). Lanes do
  not depend on it: they take the first half-word by counting from `ack`, and
  `FilledRight` holds.

## 7. Not modelled, and why

* In the memory path: reset in the middle of a run; byte masks, packing and
  endianness (data, no control); the chip's initialisation (straight-line); the
  programming path and mode changes under the burst controller; two-chip modules;
  SHIFTED of the bank controller (the clock of the pins half a period later, on some
  boards; the models have it as the simulator does) and BAPRIO=0, which no instance sets; eight real lanes over one memory with the ok-hold logic: two complete
  lanes already exceed what TLC enumerates in the time a run has.
* In the simulator: the NVRAM dump, cartridges, the inputs' script (including its
  reset) and the video output.
* Clock-domain crossings, vendor PLLs and pads; CPU, video, sound and input helpers:
  data paths. The older controllers: superseded. Block RAM helpers: plain memories.
* In the slots: ROM slots that read a region which a RAM slot of the same bank writes; 8-bit RAMs and
  byte masks; FASTWR and AUTOTOGGLE.
* The game cores, one design per board, and the Go tools, sequential generators of text.

The repository's C++ is, but for the simulator, the drivers of MAME that are kept
in `src/cores/*/doc` as documentation of the boards; nothing there is compiled or
linked, and nothing of it is modelled.

## 8. Plan

Done: both memory paths, the download, the theorems of section 4. What a next step would add, in this order:

1. The ok-hold logic of `jtframe_cache_mux.v` in front of a lane reduced to `WordStore`,
   which keeps the instance small, and two such lanes over one memory with the flush
   sequencer, to state exactly which reads are stale between a source's flush and the
   invalidation of its targets.
2. The download at a byte every 8 clocks: a `TimeInv` for writes that wait in the second register,
   and `DebtInv` with the idle clocks that are left at that pace.
3. Lanes of the burst path beyond two, and the programming path under the burst
   controller.

Runs stay at a dozen: a property moves into the run whose instance already exercises it.
