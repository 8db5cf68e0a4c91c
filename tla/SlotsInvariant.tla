--------------------------- MODULE SlotsInvariant ---------------------------
(***************************************************************************)
(* The inductive invariant of the slots of a bank: what each register of a *)
(* cache or requester says about the access that the bank has in progress  *)
(* for it.                                                                 *)
(***************************************************************************)
EXTENDS Slots

Len   == setup.len
Mine(s) == s \in ctl.sel
IsRom(s) == Kind(s) # "ram"

LineData(l)  == [k \in 0 .. Len - 1 |-> Rom(l * Len + k)]
BlockData(n) == <<Rom(2 * n), Rom(2 * n + 1)>>

ClientTyped ==
  /\ client \in [Slots -> [cs : BOOLEAN, a : Nat, wr : BOOLEAN, v : Vals \cup {0}]]
  /\ steady \subseteq Slots
  /\ \A s \in Slots : client[s].wr => ~ IsRom(s)

-----------------------------------------------------------------------------
(* The selector and the bank: a request is kept until its acknowledge, and *)
(* the slot until its last data; nothing but a RAM writes.                 *)
BankInv ==
  /\ ctl \in [sel : SUBSET Slots, rd : BOOLEAN, wr : BOOLEAN, addr : Nat, din : Vals \cup {0}]
  /\ port \in [n : Nat, of : SUBSET Slots, a : Nat, wr : BOOLEAN]
  /\ \A s, t \in ctl.sel : s = t
  /\ ctl.sel = {} => port.n = 0 /\ ~ ctl.rd /\ ~ ctl.wr
  /\ ctl.sel # {} /\ port.n <= 1 => ctl.rd \/ ctl.wr
  /\ port.n <= 1 => ~ port.wr
  /\ port.n >= 2 => /\ ~ ctl.rd /\ ~ ctl.wr
                    /\ port.of = ctl.sel /\ port.a = ctl.addr
  /\ port.n <= IF Long THEN Len + 3 ELSE 2
  /\ \A s \in ctl.sel : IsRom(s) => ~ ctl.wr /\ ~ port.wr

-----------------------------------------------------------------------------
(* A large cache: a line is in order from the moment it is asked for.      *)
LineTyped(c) ==
  /\ c.valid \in [Index -> BOOLEAN] /\ c.tags \in [Index -> Nat]
  /\ c.data \in [Index -> [0 .. Len - 1 -> Nat]]
  /\ {c.fill, c.q} \subseteq [0 .. Len - 1 -> Nat]
  /\ {c.req_line, c.fill_line, c.read, c.beat, c.tag_q} \subseteq Nat

LineKept(c) ==
  \A x \in Index : c.valid[x] => IndexOf(c.tags[x]) = x /\ c.data[x] = LineData(c.tags[x])

LineFill(s, c) ==
  /\ ~ Mine(s) => ~ c.filling /\ ~ c.receiving
  /\ Mine(s) /\ ~ c.filling =>
       /\ c.pending /\ ~ c.receiving /\ port.n = 0
       /\ ctl.addr = Len * c.req_line
  /\ Mine(s) /\ c.filling =>
       /\ ctl.addr = Len * c.fill_line /\ ~ c.pending
       /\ port.n <= 4 => ~ c.receiving /\ c.beat = 0
       /\ port.n > 4  => /\ c.receiving /\ c.beat = port.n - 4
                         /\ \A k \in 0 .. port.n - 5 : c.fill[k] = Rom(c.fill_line * Len + k)

(* What was read for the client, and the line that has just come.          *)
LineRead(s, c) ==
  /\ s \in steady => c.read = client[s].a
  /\ c.valid_l => c.q = LineData(c.tag_q)
  /\ ~ setup.tag_ram /\ c.hit_l => c.valid_l /\ c.tag_q = LineOf(c.read)
  /\ c.fill_ok => ~ c.hit_l /\ c.fill = LineData(c.fill_line)

(* A client that waits still shows the line that it waits for.             *)
LineWait(s, c) ==
  setup.client[s] = "hold" /\ ~ setup.tag_ram =>
    /\ c.pending \/ c.filling =>
         /\ client[s].cs /\ ~ Hit(c, In(s))
         /\ LineOf(client[s].a) = IF c.filling THEN c.fill_line ELSE c.req_line
    /\ c.fill_ok => LineOf(client[s].a) = c.fill_line

LineInv(s, c) == LineTyped(c) /\ LineKept(c) /\ LineFill(s, c) /\ LineRead(s, c) /\ LineWait(s, c)

-----------------------------------------------------------------------------
(* A buffer: the half-words that have come so far.                         *)
Kept(b, e) == b.good[e] => b.data[e] = BlockData(b.block[e])
Half(b, n) == b.good[1] /\ b.block[1] = n /\ b.data[1][2] = Rom(2 * n)

BlockFill(s, b) ==
  /\ Kept(b, 2)
  /\ ~ b.dend => Kept(b, 1)
  /\ ~ Mine(s) => ~ b.dend /\ ~ b.double
  /\ Mine(s) =>
       /\ ~ b.cache_ok /\ ctl.addr = 2 * b.last
       /\ port.n <= 4 => ~ b.dend /\ ~ b.double
       /\ port.n = 5  => b.dend /\ ~ b.double /\ Half(b, b.last)
       /\ port.n = 6  => ~ b.dend /\ b.double /\ b.good[1] /\ b.block[1] = b.last
       /\ port.n = 7  => b.dend /\ b.double /\ Half(b, Neighbour(b.last))

BlockInv(s, b) == b.last \in Nat /\ BlockFill(s, b)

-----------------------------------------------------------------------------
(* A small cache whose client waits.                                       *)
WordTyped(u) ==
  /\ u.valid \in [Entries -> BOOLEAN] /\ u.amem \in [Entries -> Nat]
  /\ u.dmem \in [Entries -> Nat] /\ u.wr_indx \in Entries
  /\ u.ok \in BOOLEAN

WordKept(u) == \A e \in Entries : u.valid[e] => u.dmem[e] = Rom(u.amem[e])

WordFill(s, u) ==
  /\ Mine(s) /\ port.n <= 4 =>
       client[s].cs /\ client[s].a = ctl.addr /\ Match(u, In(s)) = {} /\ ~ Answered(s)
  /\ client[s].cs /\ u.ok /\ s \in steady =>
       Match(u, In(s)) # {} /\ u.dout = Rom(client[s].a)

WordInv(s, u) == WordTyped(u) /\ WordKept(u) /\ WordFill(s, u)

-----------------------------------------------------------------------------
(* A RAM: once it is erased a request goes from its client's rise to the   *)
(* requester, from there to the bank, and back to the client as an answer. *)
RamTyped(s, r) ==
  /\ r.addr \in Nat /\ r.erase_cnt \in Cells
  /\ {r.rnw, r.last_cs, r.req_l, r.data_ok, r.erased} \subseteq BOOLEAN
  /\ s \notin setup.erase => r.erased
  /\ client[s].cs => client[s].a \in Cells

(* The bank has a 0 to write for the erasure.                              *)
Wipes(s) == Mine(s) /\ ctl.wr => ctl.din = 0 /\ ctl.addr \in Cells /\ latest[ctl.addr] = 0

RamErases(s, r) ==
  /\ ~ r.erased /\ ~ client[s].cs /\ ~ r.last_cs /\ ~ r.data_ok /\ Wipes(s)
  /\ r.req_l => ~ r.rnw /\ r.addr = r.erase_cnt
  /\ Mine(s) /\ r.req_l => port.n = 0 /\ ctl.addr = r.erase_cnt
  /\ Mine(s) /\ ~ r.req_l => port.n >= 1 /\ (ctl.wr => r.erase_cnt = ctl.addr + 1)
  /\ Mine(s) /\ port.n <= 1 => ctl.wr

(* The last write of the erasure.                                          *)
RamEnds(s, r) ==
  /\ r.erased /\ ~ client[s].cs /\ ~ r.last_cs /\ ~ r.req_l /\ Wipes(s)
  /\ Mine(s) /\ port.n >= 1

RamIdle(s, r) == r.erased /\ ~ client[s].cs /\ ~ Mine(s) /\ ~ r.req_l

RamRises(s, r) ==
  /\ r.erased /\ client[s].cs /\ ~ Mine(s) /\ s \notin made
  /\ ~ r.last_cs /\ ~ r.req_l /\ ~ r.data_ok

RamWaits(s, r) ==
  /\ r.erased /\ client[s].cs /\ ~ Mine(s) /\ s \notin made
  /\ r.last_cs /\ r.req_l /\ ~ r.data_ok
  /\ r.addr = client[s].a /\ (r.rnw <=> ~ client[s].wr)

(* The bank has what the client asks for, and then its data.               *)
RamWorks(s, r) ==
  /\ r.erased /\ client[s].cs /\ Mine(s) /\ r.last_cs /\ ~ r.data_ok
  /\ port.n >= 1 => ~ r.req_l
  /\ ctl.addr = client[s].a
  /\ port.n <= 1 => /\ s \notin made
                    /\ ctl.wr <=> client[s].wr
                    /\ ctl.wr => ctl.din = client[s].v
  /\ port.n >= 2 => /\ port.wr <=> client[s].wr
                    /\ client[s].wr => s \in made
  /\ ~ client[s].wr /\ port.n >= 5 => r.dout \in seen[s]

RamTold(s, r) ==
  /\ r.erased /\ client[s].cs /\ ~ Mine(s) /\ r.last_cs /\ ~ r.req_l /\ r.data_ok
  /\ IF client[s].wr THEN s \in made ELSE r.dout \in seen[s]

RamInv(s, r) ==
  /\ RamTyped(s, r)
  /\ client[s].cs /\ ~ client[s].wr => latest[client[s].a] \in seen[s]
  /\ \/ RamErases(s, r) \/ RamEnds(s, r) \/ RamIdle(s, r) \/ RamRises(s, r)
     \/ RamWaits(s, r) \/ RamWorks(s, r) \/ RamTold(s, r)

(* The RAM holds what it should but where it is yet to be erased: at the   *)
(* cells that have not been counted and the one whose write is in progress. *)
Erases(s) == Kind(s) = "ram" /\ s \in setup.erase
Wiped(s, a) ==
  /\ unit[s].erased \/ a < unit[s].erase_cnt
  /\ ~ (Mine(s) /\ ctl.wr /\ ~ client[s].cs /\ ctl.addr = a)

MemInv ==
  /\ {mem, latest} \subseteq [Cells -> Vals \cup {0}]
  /\ EraseBsy => /\ latest = [a \in Cells |-> 0]
                 /\ \A s \in Slots : Kind(s) = "ram" => ~ client[s].cs
  /\ \A a \in Cells :
       mem[a] # latest[a] => \E s \in Slots : Erases(s) /\ ~ Wiped(s, a)

-----------------------------------------------------------------------------
SlotInv(s) ==
  CASE Kind(s) = "line"  -> LineInv(s, unit[s])
    [] Kind(s) = "block" -> BlockInv(s, unit[s])
    [] Kind(s) = "word" /\ setup.client[s] = "hold" -> WordInv(s, unit[s])
    [] Kind(s) = "ram"   -> RamInv(s, unit[s])
    [] Kind(s) = "none"  -> ~ client[s].cs
    [] OTHER             -> TRUE

IInv ==
  /\ setup \in Setups
  /\ ClientTyped /\ BankInv /\ MemInv
  /\ \A s \in Slots : SlotInv(s)
=============================================================================
