---------------------------- MODULE SlotsProofs ----------------------------
(***************************************************************************)
(* The theorems about the slots of a bank, for every number of slots,      *)
(* kind, size of a cache and address.                                      *)
(***************************************************************************)
EXTENDS SlotsInvariant, TLAPS

(* What a setup says of each slot. *)
LEMMA SetupTyped ==
  ASSUME setup \in Setups
  PROVE  /\ Len \in {2, 4} /\ {setup.tag_ram, setup.auto} \subseteq BOOLEAN
         /\ \A s \in Slots : /\ Kind(s) \in {"line", "block", "word", "ram", "none"}
                             /\ setup.client[s] \in {"hold", "toggle", "glitch"}
BY SetupsAssumption DEF Len, Kind

(* The half-words of an aligned burst come in the order of their addresses, *)
(* those of another one wrap around at its end.                            *)
LEMMA Aligned ==
  ASSUME NEW l \in Nat, NEW n \in {2, 4}, NEW k \in 0 .. n - 1
  PROVE  (n * l) - ((n * l) % n) + (((n * l) + k) % n) = l * n + k
<1>1. CASE n = 2
  BY <1>1
<1>2. CASE n = 4
  BY <1>2
<1> QED BY <1>1, <1>2

(* An address is that of its line and its place in it.                     *)
LEMMA LinePlace ==
  ASSUME NEW a \in Nat, NEW n \in {2, 4}
  PROVE  a % n \in 0 .. n - 1 /\ a \div n \in Nat /\ (a \div n) * n + (a % n) = a
<1>1. CASE n = 2
  BY <1>1
<1>2. CASE n = 4
  BY <1>2
<1> QED BY <1>1, <1>2

(* Every line has a place in the small tag memory. *)
LEMMA IndexTyped == ASSUME NEW l \in Nat PROVE IndexOf(l) \in Index
BY SetupsAssumption DEF IndexOf, Index

-----------------------------------------------------------------------------
(* The bank, as the slot that it works for sees it.                        *)
LEMMA BankView ==
  ASSUME BankInv, setup \in Setups, NEW s \in ctl.sel, IsRom(s)
  PROVE  /\ (Dst <=> port.n = 4) /\ (Rdy <=> port.n = Len + 3)
         /\ port.n \in 4 .. Len + 3 =>
              Din = Rom(ctl.addr - (ctl.addr % Len) + ((ctl.addr + (port.n - 4)) % Len))
<1>1. ~ port.wr /\ Len \in {2, 4}
  BY SetupTyped DEF BankInv
<1>2. Dst <=> port.n = 4
  BY <1>1 DEF Dst, Long
<1>3. Rdy <=> port.n = Len + 3
  BY <1>1 DEF Rdy, Long, Len
<1>4. ASSUME port.n \in 4 .. Len + 3
      PROVE  Din = Rom(ctl.addr - (ctl.addr % Len) + ((ctl.addr + (port.n - 4)) % Len))
  <2>1. port.of = ctl.sel /\ port.a = ctl.addr
    BY <1>1, <1>4 DEF BankInv
  <2>2. ~ \E t \in port.of : Kind(t) = "ram"
    BY <2>1 DEF BankInv, IsRom
  <2>3. Din = BurstWord(port.n - 4)
    BY <1>1, <1>4 DEF Din, Len
  <2> QED BY <2>1, <2>2, <2>3 DEF BurstWord, Len
<1> QED BY <1>2, <1>3, <1>4

(* What a slot asks the bank for is well formed. *)
LEMMA AddrTyped ==
  ASSUME IInv, NEW s \in Slots
  PROVE  Ask(s).addr \in Nat /\ Ask(s).rnw \in BOOLEAN /\ Ask(s).din \in Vals \cup {0}
<1>1. /\ Kind(s) \in {"line", "block", "word", "ram", "none"} /\ Len \in {2, 4}
      /\ client[s] \in [cs : BOOLEAN, a : Nat, wr : BOOLEAN, v : Vals \cup {0}]
      /\ ctl.din \in Vals \cup {0}
      /\ In(s).a = client[s].a /\ In(s).wr = client[s].wr
  BY SetupTyped DEF IInv, ClientTyped, BankInv, In
<1>2. SlotInv(s)
  BY DEF IInv
<1>3. CASE Kind(s) = "line"
  <2>1. LineTyped(unit[s])
    BY <1>2, <1>3 DEF SlotInv, LineInv
  <2>2. LineOf(unit[s].read) \in Nat /\ LineOf(client[s].a) \in Nat
    BY <1>1, <2>1, LinePlace DEF LineOf, LineTyped, Len
  <2>3. LineAddr(unit[s], In(s)) \in Nat
    BY <1>1, <2>1, <2>2 DEF LineAddr, Wanted, LineTyped, Len
  <2> QED BY <1>1, <1>3, <2>3 DEF Ask, Addr
<1>4. CASE Kind(s) = "block"
  <2>1. BlockAddr(In(s)) \in Nat
    BY <1>1 DEF BlockAddr, BlockOf
  <2> QED BY <1>1, <1>4, <2>1 DEF Ask, Addr
<1>5. CASE Kind(s) = "ram"
  <2>1. unit[s].rnw \in BOOLEAN /\ unit[s].addr \in Nat
    BY <1>2, <1>5 DEF SlotInv, RamInv, RamTyped
  <2>2. RamAddr(unit[s], In(s)) \in Nat /\ RamRnw(unit[s], In(s)) \in BOOLEAN
    BY <1>1, <2>1 DEF RamAddr, RamRnw
  <2> QED BY <1>1, <1>5, <2>2 DEF Ask, Addr
<1>6. CASE Kind(s) \in {"word", "none"}
  BY <1>1, <1>6 DEF Ask, Addr
<1> QED BY <1>1, <1>3, <1>4, <1>5, <1>6

(* How the selector and the bank move in a clock.                          *)
LEMMA Moves ==
  ASSUME IInv, Next
  PROVE  \E ack \in BOOLEAN :
           /\ ack => port.n = 1 /\ (ctl.rd \/ ctl.wr)
           /\ PortStep(ack)
           /\ \/ /\ ctl' = [ctl EXCEPT !.rd = @ /\ ~ ack, !.wr = @ /\ ~ ack]
                 /\ ctl.sel # {} /\ ~ Rdy
              \/ /\ ctl' = [ctl EXCEPT !.sel = {}, !.rd = @ /\ ~ ack, !.wr = @ /\ ~ ack]
                 /\ ctl.sel = {} \/ Rdy
              \/ /\ ctl.sel = {} \/ Rdy
                 /\ \E n \in Slots \ ctl.sel :
                      /\ Requests(n)
                      /\ ctl' = [sel |-> {n}, rd |-> Ask(n).rnw, wr |-> ~ Ask(n).rnw,
                                 addr |-> Ask(n).addr, din |-> Ask(n).din]
<1> DEFINE req  == {s \in Slots : Requests(s)}
           asks == [s \in Slots |-> Ask(s)]
<1>1. PICK ack \in BOOLEAN : /\ ack => MayAck
                             /\ PortStep(ack)
                             /\ ctl' = SlotStep(ctl, req, asks, ack, Rdy)
  BY DEF Next
<1>2. /\ ctl \in [sel : SUBSET Slots, rd : BOOLEAN, wr : BOOLEAN, addr : Nat, din : Vals \cup {0}]
      /\ Rdy \in BOOLEAN
  BY DEF IInv, BankInv, Rdy
<1>3. req \in SUBSET Slots
  OBVIOUS
<1> HIDE DEF req, asks
<1>4. \/ /\ ctl' = [ctl EXCEPT !.rd = @ /\ ~ ack, !.wr = @ /\ ~ ack]
         /\ ctl.sel # {} /\ ~ Rdy
      \/ /\ ctl' = [ctl EXCEPT !.sel = {}, !.rd = @ /\ ~ ack, !.wr = @ /\ ~ ack]
         /\ ctl.sel = {} \/ Rdy
      \/ /\ ctl.sel = {} \/ Rdy
         /\ \E n \in req \ ctl.sel :
              ctl' = [sel |-> {n}, rd |-> asks[n].rnw, wr |-> ~ asks[n].rnw,
                      addr |-> asks[n].addr, din |-> asks[n].din]
  <2>1. CASE ~ Accepts(ctl, Rdy)
    BY <1>1, <2>1 DEF SlotStep, Accepts
  <2>2. CASE Accepts(ctl, Rdy) /\ ActHot(ctl, req) = {}
    BY <1>1, <2>2 DEF SlotStep, Accepts
  <2>3. CASE Accepts(ctl, Rdy) /\ ActHot(ctl, req) # {}
    <3> DEFINE n == CHOOSE n \in ActHot(ctl, req) : TRUE
    <3>1. n \in req \ ctl.sel
      BY <2>3 DEF ActHot, Active
    <3>2. ctl' = [sel |-> {n}, rd |-> asks[n].rnw, wr |-> ~ asks[n].rnw,
                  addr |-> asks[n].addr, din |-> asks[n].din]
      BY <1>1, <2>3 DEF SlotStep
    <3> QED BY <2>3, <3>1, <3>2 DEF Accepts
  <2> QED BY <2>1, <2>2, <2>3
<1>5. ASSUME NEW n \in req \ ctl.sel
      PROVE  n \in Slots \ ctl.sel /\ Requests(n) /\ asks[n] = Ask(n)
  BY DEF req, asks
<1> QED BY <1>1, <1>4, <1>5 DEF MayAck

(* Where the port's count goes.                                            *)
LEMMA Counts ==
  ASSUME IInv, NEW ack \in BOOLEAN, ack => port.n = 1, PortStep(ack)
  PROVE  /\ port' \in [n : Nat, of : SUBSET Slots, a : Nat, wr : BOOLEAN]
         /\ ack => port' = [n |-> 2, of |-> ctl.sel, a |-> ctl.addr, wr |-> ctl.wr]
         /\ Rdy => port' = PortIdle
         /\ ~ ack /\ ~ Rdy => /\ port'.of = port.of /\ port'.a = port.a /\ port'.wr = port.wr
                              /\ port.n >= 2 => port'.n = port.n + 1
                              /\ port.n = 1 => port'.n = 1
                              /\ port.n = 0 => port'.n = IF ctl.rd \/ ctl.wr THEN 1 ELSE 0
<1>1. /\ port \in [n : Nat, of : SUBSET Slots, a : Nat, wr : BOOLEAN]
      /\ ctl \in [sel : SUBSET Slots, rd : BOOLEAN, wr : BOOLEAN, addr : Nat, din : Vals \cup {0}]
      /\ setup.len \in {2, 4}
  BY SetupTyped DEF IInv, BankInv, Len
<1>2. Rdy => port.n >= 2 /\ ~ ack
  BY <1>1 DEF Rdy
<1>3. CASE ack
  BY <1>1, <1>2, <1>3 DEF PortStep
<1>4. CASE Rdy
  BY <1>1, <1>2, <1>4 DEF PortStep, PortIdle
<1>5. CASE ~ ack /\ ~ Rdy /\ (port.n >= 2 \/ (port.n = 0 /\ (ctl.rd \/ ctl.wr)))
  <2>1. port' = [port EXCEPT !.n = port.n + 1]
    BY <1>5 DEF PortStep
  <2> QED BY <1>1, <1>5, <2>1
<1>6. CASE ~ ack /\ ~ Rdy /\ ~ (port.n >= 2 \/ (port.n = 0 /\ (ctl.rd \/ ctl.wr)))
  <2>1. port' = port
    BY <1>6 DEF PortStep
  <2> QED BY <1>1, <1>6, <2>1
<1> QED BY <1>3, <1>4, <1>5, <1>6

(* The bank never has work without a slot that it is for, nor a slot       *)
(* without a request or work in progress.                                  *)
LEMMA BankStep == IInv /\ Next => BankInv'
<1> SUFFICES ASSUME IInv, Next PROVE BankInv'
  OBVIOUS
<1>1. PICK ack \in BOOLEAN :
        /\ ack => port.n = 1 /\ (ctl.rd \/ ctl.wr)
        /\ PortStep(ack)
        /\ \/ /\ ctl' = [ctl EXCEPT !.rd = @ /\ ~ ack, !.wr = @ /\ ~ ack]
              /\ ctl.sel # {} /\ ~ Rdy
           \/ /\ ctl' = [ctl EXCEPT !.sel = {}, !.rd = @ /\ ~ ack, !.wr = @ /\ ~ ack]
              /\ ctl.sel = {} \/ Rdy
           \/ /\ ctl.sel = {} \/ Rdy
              /\ \E n \in Slots \ ctl.sel :
                   /\ Requests(n)
                   /\ ctl' = [sel |-> {n}, rd |-> Ask(n).rnw, wr |-> ~ Ask(n).rnw,
                              addr |-> Ask(n).addr, din |-> Ask(n).din]
  BY Moves
<1>2. /\ port' \in [n : Nat, of : SUBSET Slots, a : Nat, wr : BOOLEAN]
      /\ ack => port' = [n |-> 2, of |-> ctl.sel, a |-> ctl.addr, wr |-> ctl.wr]
      /\ Rdy => port' = PortIdle
      /\ ~ ack /\ ~ Rdy => /\ port'.of = port.of /\ port'.a = port.a /\ port'.wr = port.wr
                           /\ port.n >= 2 => port'.n = port.n + 1
                           /\ port.n = 1 => port'.n = 1
                           /\ port.n = 0 => port'.n = IF ctl.rd \/ ctl.wr THEN 1 ELSE 0
  BY <1>1, Counts
<1>3. BankInv /\ setup' = setup /\ Len \in {2, 4}
  BY SetupTyped DEF IInv, Next
<1>4. Rdy => port.n >= 2 /\ ~ ack
  BY <1>1, <1>3 DEF Rdy, Len
<1>5. CASE ctl' = [ctl EXCEPT !.rd = @ /\ ~ ack, !.wr = @ /\ ~ ack] /\ ctl.sel # {} /\ ~ Rdy
  <2>1. /\ ctl'.sel = ctl.sel /\ ctl'.addr = ctl.addr
        /\ ctl'.rd = (ctl.rd /\ ~ ack) /\ ctl'.wr = (ctl.wr /\ ~ ack)
        /\ ctl' \in [sel : SUBSET Slots, rd : BOOLEAN, wr : BOOLEAN, addr : Nat, din : Vals \cup {0}]
    BY <1>3, <1>5 DEF BankInv
  <2>2. port.n >= 2 => port.n + 1 <= IF Long THEN Len + 3 ELSE 2
    BY <1>3, <1>5 DEF BankInv, Rdy, Len, Long
  <2>3. CASE ack
    BY <1>1, <1>2, <1>3, <1>5, <2>1, <2>3 DEF BankInv, IsRom, Kind, Len, Long
  <2>4. CASE ~ ack
    BY <1>2, <1>3, <1>5, <2>1, <2>2, <2>4 DEF BankInv, IsRom, Kind, Len, Long
  <2> QED BY <2>3, <2>4
<1>6. CASE ctl' = [ctl EXCEPT !.sel = {}, !.rd = @ /\ ~ ack, !.wr = @ /\ ~ ack]
           /\ (ctl.sel = {} \/ Rdy)
  <2>1. /\ ctl'.sel = {}
        /\ ctl'.rd = (ctl.rd /\ ~ ack) /\ ctl'.wr = (ctl.wr /\ ~ ack)
        /\ ctl' \in [sel : SUBSET Slots, rd : BOOLEAN, wr : BOOLEAN, addr : Nat, din : Vals \cup {0}]
    BY <1>3, <1>6 DEF BankInv
  <2> QED BY <1>1, <1>2, <1>3, <1>4, <1>6, <2>1 DEF BankInv, PortIdle, Len, Long
<1>7. ASSUME ctl.sel = {} \/ Rdy, NEW n \in Slots \ ctl.sel,
             ctl' = [sel |-> {n}, rd |-> Ask(n).rnw, wr |-> ~ Ask(n).rnw,
                     addr |-> Ask(n).addr, din |-> Ask(n).din]
      PROVE  BankInv'
  <2>1. Ask(n).addr \in Nat /\ Ask(n).rnw \in BOOLEAN /\ Ask(n).din \in Vals \cup {0}
    BY AddrTyped
  <2>2. IsRom(n) => Ask(n).rnw
    BY DEF Ask, IsRom
  <2>3. port'.n = 0 /\ ~ port'.wr
    BY <1>1, <1>2, <1>3, <1>4, <1>7 DEF BankInv, PortIdle
  <2>4. /\ ctl'.sel = {n} /\ ctl'.rd = Ask(n).rnw /\ ctl'.wr = ~ Ask(n).rnw
        /\ ctl' \in [sel : SUBSET Slots, rd : BOOLEAN, wr : BOOLEAN, addr : Nat, din : Vals \cup {0}]
    BY <1>7, <2>1
  <2>5. IsRom(n)' => IsRom(n)
    BY <1>3 DEF IsRom, Kind
  <2> QED BY <1>2, <1>3, <2>1, <2>2, <2>3, <2>4, <2>5 DEF BankInv, Len, Long
<1> QED BY <1>1, <1>5, <1>6, <1>7

(* A slot keeps the bank until its last data and then loses it for a clock; *)
(* it gets it for what it asks for in the clock before.                    *)
LEMMA Turns ==
  ASSUME IInv, Next, NEW s \in Slots
  PROVE  /\ s \in ctl.sel /\ ~ Rdy =>
              /\ s \in ctl'.sel /\ ctl'.addr = ctl.addr
              /\ port.n = 0 => port'.n = 1
              /\ port.n = 1 => port'.n \in {1, 2}
              /\ port.n >= 2 => port'.n = port.n + 1
         /\ s \in ctl.sel /\ Rdy => s \notin ctl'.sel
         /\ s \notin ctl.sel /\ s \in ctl'.sel =>
              /\ Requests(s) /\ ctl'.addr = Addr(s) /\ port'.n = 0
<1>1. PICK ack \in BOOLEAN :
        /\ ack => port.n = 1 /\ (ctl.rd \/ ctl.wr)
        /\ PortStep(ack)
        /\ \/ /\ ctl' = [ctl EXCEPT !.rd = @ /\ ~ ack, !.wr = @ /\ ~ ack]
              /\ ctl.sel # {} /\ ~ Rdy
           \/ /\ ctl' = [ctl EXCEPT !.sel = {}, !.rd = @ /\ ~ ack, !.wr = @ /\ ~ ack]
              /\ ctl.sel = {} \/ Rdy
           \/ /\ ctl.sel = {} \/ Rdy
              /\ \E n \in Slots \ ctl.sel :
                   /\ Requests(n)
                   /\ ctl' = [sel |-> {n}, rd |-> Ask(n).rnw, wr |-> ~ Ask(n).rnw,
                              addr |-> Ask(n).addr, din |-> Ask(n).din]
  BY Moves
<1>2. /\ ack => port' = [n |-> 2, of |-> ctl.sel, a |-> ctl.addr, wr |-> ctl.wr]
      /\ Rdy => port' = PortIdle
      /\ ~ ack /\ ~ Rdy => /\ port.n >= 2 => port'.n = port.n + 1
                           /\ port.n = 1 => port'.n = 1
                           /\ port.n = 0 => port'.n = IF ctl.rd \/ ctl.wr THEN 1 ELSE 0
  BY <1>1, Counts
<1>3. BankInv
  BY DEF IInv
<1>4. CASE ctl' = [ctl EXCEPT !.rd = @ /\ ~ ack, !.wr = @ /\ ~ ack] /\ ctl.sel # {} /\ ~ Rdy
  <2>1. ctl'.sel = ctl.sel /\ ctl'.addr = ctl.addr
    BY <1>3, <1>4 DEF BankInv
  <2> QED BY <1>1, <1>2, <1>3, <1>4, <2>1 DEF BankInv
<1>5. CASE ctl' = [ctl EXCEPT !.sel = {}, !.rd = @ /\ ~ ack, !.wr = @ /\ ~ ack]
           /\ (ctl.sel = {} \/ Rdy)
  <2>1. ctl'.sel = {}
    BY <1>3, <1>5 DEF BankInv
  <2> QED BY <1>5, <2>1
<1>6. ASSUME ctl.sel = {} \/ Rdy, NEW n \in Slots \ ctl.sel, Requests(n),
             ctl' = [sel |-> {n}, rd |-> Ask(n).rnw, wr |-> ~ Ask(n).rnw,
                     addr |-> Ask(n).addr, din |-> Ask(n).din]
      PROVE  /\ s \in ctl.sel => Rdy /\ s \notin ctl'.sel
             /\ s \in ctl'.sel => Requests(s) /\ ctl'.addr = Addr(s) /\ port'.n = 0
  <2>1. port'.n = 0
    BY <1>1, <1>2, <1>3, <1>6 DEF BankInv, PortIdle
  <2> QED BY <1>6, <2>1 DEF Ask
<1> QED BY <1>1, <1>4, <1>5, <1>6

(* What a client may show next.                                            *)
LEMMA ClientsTyped == IInv /\ Next => ClientTyped'
<1> SUFFICES ASSUME IInv, Next PROVE ClientTyped'
  OBVIOUS
<1>1. ClientsStep
  BY DEF Next
<1>2. ASSUME NEW t \in Slots
      PROVE  client'[t] \in [cs : BOOLEAN, a : Nat, wr : BOOLEAN, v : Vals \cup {0}]
  <2>1. client[t] \in [cs : BOOLEAN, a : Nat, wr : BOOLEAN, v : Vals \cup {0}]
    BY DEF IInv, ClientTyped
  <2>2. [client[t] EXCEPT !.cs = FALSE] \in [cs : BOOLEAN, a : Nat, wr : BOOLEAN, v : Vals \cup {0}]
    BY <2>1
  <2>3. Asked(t) \subseteq [cs : BOOLEAN, a : Nat, wr : BOOLEAN, v : Vals \cup {0}]
    <3>1. Cells \subseteq Nat
      BY SetupsAssumption DEF Cells
    <3> QED BY <3>1, SetupsAssumption DEF Asked
  <2>4. client'[t] \in NextClient(t)
    BY <1>1 DEF ClientsStep
  <2>5. \/ client'[t] = client[t] \/ client'[t] = [client[t] EXCEPT !.cs = FALSE]
        \/ client'[t] \in Asked(t)
    BY <2>4 DEF NextClient
  <2> QED BY <2>1, <2>2, <2>3, <2>5
<1>3. client' \in [Slots -> [cs : BOOLEAN, a : Nat, wr : BOOLEAN, v : Vals \cup {0}]]
  <2>1. DOMAIN client' = Slots /\ client' = [t \in Slots |-> client'[t]]
    BY <1>1 DEF ClientsStep
  <2> QED BY <1>2, <2>1
<1>4. steady' \subseteq Slots
  BY <1>1 DEF ClientsStep
<1>5. ASSUME NEW t \in Slots, client'[t].wr PROVE ~ IsRom(t)'
  <2>1. client[t] \in [cs : BOOLEAN, a : Nat, wr : BOOLEAN, v : Vals \cup {0}]
    BY DEF IInv, ClientTyped
  <2>2. [client[t] EXCEPT !.cs = FALSE].wr = client[t].wr
    BY <2>1
  <2>3. client'[t] \in NextClient(t)
    BY <1>1 DEF ClientsStep
  <2>4. \/ client'[t] = client[t] \/ client'[t] = [client[t] EXCEPT !.cs = FALSE]
        \/ client'[t] \in Asked(t)
    BY <2>3 DEF NextClient
  <2>5. client'[t] \in Asked(t) => Kind(t) = "ram"
    BY <1>5 DEF Asked
  <2>6. client[t].wr => Kind(t) = "ram"
    BY DEF IInv, ClientTyped, IsRom
  <2>7. Kind(t) = "ram"
    BY <1>5, <2>2, <2>4, <2>5, <2>6
  <2> QED BY <2>7 DEF Next, IsRom, Kind
<1> QED BY <1>3, <1>4, <1>5 DEF ClientTyped

(* What a client that keeps its manners does while it waits. *)
LEMMA Clients ==
  ASSUME IInv, Next, NEW s \in Slots
  PROVE  /\ setup' = setup /\ unit'[s] = UnitStep(s)
         /\ s \in steady' => client'[s] = client[s]
         /\ setup.client[s] = "hold" /\ IsRom(s) /\ client[s].cs /\ ~ Answered(s) =>
              client'[s] = client[s]
<1>1. ClientsStep /\ setup' = setup /\ unit'[s] = UnitStep(s)
  BY DEF Next
<1>2. s \in steady' => client'[s] = client[s]
  BY <1>1 DEF ClientsStep
<1>3. client'[s] \in NextClient(s)
  BY <1>1 DEF ClientsStep
<1>4. ASSUME setup.client[s] = "hold", IsRom(s), client[s].cs, ~ Answered(s)
      PROVE  client'[s] = client[s]
  BY <1>3, <1>4 DEF NextClient, MayAsk, MayDrop, MayMove, IsRom
<1> QED BY <1>1, <1>2, <1>4

-----------------------------------------------------------------------------
(* The other block of a burst of four is a block. *)
LEMMA NeighbourTyped == ASSUME NEW l \in Nat PROVE Neighbour(l) \in Nat
<1>1. CASE l % 2 = 0
  BY <1>1 DEF Neighbour
<1>2. CASE l % 2 # 0
  <2>1. l - 1 \in Nat
    BY <1>2
  <2> QED BY <1>2, <2>1 DEF Neighbour
<1> QED BY <1>1, <1>2

(* The half-words of a block, and those of its neighbour after them.       *)
LEMMA BlockBurst ==
  ASSUME NEW l \in Nat
  PROVE  /\ \A n \in {2, 4} : /\ (2 * l) - ((2 * l) % n) + ((2 * l) % n) = 2 * l
                              /\ (2 * l) - ((2 * l) % n) + ((2 * l + 1) % n) = 2 * l + 1
         /\ Neighbour(l) \in Nat
         /\ (2 * l) - ((2 * l) % 4) + ((2 * l + 2) % 4) = 2 * Neighbour(l)
         /\ (2 * l) - ((2 * l) % 4) + ((2 * l + 3) % 4) = 2 * Neighbour(l) + 1
<1>1. \A n \in {2, 4} : /\ (2 * l) - ((2 * l) % n) + ((2 * l) % n) = 2 * l
                        /\ (2 * l) - ((2 * l) % n) + ((2 * l + 1) % n) = 2 * l + 1
  <2>1. /\ (2 * l) - ((2 * l) % 2) + ((2 * l) % 2) = 2 * l
        /\ (2 * l) - ((2 * l) % 2) + ((2 * l + 1) % 2) = 2 * l + 1
    OBVIOUS
  <2>2. /\ (2 * l) - ((2 * l) % 4) + ((2 * l) % 4) = 2 * l
        /\ (2 * l) - ((2 * l) % 4) + ((2 * l + 1) % 4) = 2 * l + 1
    OBVIOUS
  <2> QED BY <2>1, <2>2
<1>2. CASE l % 2 = 0
  BY <1>1, <1>2 DEF Neighbour
<1>3. CASE l % 2 # 0
  BY <1>1, <1>3 DEF Neighbour
<1> QED BY <1>2, <1>3

(* What a buffer sees of the bank that works for it.                       *)
LEMMA BlockDin ==
  ASSUME IInv, NEW s \in ctl.sel, Kind(s) = "block"
  PROVE  LET b == unit[s] IN
         /\ (Dst <=> port.n = 4) /\ (Rdy <=> port.n = Len + 3)
         /\ port.n = 4 => Din = Rom(2 * b.last)
         /\ port.n = 5 => Din = Rom(2 * b.last + 1)
         /\ Len = 4 /\ port.n = 6 => Din = Rom(2 * Neighbour(b.last))
         /\ Len = 4 /\ port.n = 7 => Din = Rom(2 * Neighbour(b.last) + 1)
<1> DEFINE b == unit[s]
<1>1. BankInv /\ setup \in Setups /\ Len \in {2, 4} /\ s \in Slots /\ IsRom(s)
  BY SetupTyped DEF IInv, BankInv, IsRom
<1>2. SlotInv(s)
  BY <1>1 DEF IInv
<1>3. ctl.addr = 2 * b.last /\ b.last \in Nat
  BY <1>1, <1>2 DEF SlotInv, BlockInv, BlockFill, Mine
<1>4. /\ (Dst <=> port.n = 4) /\ (Rdy <=> port.n = Len + 3)
      /\ port.n \in 4 .. Len + 3 =>
           Din = Rom(ctl.addr - (ctl.addr % Len) + ((ctl.addr + (port.n - 4)) % Len))
  BY <1>1, BankView
<1> HIDE DEF b
<1>5. port.n = 4 => Din = Rom(2 * b.last)
  <2> SUFFICES ASSUME port.n = 4 PROVE Din = Rom(2 * b.last)
    OBVIOUS
  <2>1. Din = Rom((2 * b.last) - ((2 * b.last) % Len) + ((2 * b.last) % Len))
    BY <1>1, <1>3, <1>4
  <2> QED BY <1>1, <1>3, <2>1, BlockBurst
<1>6. port.n = 5 => Din = Rom(2 * b.last + 1)
  <2> SUFFICES ASSUME port.n = 5 PROVE Din = Rom(2 * b.last + 1)
    OBVIOUS
  <2>1. Din = Rom((2 * b.last) - ((2 * b.last) % Len) + ((2 * b.last + 1) % Len))
    BY <1>1, <1>3, <1>4
  <2> QED BY <1>1, <1>3, <2>1, BlockBurst
<1>7. Len = 4 /\ port.n = 6 => Din = Rom(2 * Neighbour(b.last))
  <2> SUFFICES ASSUME Len = 4, port.n = 6 PROVE Din = Rom(2 * Neighbour(b.last))
    OBVIOUS
  <2>1. Din = Rom((2 * b.last) - ((2 * b.last) % 4) + ((2 * b.last + 2) % 4))
    BY <1>3, <1>4
  <2> QED BY <1>3, <2>1, BlockBurst
<1>8. Len = 4 /\ port.n = 7 => Din = Rom(2 * Neighbour(b.last) + 1)
  <2> SUFFICES ASSUME Len = 4, port.n = 7 PROVE Din = Rom(2 * Neighbour(b.last) + 1)
    OBVIOUS
  <2>1. Din = Rom((2 * b.last) - ((2 * b.last) % 4) + ((2 * b.last + 3) % 4))
    BY <1>3, <1>4
  <2> QED BY <1>3, <2>1, BlockBurst
<1> QED BY <1>4, <1>5, <1>6, <1>7, <1>8 DEF b

(* A buffer never keeps anything but the blocks it names.                  *)
LEMMA BlockSlotStep ==
  ASSUME IInv, Next, NEW s \in Slots, Kind(s) = "block"
  PROVE  BlockInv(s, unit[s])'
<1> DEFINE b == unit[s]
           i == In(s)
           d == unit'[s]
           n == port.n
<1>1. /\ BankInv /\ setup \in Setups /\ Len \in {2, 4} /\ setup' = setup
      /\ b.last \in Nat /\ BlockFill(s, b) /\ n \in Nat
      /\ client[s] \in [cs : BOOLEAN, a : Nat, wr : BOOLEAN, v : Vals \cup {0}]
  <2>1. SlotInv(s)
    BY DEF IInv
  <2>2. BlockInv(s, b)
    BY <2>1 DEF SlotInv
  <2> QED BY <2>2, SetupTyped, Clients DEF IInv, BlockInv, ClientTyped, BankInv
<1>2. d = BlockStep(b, i)
  BY Clients DEF UnitStep
<1>0. /\ d.cache_ok = CacheOk(b, i)
      /\ d.dend = (~ LastOf(b, i) /\ (FirstOf(b, i) \/ b.dend))
      /\ d.double = IF ~ i.we THEN FALSE
                    ELSE IF LastOf(b, i) /\ Len = 4 THEN ~ b.double ELSE b.double
  BY <1>2 DEF BlockStep, Len
<1>3. /\ i.cs = client[s].cs /\ i.a = client[s].a /\ (i.we <=> s \in ctl.sel)
      /\ (i.dst <=> Dst) /\ (i.rdy <=> Rdy) /\ i.din = Din
  BY DEF In
<1>4. s \in ctl.sel =>
        /\ (Dst <=> n = 4) /\ (Rdy <=> n = Len + 3)
        /\ n = 4 => Din = Rom(2 * b.last)
        /\ n = 5 => Din = Rom(2 * b.last + 1)
        /\ Len = 4 /\ n = 6 => Din = Rom(2 * Neighbour(b.last))
        /\ Len = 4 /\ n = 7 => Din = Rom(2 * Neighbour(b.last) + 1)
  BY BlockDin
<1>5. /\ s \in ctl.sel /\ ~ Rdy =>
              /\ s \in ctl'.sel /\ ctl'.addr = ctl.addr
              /\ n = 0 => port'.n = 1
              /\ n = 1 => port'.n \in {1, 2}
              /\ n >= 2 => port'.n = n + 1
      /\ s \in ctl.sel /\ Rdy => s \notin ctl'.sel
      /\ s \notin ctl.sel /\ s \in ctl'.sel =>
           /\ BlockReq(b, i) /\ ctl'.addr = BlockAddr(i) /\ port'.n = 0
  BY Turns DEF Requests, Addr
<1>6. b.last \in Nat /\ Neighbour(b.last) \in Nat /\ 2 * b.last \in Nat
  <2>1. b.last \in Nat
    BY <1>1
  <2> HIDE DEF b
  <2>2. Neighbour(b.last) \in Nat
    BY <2>1, NeighbourTyped
  <2> QED BY <2>1, <2>2
<1>7. setup' = setup /\ Len' = Len
  BY <1>1 DEF Len
<1>8. d.last \in Nat
  <2>1. BlockOf(i.a) \in Nat
    BY <1>1, <1>3 DEF BlockOf
  <2> QED BY <1>1, <1>2, <2>1 DEF BlockStep
<1>9. CASE ~ i.we
  <2>1. ~ FirstOf(b, i) /\ ~ LastOf(b, i)
    BY <1>9 DEF FirstOf, LastOf
  <2>2. /\ d.good = b.good /\ d.block = b.block /\ d.data[1] = b.data[1] /\ d.data[2] = b.data[2]
        /\ d.last = IF BlockReq(b, i) THEN BlockOf(i.a) ELSE b.last
    BY <1>2, <2>1 DEF BlockStep
  <2>3. ~ b.dend /\ Kept(b, 1) /\ Kept(b, 2)
    BY <1>1, <1>3, <1>9 DEF BlockFill, Mine
  <2>4. ~ d.dend /\ ~ d.double
    BY <1>0, <1>9, <2>1, <2>3
  <2>5. Kept(unit[s], 1)' /\ Kept(unit[s], 2)'
    BY <2>2, <2>3 DEF Kept, BlockData, Rom
  <2>6. ASSUME s \in ctl'.sel
        PROVE  ~ d.cache_ok /\ ctl'.addr = 2 * d.last /\ port'.n = 0
    <3>1. BlockReq(b, i) /\ ctl'.addr = BlockAddr(i) /\ port'.n = 0
      BY <1>3, <1>5, <1>9, <2>6
    <3>2. ~ d.cache_ok
      BY <1>0, <1>9, <3>1 DEF CacheOk, BlockReq
    <3> QED BY <2>2, <3>1, <3>2 DEF BlockAddr
  <2> QED BY <1>8, <2>4, <2>5, <2>6 DEF BlockInv, BlockFill, Mine
<1>10. CASE i.we /\ n <= 3
  <2>1. ~ FirstOf(b, i) /\ ~ LastOf(b, i) /\ ~ Rdy
    BY <1>1, <1>3, <1>4, <1>10 DEF FirstOf, LastOf, BlockFill, Mine
  <2>2. /\ d.good = b.good /\ d.block = b.block /\ d.data[1] = b.data[1] /\ d.data[2] = b.data[2]
        /\ d.last = b.last
    BY <1>2, <1>10, <2>1 DEF BlockStep, BlockReq
  <2>3. ~ b.dend /\ ~ b.double /\ ~ b.cache_ok /\ Kept(b, 1) /\ Kept(b, 2) /\ ctl.addr = 2 * b.last
    BY <1>1, <1>3, <1>10 DEF BlockFill, Mine
  <2>4. ~ d.dend /\ ~ d.double /\ ~ d.cache_ok
    BY <1>0, <1>10, <2>1, <2>3 DEF CacheOk
  <2>5. Kept(unit[s], 1)' /\ Kept(unit[s], 2)'
    BY <2>2, <2>3 DEF Kept, BlockData, Rom
  <2>6. s \in ctl'.sel /\ ctl'.addr = ctl.addr /\ port'.n <= 4
    BY <1>1, <1>3, <1>5, <1>10, <2>1
  <2> QED BY <1>8, <2>2, <2>3, <2>4, <2>5, <2>6 DEF BlockInv, BlockFill, Mine
<1>11. CASE i.we /\ n = 4
  <2>1. FirstOf(b, i) /\ ~ LastOf(b, i) /\ ~ Rdy
    BY <1>1, <1>3, <1>4, <1>11 DEF FirstOf, LastOf, BlockFill, Mine
  <2>2. ~ b.dend /\ ~ b.double /\ ~ b.cache_ok /\ Kept(b, 1) /\ Kept(b, 2) /\ ctl.addr = 2 * b.last
    BY <1>1, <1>3, <1>11 DEF BlockFill, Mine
  <2>3. /\ d.good[1] /\ (d.good[2] <=> b.good[1]) /\ d.block = <<b.last, b.block[1]>>
        /\ d.data = <<<<b.data[1][1], Din>>, b.data[1]>> /\ d.last = b.last
    <3>1. d.good[1] /\ (d.good[2] <=> b.good[1])
      BY <1>2, <2>1 DEF BlockStep
    <3>2. d.block = <<b.last, b.block[1]>>
      BY <1>2, <2>1, <2>2 DEF BlockStep
    <3>3. d.data = <<<<b.data[1][1], Din>>, b.data[1]>>
      BY <1>2, <1>3, <2>1 DEF BlockStep
    <3>4. d.last = b.last
      BY <1>2, <1>11 DEF BlockStep, BlockReq
    <3> QED BY <3>1, <3>2, <3>3, <3>4
  <2>4. d.dend /\ ~ d.double /\ ~ d.cache_ok
    BY <1>0, <1>11, <2>1, <2>2 DEF CacheOk
  <2>5. Kept(unit[s], 2)'
    BY <2>2, <2>3 DEF Kept, BlockData, Rom
  <2>6. Half(unit[s], unit[s].last)'
    BY <1>3, <1>4, <1>11, <2>3 DEF Half, Rom
  <2>7. s \in ctl'.sel /\ ctl'.addr = ctl.addr /\ port'.n = 5
    BY <1>3, <1>5, <1>11, <2>1
  <2> QED BY <1>8, <2>2, <2>3, <2>4, <2>5, <2>6, <2>7 DEF BlockInv, BlockFill, Mine
<1>12. CASE i.we /\ n = 5
  <2>1. ~ FirstOf(b, i) /\ LastOf(b, i) /\ (Rdy <=> Len = 2)
    BY <1>1, <1>3, <1>4, <1>12 DEF FirstOf, LastOf, BlockFill, Mine
  <2>2. b.dend /\ ~ b.double /\ ~ b.cache_ok /\ Half(b, b.last) /\ Kept(b, 2) /\ ctl.addr = 2 * b.last
    BY <1>1, <1>3, <1>12 DEF BlockFill, Mine
  <2>3. /\ d.good = b.good /\ d.block = b.block
        /\ d.data = <<<<b.data[1][2], Din>>, b.data[2]>> /\ d.last = b.last
    BY <1>2, <1>3, <1>12, <2>1 DEF BlockStep, BlockReq
  <2>4. ~ d.dend /\ (d.double <=> Len = 4) /\ (Len = 4 => ~ d.cache_ok)
    BY <1>0, <1>12, <2>1, <2>2 DEF CacheOk, Len
  <2>5. Kept(unit[s], 1)' /\ Kept(unit[s], 2)'
    BY <1>3, <1>4, <1>12, <2>2, <2>3 DEF Kept, Half, BlockData, Rom
  <2>6. b.good[1] /\ b.block[1] = b.last
    BY <2>2 DEF Half
  <2>7. CASE Len = 2
    <3>1. s \notin ctl'.sel
      BY <1>3, <1>5, <1>12, <2>1, <2>7
    <3> QED BY <1>8, <2>4, <2>5, <2>7, <3>1 DEF BlockInv, BlockFill, Mine
  <2>8. CASE Len = 4
    <3>1. s \in ctl'.sel /\ ctl'.addr = ctl.addr /\ port'.n = 6
      BY <1>3, <1>5, <1>12, <2>1, <2>8
    <3> QED BY <1>8, <2>2, <2>3, <2>4, <2>5, <2>6, <2>8, <3>1 DEF BlockInv, BlockFill, Mine
  <2> QED BY <1>1, <2>7, <2>8
<1>13. CASE i.we /\ n = 6
  <2>0. Len = 4
    BY <1>1, <1>3, <1>13 DEF BankInv, Long
  <2>1. FirstOf(b, i) /\ ~ LastOf(b, i) /\ ~ Rdy
    BY <1>1, <1>3, <1>4, <1>13, <2>0 DEF FirstOf, LastOf, BlockFill, Mine
  <2>2. /\ ~ b.dend /\ b.double /\ ~ b.cache_ok /\ b.block[1] = b.last
        /\ Kept(b, 1) /\ Kept(b, 2) /\ ctl.addr = 2 * b.last
    BY <1>1, <1>3, <1>13 DEF BlockFill, Mine
  <2>3. /\ d.good[1] /\ (d.good[2] <=> b.good[1]) /\ d.block = <<Neighbour(b.last), b.block[1]>>
        /\ d.data = <<<<b.data[1][1], Din>>, b.data[1]>> /\ d.last = b.last
    <3>1. d.good[1] /\ (d.good[2] <=> b.good[1])
      BY <1>2, <2>1 DEF BlockStep
    <3>2. d.block = <<Neighbour(b.last), b.block[1]>>
      BY <1>2, <2>1, <2>2 DEF BlockStep
    <3>3. d.data = <<<<b.data[1][1], Din>>, b.data[1]>>
      BY <1>2, <1>3, <2>1 DEF BlockStep
    <3>4. d.last = b.last
      BY <1>2, <1>13 DEF BlockStep, BlockReq
    <3> QED BY <3>1, <3>2, <3>3, <3>4
  <2>4. d.dend /\ d.double /\ ~ d.cache_ok
    BY <1>0, <1>13, <2>1, <2>2 DEF CacheOk
  <2>5. Kept(unit[s], 2)'
    BY <2>2, <2>3 DEF Kept, BlockData, Rom
  <2>6. Half(unit[s], Neighbour(unit[s].last))'
    BY <1>3, <1>4, <1>13, <2>0, <2>3 DEF Half, Rom, Neighbour
  <2>7. s \in ctl'.sel /\ ctl'.addr = ctl.addr /\ port'.n = 7
    BY <1>3, <1>5, <1>13, <2>1
  <2> QED BY <1>8, <2>2, <2>3, <2>4, <2>5, <2>6, <2>7 DEF BlockInv, BlockFill, Mine
<1>14. CASE i.we /\ n = 7
  <2>0. Len = 4
    BY <1>1, <1>3, <1>14 DEF BankInv, Long
  <2>1. ~ FirstOf(b, i) /\ LastOf(b, i) /\ Rdy
    BY <1>1, <1>3, <1>4, <1>14, <2>0 DEF FirstOf, LastOf, BlockFill, Mine
  <2>2. b.dend /\ b.double /\ Half(b, Neighbour(b.last)) /\ Kept(b, 2)
    BY <1>1, <1>3, <1>14 DEF BlockFill, Mine
  <2>3. /\ d.good = b.good /\ d.block = b.block
        /\ d.data = <<<<b.data[1][2], Din>>, b.data[2]>> /\ d.last = b.last
    BY <1>2, <1>3, <1>14, <2>1 DEF BlockStep, BlockReq
  <2>4. ~ d.dend /\ ~ d.double
    BY <1>0, <1>14, <2>0, <2>1, <2>2
  <2>5. Kept(unit[s], 1)' /\ Kept(unit[s], 2)'
    BY <1>3, <1>4, <1>14, <2>0, <2>2, <2>3 DEF Kept, Half, BlockData, Rom
  <2>6. s \notin ctl'.sel
    BY <1>3, <1>5, <1>14, <2>1
  <2> QED BY <1>8, <2>4, <2>5, <2>6 DEF BlockInv, BlockFill, Mine
<1>15. i.we => n <= 7
  BY <1>1, <1>3 DEF BankInv, IsRom
<1> QED BY <1>1, <1>9, <1>10, <1>11, <1>12, <1>13, <1>14, <1>15

-----------------------------------------------------------------------------
(* A small cache whose client waits keeps words under their addresses.     *)
LEMMA WordSlotStep ==
  ASSUME IInv, Next, NEW s \in Slots, Kind(s) = "word", setup.client[s] = "hold"
  PROVE  WordInv(s, unit[s])'
<1> DEFINE u == unit[s]
           i == In(s)
           d == unit'[s]
           n == port.n
<1>1. /\ BankInv /\ setup \in Setups /\ Len \in {2, 4} /\ setup' = setup /\ IsRom(s)
      /\ WordTyped(u) /\ WordKept(u) /\ WordFill(s, u)
      /\ client[s] \in [cs : BOOLEAN, a : Nat, wr : BOOLEAN, v : Vals \cup {0}]
  <2>1. SlotInv(s)
    BY DEF IInv
  <2>2. WordInv(s, u)
    BY <2>1 DEF SlotInv
  <2> QED BY <2>2, SetupTyped, Clients DEF IInv, WordInv, ClientTyped, IsRom
<1>2. d = WordStep(u, i)
  BY Clients DEF UnitStep
<1>3. /\ (i.cs <=> client[s].cs) /\ i.a = client[s].a /\ (i.we <=> s \in ctl.sel)
      /\ (i.dst <=> Dst) /\ i.din = Din
      /\ In(s)'.a = client'[s].a
  BY DEF In
<1>4. Served(i) <=> s \in ctl.sel /\ n = 4
  BY <1>1, <1>3, BankView DEF Served
<1>5. Served(i) => client[s].cs /\ client[s].a = ctl.addr /\ Match(u, i) = {}
                   /\ Din = Rom(client[s].a)
  <2> SUFFICES ASSUME Served(i)
               PROVE  client[s].cs /\ client[s].a = ctl.addr /\ Match(u, i) = {}
                      /\ Din = Rom(client[s].a)
    OBVIOUS
  <2>1. client[s].cs /\ client[s].a = ctl.addr /\ Match(u, i) = {}
    BY <1>1, <1>4 DEF WordFill, Mine
  <2>2. Din = Rom(ctl.addr - (ctl.addr % Len) + ((ctl.addr + 0) % Len))
    BY <1>1, <1>4, BankView
  <2>3. ctl.addr - (ctl.addr % Len) + ((ctl.addr + 0) % Len) = ctl.addr
    <3>1. ctl.addr \in Nat
      BY <1>1, <2>1
    <3>2. CASE Len = 2
      BY <3>1, <3>2
    <3>3. CASE Len = 4
      BY <3>1, <3>3
    <3> QED BY <1>1, <3>2, <3>3
  <2> QED BY <2>1, <2>2, <2>3
<1>6. Keeps(u, i) <=> Served(i)
  BY <1>3, <1>5 DEF Keeps
<1>7. /\ d.valid = IF Served(i) THEN [u.valid EXCEPT ![u.wr_indx] = TRUE] ELSE u.valid
      /\ d.amem = IF Served(i) THEN [u.amem EXCEPT ![u.wr_indx] = i.a] ELSE u.amem
      /\ d.dmem = IF Served(i) THEN [u.dmem EXCEPT ![u.wr_indx] = Din] ELSE u.dmem
      /\ d.wr_indx = IF Served(i) THEN (u.wr_indx + 1) % Words ELSE u.wr_indx
  BY <1>2, <1>3, <1>6 DEF WordStep
<1>8. /\ d.ok = (i.cs /\ (Match(u, i) # {} \/ Served(i)))
      /\ i.cs /\ Match(u, i) # {} => d.dout = u.dmem[CHOOSE e \in Match(u, i) : TRUE]
      /\ i.cs /\ Match(u, i) = {} /\ Served(i) => d.dout = Din
  BY <1>2, <1>3 DEF WordStep
<1>9. WordTyped(unit[s])'
  <2>1. d.valid \in [Entries -> BOOLEAN] /\ d.amem \in [Entries -> Nat] /\ d.dmem \in [Entries -> Nat]
    BY <1>1, <1>3, <1>5, <1>7 DEF WordTyped, Rom
  <2>2. (u.wr_indx + 1) % Words \in Entries
    BY <1>1, SetupsAssumption DEF WordTyped, Entries
  <2>3. d.wr_indx \in Entries
    BY <1>1, <1>7, <2>2 DEF WordTyped
  <2> QED BY <1>8, <2>1, <2>3 DEF WordTyped
<1>10. WordKept(unit[s])'
  BY <1>1, <1>3, <1>5, <1>7 DEF WordKept, WordTyped, Rom
<1>11. client'[s] = client[s] => Match(unit[s], In(s))' =
         IF Served(i) THEN Match(u, i) \cup {u.wr_indx} ELSE Match(u, i)
  BY <1>1, <1>3, <1>7 DEF Match, WordTyped
<1>12. ASSUME s \in ctl'.sel, port'.n <= 4
       PROVE  /\ client'[s].cs /\ client'[s].a = ctl'.addr /\ Match(unit[s], In(s))' = {}
              /\ ~ d.ok
  <2>1. CASE s \in ctl.sel
    <3>1. ~ Rdy /\ ctl'.addr = ctl.addr /\ n <= 3
      BY <1>1, <1>12, <2>1, Turns DEF BankInv
    <3>2. client[s].cs /\ client[s].a = ctl.addr /\ Match(u, i) = {} /\ ~ Answered(s)
      BY <1>1, <2>1, <3>1 DEF WordFill, Mine, BankInv
    <3>3. client'[s] = client[s]
      BY <1>1, <3>2, Clients
    <3>4. ~ Served(i)
      BY <1>4, <3>1
    <3>5. ~ d.ok
      BY <1>8, <3>2, <3>4
    <3> QED BY <1>11, <3>1, <3>2, <3>3, <3>4, <3>5
  <2>2. CASE s \notin ctl.sel
    <3>1. WordReq(u, i) /\ ctl'.addr = client[s].a
      BY <1>12, <2>2, Turns DEF Requests, Addr
    <3>2. client[s].cs /\ Match(u, i) = {} /\ ~ Served(i)
      BY <1>3, <3>1 DEF WordReq
    <3>3. ~ Answered(s)
      BY <1>1, <3>2 DEF WordFill, Answered, Ok, Registered
    <3>4. client'[s] = client[s]
      BY <1>1, <3>2, <3>3, Clients
    <3> QED BY <1>8, <1>11, <3>1, <3>2, <3>4
  <2> QED BY <2>1, <2>2
<1>13. ASSUME client'[s].cs, d.ok, s \in steady'
       PROVE  Match(unit[s], In(s))' # {} /\ d.dout = Rom(client'[s].a)
  <2>1. client'[s] = client[s]
    BY <1>13, Clients
  <2>2. CASE Match(u, i) # {}
    <3> DEFINE e == CHOOSE e \in Match(u, i) : TRUE
    <3>1. e \in Match(u, i)
      BY <2>2
    <3>2. d.dout = u.dmem[e]
      BY <1>3, <1>8, <1>13, <2>1, <2>2
    <3>3. u.dmem[e] = Rom(client[s].a)
      BY <1>1, <1>3, <3>1 DEF Match, WordKept
    <3> QED BY <1>11, <2>1, <2>2, <3>2, <3>3
  <2>3. CASE Match(u, i) = {}
    BY <1>3, <1>5, <1>8, <1>11, <1>13, <2>1, <2>3
  <2> QED BY <2>2, <2>3
<1>14. WordFill(s, unit[s])'
  BY <1>1, <1>12, <1>13 DEF WordFill, Mine, Answered, Ok, Kind
<1> QED BY <1>9, <1>10, <1>14 DEF WordInv

-----------------------------------------------------------------------------
(* What a large cache does with the half-words of its burst.               *)
LEMMA LineFills ==
  ASSUME IInv, NEW s \in Slots, Kind(s) = "line"
  PROVE  LET c == unit[s]
             i == In(s)
         IN /\ Chosen(c, i) <=> Mine(s) /\ ~ c.filling
            /\ FillWrite(c, i) <=> Mine(s) /\ port.n >= 4
            /\ FillDone(c, i) <=> Mine(s) /\ port.n = Len + 3
            /\ FillWrite(c, i) => /\ c.filling /\ Beat(c) = port.n - 4 /\ Beat(c) \in 0 .. Len - 1
                                  /\ Din = Rom(c.fill_line * Len + Beat(c))
<1> DEFINE c == unit[s]
           i == In(s)
           n == port.n
<1>1. /\ BankInv /\ setup \in Setups /\ Len \in {2, 4} /\ IsRom(s) /\ n \in Nat
      /\ LineTyped(c) /\ LineFill(s, c)
  <2>1. SlotInv(s)
    BY DEF IInv
  <2>2. LineInv(s, c)
    BY <2>1 DEF SlotInv
  <2> QED BY <2>2, SetupTyped DEF IInv, LineInv, IsRom, BankInv
<1>2. (i.we <=> Mine(s)) /\ (i.dst <=> Dst) /\ (i.rdy <=> Rdy) /\ i.din = Din
  BY DEF In, Mine
<1>3. Mine(s) => (Dst <=> n = 4) /\ (Rdy <=> n = Len + 3) /\ n <= Len + 3
  BY <1>1, BankView DEF Mine, BankInv, Long
<1>4. Chosen(c, i) <=> Mine(s) /\ ~ c.filling
  BY <1>2 DEF Chosen
<1>5. FillWrite(c, i) <=> Mine(s) /\ n >= 4
  <2>1. CASE ~ Mine(s)
    BY <1>2, <2>1 DEF FillWrite
  <2>2. CASE Mine(s) /\ n <= 3
    BY <1>1, <1>2, <1>3, <2>2 DEF FillWrite, LineFill
  <2>3. CASE Mine(s) /\ n = 4
    BY <1>2, <1>3, <2>3 DEF FillWrite
  <2>4. CASE Mine(s) /\ n > 4
    BY <1>1, <1>2, <2>4 DEF FillWrite, LineFill
  <2> QED BY <1>1, <2>1, <2>2, <2>3, <2>4
<1>6. FillDone(c, i) <=> Mine(s) /\ n = Len + 3
  BY <1>1, <1>2, <1>3, <1>5 DEF FillDone
<1>7. ASSUME FillWrite(c, i)
      PROVE  /\ c.filling /\ Beat(c) = n - 4 /\ Beat(c) \in 0 .. Len - 1
             /\ Din = Rom(c.fill_line * Len + Beat(c))
  <2>1. Mine(s) /\ n \in 4 .. Len + 3
    BY <1>1, <1>3, <1>5, <1>7
  <2>2. c.filling
    BY <1>1, <2>1 DEF LineFill
  <2>3. c.beat = n - 4 /\ ctl.addr = Len * c.fill_line
    BY <1>1, <2>1, <2>2 DEF LineFill
  <2>4. Beat(c) = n - 4 /\ Beat(c) \in 0 .. Len - 1
    BY <1>1, <2>1, <2>2, <2>3 DEF Beat
  <2>5. Din = Rom(ctl.addr - (ctl.addr % Len) + ((ctl.addr + (n - 4)) % Len))
    BY <1>1, <2>1, BankView DEF Mine
  <2>6. (Len * c.fill_line) - ((Len * c.fill_line) % Len) + (((Len * c.fill_line) + (n - 4)) % Len)
          = c.fill_line * Len + (n - 4)
    <3>1. c.fill_line \in Nat /\ n - 4 \in 0 .. Len - 1
      BY <1>1, <2>1 DEF LineTyped
    <3> HIDE DEF c, n
    <3> QED BY <1>1, <3>1, Aligned
  <2> QED BY <2>2, <2>3, <2>4, <2>5, <2>6
<1> QED BY <1>4, <1>5, <1>6, <1>7

(* The marks of a fill in progress, after a clock.                         *)
LEMMA LineMarks ==
  ASSUME NEW c, NEW i
  PROVE  /\ LineStep(c, i).hit_l => Hit(c, i) /\ ~ c.filling
         /\ LineStep(c, i).fill_ok <=> FillDone(c, i)
         /\ LineStep(c, i).filling <=> (c.filling \/ i.we) /\ ~ FillDone(c, i)
         /\ FillWrite(c, i) => (LineStep(c, i).receiving <=> ~ i.rdy)
         /\ ~ FillWrite(c, i) => (LineStep(c, i).receiving <=> c.receiving)
         /\ LineStep(c, i).pending <=> (c.pending \/ LineReq(c, i)) /\ ~ Chosen(c, i)
BY DEF LineStep, Pending, Hit, LineReq, Chosen, FillDone, FillWrite

(* A large cache never keeps anything but its lines, and answers a client  *)
(* that waits with the line that it waits for.                             *)
LEMMA LineSlotStep ==
  ASSUME IInv, Next, NEW s \in Slots, Kind(s) = "line"
  PROVE  LineInv(s, unit[s])'
<1> DEFINE c == unit[s]
           i == In(s)
           d == unit'[s]
           n == port.n
           done == FillDone(c, i)
           w == IndexOf(c.fill_line)
<1>1. /\ BankInv /\ setup \in Setups /\ Len \in {2, 4} /\ setup' = setup /\ Len' = Len
      /\ IsRom(s) /\ n \in Nat /\ setup.tag_ram \in BOOLEAN
      /\ LineTyped(c) /\ LineKept(c) /\ LineFill(s, c) /\ LineRead(s, c) /\ LineWait(s, c)
      /\ client[s] \in [cs : BOOLEAN, a : Nat, wr : BOOLEAN, v : Vals \cup {0}]
  <2>1. SlotInv(s)
    BY DEF IInv
  <2>2. LineInv(s, c)
    BY <2>1 DEF SlotInv
  <2> QED BY <2>2, SetupTyped, Clients DEF IInv, LineInv, ClientTyped, IsRom, BankInv, Len
<1>2. d = LineStep(c, i)
  BY Clients DEF UnitStep
<1>3. /\ i.cs = client[s].cs /\ i.cs \in BOOLEAN /\ i.a = client[s].a /\ i.a \in Nat
      /\ (i.we <=> Mine(s)) /\ (i.rdy <=> Rdy) /\ i.din = Din
      /\ In(s)'.a = client'[s].a
  BY <1>1 DEF In, Mine
<1>4. /\ Chosen(c, i) <=> Mine(s) /\ ~ c.filling
      /\ FillWrite(c, i) <=> Mine(s) /\ n >= 4
      /\ done <=> Mine(s) /\ n = Len + 3
      /\ FillWrite(c, i) => /\ c.filling /\ Beat(c) = n - 4 /\ Beat(c) \in 0 .. Len - 1
                            /\ Din = Rom(c.fill_line * Len + Beat(c))
  BY LineFills
<1>5. /\ d.valid = IF done THEN [c.valid EXCEPT ![IndexOf(c.fill_line)] = TRUE] ELSE c.valid
      /\ d.tags = IF done THEN [c.tags EXCEPT ![IndexOf(c.fill_line)] = c.fill_line] ELSE c.tags
      /\ d.data = IF done THEN [c.data EXCEPT ![IndexOf(c.fill_line)] = NextFill(c, i)] ELSE c.data
      /\ d.q = c.data[IndexOf(LineOf(i.a))] /\ d.tag_q = c.tags[IndexOf(LineOf(i.a))]
      /\ d.valid_l = c.valid[IndexOf(LineOf(i.a))] /\ d.read = i.a /\ d.ok_l = i.cs
      /\ d.fill_line = IF Chosen(c, i) THEN c.req_line ELSE c.fill_line
      /\ d.beat = IF FillWrite(c, i) THEN (Beat(c) + 1) % 4
                  ELSE IF Chosen(c, i) THEN 0 ELSE c.beat
      /\ d.fill = NextFill(c, i)
      /\ d.req_line = IF LineReq(c, i) /\ ~ c.pending THEN Wanted(c, i) ELSE c.req_line
  BY <1>2 DEF LineStep
<1>6. /\ d.hit_l => Hit(c, i) /\ ~ c.filling
      /\ d.fill_ok <=> done
      /\ d.filling <=> (c.filling \/ Mine(s)) /\ ~ done
      /\ FillWrite(c, i) => (d.receiving <=> ~ Rdy)
      /\ ~ FillWrite(c, i) => (d.receiving <=> c.receiving)
      /\ d.pending <=> (c.pending \/ LineReq(c, i)) /\ ~ Chosen(c, i)
  BY <1>2, <1>3, LineMarks
<1>7. /\ LineOf(i.a) \in Nat /\ LineOf(c.read) \in Nat /\ Wanted(c, i) \in Nat
      /\ IndexOf(LineOf(i.a)) \in Index /\ IndexOf(c.fill_line) \in Index
  BY <1>1, <1>3, LinePlace, IndexTyped DEF LineOf, Wanted, LineTyped, Len
<1>8. /\ c.fill \in [0 .. Len - 1 -> Nat]
      /\ FillWrite(c, i) => NextFill(c, i) = [c.fill EXCEPT ![n - 4] = Rom(c.fill_line * Len + (n - 4))]
      /\ ~ FillWrite(c, i) => NextFill(c, i) = c.fill
      /\ NextFill(c, i) \in [0 .. Len - 1 -> Nat]
  <2>1. c.fill \in [0 .. Len - 1 -> Nat] /\ c.fill_line \in Nat
    BY <1>1 DEF LineTyped
  <2>2. FillWrite(c, i) => NextFill(c, i) = [c.fill EXCEPT ![n - 4] = Rom(c.fill_line * Len + (n - 4))]
    BY <1>3, <1>4 DEF NextFill
  <2>3. ~ FillWrite(c, i) => NextFill(c, i) = c.fill
    BY DEF NextFill
  <2>4. FillWrite(c, i) => n - 4 \in 0 .. Len - 1 /\ Rom(c.fill_line * Len + (n - 4)) \in Nat
    <3>1. FillWrite(c, i) => n - 4 \in 0 .. Len - 1
      BY <1>4
    <3>2. CASE Len = 2
      BY <2>1, <3>1, <3>2 DEF Rom
    <3>3. CASE Len = 4
      BY <2>1, <3>1, <3>3 DEF Rom
    <3> QED BY <1>1, <3>2, <3>3
  <2>5. NextFill(c, i) \in [0 .. Len - 1 -> Nat]
    BY <2>1, <2>2, <2>3, <2>4
  <2> QED BY <2>1, <2>2, <2>3, <2>5
<1>9. done => NextFill(c, i) = LineData(c.fill_line)
  <2> SUFFICES ASSUME done PROVE NextFill(c, i) = LineData(c.fill_line)
    OBVIOUS
  <2>1. Mine(s) /\ n = Len + 3 /\ FillWrite(c, i) /\ c.filling
    BY <1>1, <1>4
  <2>2. \A k \in 0 .. n - 5 : c.fill[k] = Rom(c.fill_line * Len + k)
    BY <1>1, <2>1 DEF LineFill
  <2>3. ASSUME NEW k \in 0 .. Len - 1
        PROVE  NextFill(c, i)[k] = Rom(c.fill_line * Len + k)
    <3>1. /\ NextFill(c, i) = [c.fill EXCEPT ![n - 4] = Rom(c.fill_line * Len + (n - 4))]
          /\ c.fill \in [0 .. Len - 1 -> Nat] /\ n = Len + 3 /\ Len \in {2, 4}
      BY <1>1, <1>8, <2>1
    <3>2. CASE k = n - 4
      BY <3>1, <3>2
    <3>3. CASE k # n - 4
      <4>1. k \in 0 .. n - 5
        BY <3>1, <3>3
      <4>2. c.fill[k] = Rom(c.fill_line * Len + k)
        BY <2>2, <4>1
      <4> QED BY <3>1, <3>3, <4>2
    <3> QED BY <3>2, <3>3
  <2> QED BY <1>8, <2>3 DEF LineData
<1>10. d.req_line \in Nat /\ d.fill_line \in Nat
  BY <1>1, <1>5, <1>7 DEF LineTyped
<1>11. LineTyped(unit[s])'
  <2>0. /\ c.valid \in [Index -> BOOLEAN] /\ c.tags \in [Index -> Nat] /\ c.fill_line \in Nat
        /\ c.data \in [Index -> [0 .. Len - 1 -> Nat]] /\ c.beat \in Nat
    BY <1>1 DEF LineTyped
  <2>1. d.valid \in [Index -> BOOLEAN] /\ d.tags \in [Index -> Nat]
    BY <1>5, <1>7, <2>0
  <2>2. d.data \in [Index -> [0 .. Len - 1 -> Nat]]
    BY <1>5, <1>7, <1>8, <2>0
  <2>3. d.q \in [0 .. Len - 1 -> Nat] /\ d.tag_q \in Nat
    BY <1>1, <1>5, <1>7 DEF LineTyped
  <2>4. d.beat \in Nat
    BY <1>1, <1>4, <1>5, <2>0
  <2>5. d.fill \in [0 .. Len - 1 -> Nat] /\ d.read \in Nat
    BY <1>3, <1>5, <1>8
  <2> QED BY <1>1, <1>10, <2>1, <2>2, <2>3, <2>4, <2>5 DEF LineTyped
<1>12. LineKept(unit[s])'
  <2>1. CASE done
    <3>1. /\ d.valid = [c.valid EXCEPT ![w] = TRUE] /\ d.tags = [c.tags EXCEPT ![w] = c.fill_line]
          /\ d.data = [c.data EXCEPT ![w] = LineData(c.fill_line)]
      BY <1>5, <1>9, <2>1
    <3>2. ASSUME NEW x \in Index, d.valid[x]
          PROVE  IndexOf(d.tags[x]) = x /\ d.data[x] = LineData(d.tags[x])
      <4>1. CASE x = w
        BY <1>1, <1>7, <3>1, <4>1 DEF LineTyped
      <4>2. CASE x # w
        BY <1>1, <1>7, <3>1, <3>2, <4>2 DEF LineTyped, LineKept
      <4> QED BY <4>1, <4>2
    <3> QED BY <1>1, <3>2 DEF LineKept, LineData, Rom
  <2>2. CASE ~ done
    BY <1>1, <1>5, <2>2 DEF LineKept, LineData, Rom
  <2> QED BY <2>1, <2>2
<1>13. LineFill(s, unit[s])'
  <2>1. CASE ~ Mine(s)
    <3>1. ~ c.filling /\ ~ c.receiving /\ ~ done /\ ~ FillWrite(c, i) /\ ~ Chosen(c, i)
      BY <1>1, <1>4, <2>1 DEF LineFill
    <3>2. ~ d.filling /\ ~ d.receiving
      BY <1>6, <2>1, <3>1
    <3>3. ASSUME s \in ctl'.sel
          PROVE  d.pending /\ port'.n = 0 /\ ctl'.addr = Len * d.req_line
      <4>1. LineReq(c, i) /\ ctl'.addr = LineAddr(c, i) /\ port'.n = 0
        BY <2>1, <3>3, Turns DEF Requests, Addr, Mine
      <4>2. d.pending
        BY <1>6, <3>1, <4>1
      <4>3. ctl'.addr = Len * d.req_line
        BY <1>5, <4>1 DEF LineAddr, Len
      <4> QED BY <4>1, <4>2, <4>3
    <3> QED BY <1>1, <3>2, <3>3 DEF LineFill, Mine
  <2>2. CASE Mine(s) /\ ~ c.filling
    <3>1. c.pending /\ ~ c.receiving /\ n = 0 /\ ctl.addr = Len * c.req_line
      BY <1>1, <2>2 DEF LineFill
    <3>2. ~ done /\ ~ FillWrite(c, i) /\ Chosen(c, i)
      BY <1>1, <1>4, <2>2, <3>1
    <3>3. /\ d.filling /\ ~ d.receiving /\ ~ d.pending
          /\ d.fill_line = c.req_line /\ d.beat = 0
      BY <1>5, <1>6, <2>2, <3>1, <3>2
    <3>4. ~ Rdy
      BY <1>1, <2>2, <3>1, BankView DEF Mine
    <3>5. ctl'.addr = ctl.addr /\ port'.n = 1
      BY <2>2, <3>1, <3>4, Turns DEF Mine
    <3>6. s \in ctl'.sel
      BY <2>2, <3>4, Turns DEF Mine
    <3> QED BY <1>1, <3>1, <3>3, <3>5, <3>6 DEF LineFill, Mine
  <2>3. CASE Mine(s) /\ c.filling
    <3>1. ctl.addr = Len * c.fill_line /\ ~ c.pending /\ ~ LineReq(c, i) /\ ~ Chosen(c, i)
      BY <1>1, <1>4, <2>3 DEF LineFill, LineReq
    <3>2. ~ d.pending /\ d.fill_line = c.fill_line
      BY <1>5, <1>6, <3>1
    <3>3. Rdy <=> n = Len + 3
      BY <1>1, <2>3, BankView DEF Mine
    <3>4. /\ ~ Rdy => /\ s \in ctl'.sel /\ ctl'.addr = ctl.addr
                      /\ n <= 3 => port'.n <= 4
                      /\ n >= 2 => port'.n = n + 1
          /\ Rdy => s \notin ctl'.sel
      BY <1>1, <2>3, Turns DEF Mine
    <3>5. CASE n <= 3
      <4>1. ~ FillWrite(c, i) /\ ~ done /\ ~ Rdy
        BY <1>1, <1>4, <3>3, <3>5
      <4>2. ~ c.receiving /\ c.beat = 0
        BY <1>1, <2>3, <3>5 DEF LineFill
      <4>3. d.filling /\ ~ d.receiving /\ d.beat = 0
        BY <1>5, <1>6, <2>3, <3>1, <4>1, <4>2
      <4>4. s \in ctl'.sel /\ ctl'.addr = Len * d.fill_line /\ port'.n <= 4
        BY <3>1, <3>2, <3>4, <3>5, <4>1
      <4>5. port'.n \in Nat
        BY BankStep DEF BankInv
      <4> QED BY <1>1, <3>2, <4>3, <4>4, <4>5 DEF LineFill, Mine
    <3>6. CASE n \in 4 .. Len + 2
      <4>1. FillWrite(c, i) /\ ~ done /\ ~ Rdy /\ Beat(c) = n - 4
        BY <1>1, <1>4, <2>3, <3>3, <3>6
      <4>2. d.filling /\ d.receiving /\ d.beat = n - 3
        BY <1>1, <1>5, <1>6, <2>3, <3>6, <4>1
      <4>3. s \in ctl'.sel /\ ctl'.addr = Len * d.fill_line /\ port'.n = n + 1
        BY <1>1, <3>1, <3>2, <3>4, <3>6, <4>1
      <4>4. ASSUME NEW k \in 0 .. n - 4
            PROVE  d.fill[k] = Rom(d.fill_line * Len + k)
        <5>1. d.fill = [c.fill EXCEPT ![n - 4] = Rom(c.fill_line * Len + (n - 4))]
          BY <1>5, <1>8, <4>1
        <5>2. k \in 0 .. Len - 1 /\ n - 4 \in 0 .. Len - 1
          BY <1>1, <3>6
        <5>3. CASE k = n - 4
          BY <1>8, <3>2, <5>1, <5>2, <5>3
        <5>4. CASE k # n - 4
          <6>1. k \in 0 .. n - 5 /\ n > 4
            BY <1>1, <3>6, <5>4
          <6>2. c.fill[k] = Rom(c.fill_line * Len + k)
            BY <1>1, <2>3, <6>1 DEF LineFill
          <6> QED BY <1>8, <3>2, <5>1, <5>2, <5>4, <6>2
        <5> QED BY <5>3, <5>4
      <4>5. port'.n - 5 = n - 4 /\ port'.n - 4 = n - 3
        BY <1>1, <4>3
      <4>6. \A k \in 0 .. port'.n - 5 : d.fill[k] = Rom(d.fill_line * Len + k)
        BY <4>4, <4>5
      <4>7. port'.n > 4
        BY <1>1, <3>6, <4>3
      <4> QED BY <1>1, <3>2, <4>2, <4>3, <4>5, <4>6, <4>7 DEF LineFill, Mine, Rom
    <3>7. CASE n = Len + 3
      <4>1. FillWrite(c, i) /\ done /\ Rdy
        BY <1>1, <1>4, <2>3, <3>3, <3>7
      <4>2. ~ d.filling /\ ~ d.receiving /\ s \notin ctl'.sel
        BY <1>6, <3>4, <4>1
      <4> QED BY <4>2 DEF LineFill, Mine
    <3>8. n <= Len + 3
      BY <1>1, <2>3 DEF BankInv, Mine, Long
    <3> QED BY <1>1, <3>5, <3>6, <3>7, <3>8
  <2> QED BY <2>1, <2>2, <2>3
<1>14. done => c.filling
  BY <1>1, <1>4
<1>15. LineRead(s, unit[s])'
  <2>1. s \in steady' => d.read = client'[s].a
    BY <1>3, <1>5, Clients
  <2>2. d.valid_l => d.q = LineData(d.tag_q)
    BY <1>1, <1>5, <1>7 DEF LineKept
  <2>3. ~ setup.tag_ram /\ d.hit_l => d.valid_l /\ d.tag_q = LineOf(d.read)
    BY <1>5, <1>6 DEF Hit
  <2>4. d.fill_ok => ~ d.hit_l /\ d.fill = LineData(d.fill_line)
    <3>1. done => ~ Chosen(c, i)
      BY <1>4, <1>14
    <3> QED BY <1>5, <1>6, <1>9, <1>14, <3>1
  <2> QED BY <1>1, <2>1, <2>2, <2>3, <2>4 DEF LineRead, LineData, LineOf, Rom
<1>16. LineWait(s, unit[s])'
  <2> SUFFICES ASSUME setup.client[s] = "hold", ~ setup.tag_ram
               PROVE  /\ d.pending \/ d.filling =>
                           /\ client'[s].cs /\ ~ Hit(unit[s], In(s))'
                           /\ LineOf(client'[s].a) = IF d.filling THEN d.fill_line ELSE d.req_line
                      /\ d.fill_ok => LineOf(client'[s].a) = d.fill_line
    BY <1>1 DEF LineWait, LineOf
  <2>1. client[s].cs /\ ~ Hit(c, i) => client'[s] = client[s]
    <3>1. ~ Hit(c, i) => ~ Ok(s)
      BY DEF Ok, DataOk
    <3> QED BY <1>1, <3>1, Clients DEF Answered
  <2>2. client'[s] = client[s] /\ ~ done /\ ~ Hit(c, i) => ~ Hit(unit[s], In(s))'
    BY <1>1, <1>3, <1>5 DEF Hit, LineOf
  <2>3. c.pending \/ c.filling =>
          /\ client[s].cs /\ ~ Hit(c, i)
          /\ LineOf(client[s].a) = IF c.filling THEN c.fill_line ELSE c.req_line
    BY <1>1 DEF LineWait
  <2>4. CASE c.filling
    <3>1. ~ d.pending /\ ~ Chosen(c, i) /\ d.fill_line = c.fill_line
      <4>1. Mine(s) /\ ~ c.pending
        BY <1>1, <2>4 DEF LineFill
      <4> QED BY <1>4, <1>5, <1>6, <2>4, <4>1 DEF LineReq
    <3>2. client'[s] = client[s] /\ LineOf(client[s].a) = c.fill_line /\ client[s].cs
      BY <2>1, <2>3, <2>4
    <3>3. CASE done
      BY <1>6, <3>1, <3>2, <3>3
    <3>4. CASE ~ done
      <4>1. ~ Hit(unit[s], In(s))' /\ d.filling /\ ~ d.fill_ok
        BY <1>6, <2>2, <2>3, <2>4, <3>2, <3>4
      <4> QED BY <3>1, <3>2, <4>1
    <3> QED BY <3>3, <3>4
  <2>5. CASE ~ c.filling /\ (c.pending \/ LineReq(c, i))
    <3>1. ~ done /\ ~ d.fill_ok
      BY <1>6, <1>14, <2>5
    <3>2. client[s].cs /\ ~ Hit(c, i)
      BY <1>3, <2>3, <2>5 DEF LineReq
    <3>3. d.req_line = LineOf(client[s].a)
      <4>1. CASE c.pending
        BY <1>5, <2>3, <2>5, <4>1
      <4>2. CASE ~ c.pending
        BY <1>3, <1>5, <2>5, <4>2 DEF Wanted
      <4> QED BY <4>1, <4>2
    <3>4. client'[s] = client[s] /\ ~ Hit(unit[s], In(s))'
      BY <2>1, <2>2, <3>1, <3>2
    <3>5. CASE Mine(s)
      <4>1. c.pending /\ Chosen(c, i) /\ d.fill_line = c.req_line /\ d.filling
        BY <1>1, <1>4, <1>5, <1>6, <2>5, <3>1, <3>5 DEF LineFill
      <4> QED BY <2>3, <2>5, <3>1, <3>2, <3>4, <4>1
    <3>6. CASE ~ Mine(s)
      <4>1. ~ d.filling
        BY <1>6, <2>5, <3>6
      <4> QED BY <3>1, <3>2, <3>3, <3>4, <4>1
    <3> QED BY <3>5, <3>6
  <2>6. CASE ~ c.filling /\ ~ c.pending /\ ~ LineReq(c, i)
    <3>1. ~ Mine(s) /\ ~ done
      BY <1>1, <1>14, <2>6 DEF LineFill
    <3>2. ~ d.pending /\ ~ d.filling /\ ~ d.fill_ok
      BY <1>6, <2>6, <3>1
    <3> QED BY <3>2
  <2> QED BY <2>4, <2>5, <2>6
<1> QED BY <1>11, <1>12, <1>13, <1>15, <1>16 DEF LineInv

-----------------------------------------------------------------------------
(* The requester of a RAM: how the bank moves for it.                      *)
LEMMA RamTurns ==
  ASSUME IInv, Next, NEW s \in Slots, Kind(s) = "ram"
  PROVE  /\ s \in ctl.sel /\ ~ Rdy =>
              /\ port'.n <= 1 => ctl'.wr = ctl.wr /\ ctl'.din = ctl.din
              /\ port.n = 1 /\ port'.n = 2 => port'.wr = ctl.wr
              /\ port.n >= 2 => port'.wr = port.wr
         /\ s \notin ctl.sel /\ s \in ctl'.sel =>
              ctl'.wr = ~ Ask(s).rnw /\ ctl'.din = Ask(s).din
<1>1. PICK ack \in BOOLEAN :
        /\ ack => port.n = 1 /\ (ctl.rd \/ ctl.wr)
        /\ PortStep(ack)
        /\ \/ /\ ctl' = [ctl EXCEPT !.rd = @ /\ ~ ack, !.wr = @ /\ ~ ack]
              /\ ctl.sel # {} /\ ~ Rdy
           \/ /\ ctl' = [ctl EXCEPT !.sel = {}, !.rd = @ /\ ~ ack, !.wr = @ /\ ~ ack]
              /\ ctl.sel = {} \/ Rdy
           \/ /\ ctl.sel = {} \/ Rdy
              /\ \E n \in Slots \ ctl.sel :
                   /\ Requests(n)
                   /\ ctl' = [sel |-> {n}, rd |-> Ask(n).rnw, wr |-> ~ Ask(n).rnw,
                              addr |-> Ask(n).addr, din |-> Ask(n).din]
  BY Moves
<1>2. /\ ack => port' = [n |-> 2, of |-> ctl.sel, a |-> ctl.addr, wr |-> ctl.wr]
      /\ Rdy => port' = PortIdle
      /\ ~ ack /\ ~ Rdy => /\ port'.wr = port.wr
                           /\ port.n >= 2 => port'.n = port.n + 1
                           /\ port.n = 1 => port'.n = 1
                           /\ port.n = 0 => port'.n = IF ctl.rd \/ ctl.wr THEN 1 ELSE 0
  BY <1>1, Counts
<1>3. BankInv /\ Len \in {2, 4} /\ (Rdy => port.n >= 2)
  BY SetupTyped DEF IInv, BankInv, Rdy, Len
<1>4. /\ ctl \in [sel : SUBSET Slots, rd : BOOLEAN, wr : BOOLEAN, addr : Nat, din : Vals \cup {0}]
      /\ port \in [n : Nat, of : SUBSET Slots, a : Nat, wr : BOOLEAN]
  BY <1>3 DEF BankInv
<1>5. ack <=> (port.n = 1 /\ port'.n = 2)
  BY <1>1, <1>2, <1>3, <1>4
<1>6. CASE ctl' = [ctl EXCEPT !.rd = @ /\ ~ ack, !.wr = @ /\ ~ ack] /\ ctl.sel # {} /\ ~ Rdy
  <2>1. ctl'.sel = ctl.sel /\ ctl'.wr = (ctl.wr /\ ~ ack) /\ ctl'.din = ctl.din
    BY <1>4, <1>6
  <2>2. port'.n <= 1 => ~ ack
    BY <1>2
  <2>3. port'.n <= 1 => ctl'.wr = ctl.wr /\ ctl'.din = ctl.din
    BY <1>4, <2>1, <2>2
  <2>4. /\ port.n = 1 /\ port'.n = 2 => port'.wr = ctl.wr
        /\ port.n >= 2 => port'.wr = port.wr
    BY <1>1, <1>2, <1>3, <1>5, <1>6
  <2> QED BY <1>6, <2>1, <2>3, <2>4
<1>7. CASE ctl' = [ctl EXCEPT !.sel = {}, !.rd = @ /\ ~ ack, !.wr = @ /\ ~ ack]
           /\ (ctl.sel = {} \/ Rdy)
  <2>1. ctl'.sel = {}
    BY <1>4, <1>7
  <2> QED BY <1>7, <2>1
<1>8. ASSUME ctl.sel = {} \/ Rdy, NEW n \in Slots \ ctl.sel, Requests(n),
             ctl' = [sel |-> {n}, rd |-> Ask(n).rnw, wr |-> ~ Ask(n).rnw,
                     addr |-> Ask(n).addr, din |-> Ask(n).din]
      PROVE  /\ s \in ctl.sel => Rdy
             /\ s \in ctl'.sel => ctl'.wr = ~ Ask(s).rnw /\ ctl'.din = Ask(s).din
  BY <1>8
<1> QED BY <1>1, <1>6, <1>7, <1>8

(* What the invariant says of a RAM slot. *)
LEMMA RamPhases ==
  ASSUME IInv, NEW s \in Slots, Kind(s) = "ram"
  PROVE  LET r == unit[s] IN
         /\ RamTyped(s, r)
         /\ client[s].cs /\ ~ client[s].wr => latest[client[s].a] \in seen[s]
         /\ \/ RamErases(s, r) \/ RamEnds(s, r) \/ RamIdle(s, r) \/ RamRises(s, r)
            \/ RamWaits(s, r) \/ RamWorks(s, r) \/ RamTold(s, r)
<1>1. SlotInv(s)
  BY DEF IInv
<1> QED BY <1>1 DEF SlotInv, RamInv

(* The bank stores a word when it acknowledges a write: the client's, who  *)
(* then has it made, or a 0 of the erasure.  The history follows.          *)
LEMMA RamStores ==
  ASSUME IInv, Next
  PROVE  LET store == port.n = 1 /\ port'.n = 2 /\ ctl.wr IN
         /\ ~ store => mem' = mem /\ latest' = latest
         /\ store => \E s \in ctl.sel :
              /\ Kind(s) = "ram" /\ ctl.addr \in Cells
              /\ ~ client[s].cs => ctl.din = 0
              /\ mem' = [mem EXCEPT ![ctl.addr] = ctl.din]
              /\ latest' = [latest EXCEPT ![ctl.addr] = ctl.din]
         /\ \A s \in Slots : s \in made' <=>
              s \in steady' /\ (s \in made \/ (store /\ s \in ctl.sel /\ client[s].cs))
<1> DEFINE store == port.n = 1 /\ port'.n = 2 /\ ctl.wr
<1>1. PICK ack \in BOOLEAN :
        /\ ack => port.n = 1 /\ (ctl.rd \/ ctl.wr)
        /\ PortStep(ack) /\ HistoryStep(ack)
  BY DEF Next, MayAck
<1>2. /\ BankInv /\ Len \in {2, 4} /\ (Rdy => port.n >= 2)
      /\ ctl \in [sel : SUBSET Slots, rd : BOOLEAN, wr : BOOLEAN, addr : Nat, din : Vals \cup {0}]
      /\ port \in [n : Nat, of : SUBSET Slots, a : Nat, wr : BOOLEAN]
      /\ mem \in [Cells -> Vals \cup {0}] /\ latest \in [Cells -> Vals \cup {0}]
  BY SetupTyped DEF IInv, MemInv, BankInv, Rdy, Len
<1>3. /\ ack => port'.n = 2
      /\ Rdy => port'.n = 0
      /\ ~ ack /\ ~ Rdy /\ port.n = 1 => port'.n = 1
  BY <1>1, Counts DEF PortIdle
<1>4. ack <=> (port.n = 1 /\ port'.n = 2)
  BY <1>1, <1>2, <1>3
<1>5. /\ mem' = IF ack /\ ctl.wr THEN [mem EXCEPT ![ctl.addr] = ctl.din] ELSE mem
      /\ made' = (made \cup Stores(ack)) \cap steady'
  BY <1>1 DEF PortStep, HistoryStep
<1>6. latest' = [a \in Cells |->
        LET by == {s \in Stores(ack) : client[s].a = a}
        IN IF by = {} THEN latest[a] ELSE client[CHOOSE s \in by : TRUE].v]
  BY <1>1 DEF HistoryStep
<1>7. CASE ~ store
  <2>1. Stores(ack) = {}
    BY <1>4, <1>7 DEF Stores
  <2>2. latest' = [a \in Cells |-> latest[a]]
    BY <1>6, <2>1
  <2>3. mem' = mem /\ latest' = latest
    BY <1>2, <1>4, <1>5, <1>7, <2>2
  <2> QED BY <1>5, <1>7, <2>1, <2>3
<1>8. CASE store
  <2>1. PICK s \in ctl.sel : ctl.sel = {s}
    <3>1. ctl.sel # {}
      BY <1>2, <1>8 DEF BankInv
    <3> QED BY <1>2, <3>1 DEF BankInv
  <2>2. s \in Slots /\ Kind(s) = "ram"
    BY <1>2, <1>8, <2>1 DEF BankInv, IsRom
  <2>3. \/ RamErases(s, unit[s]) \/ RamEnds(s, unit[s]) \/ RamWorks(s, unit[s])
    BY <2>1, <2>2, RamPhases DEF RamIdle, RamRises, RamWaits, RamTold, Mine
  <2>4. mem' = [mem EXCEPT ![ctl.addr] = ctl.din]
    BY <1>4, <1>5, <1>8
  <2>5. CASE client[s].cs
    <3>1. RamWorks(s, unit[s])
      BY <2>3, <2>5 DEF RamErases, RamEnds
    <3>2. /\ client[s].wr /\ s \notin made /\ ctl.din = client[s].v /\ ctl.addr = client[s].a
          /\ client[s].a \in Cells
      BY <1>8, <2>2, <3>1, RamPhases DEF RamWorks, RamTyped
    <3>3. Stores(ack) = {s}
      BY <1>4, <1>8, <2>1, <2>5, <3>2 DEF Stores
    <3>4. ASSUME NEW a \in Cells
          PROVE  latest'[a] = IF a = ctl.addr THEN ctl.din ELSE latest[a]
      <4> DEFINE by == {t \in Stores(ack) : client[t].a = a}
      <4>1. latest'[a] = IF by = {} THEN latest[a] ELSE client[CHOOSE t \in by : TRUE].v
        BY <1>6
      <4>2. CASE a = ctl.addr
        <5>1. by = {s}
          BY <3>2, <3>3, <4>2
        <5>2. (CHOOSE t \in by : TRUE) = s
          BY <5>1
        <5> QED BY <3>2, <4>1, <4>2, <5>1, <5>2
      <4>3. CASE a # ctl.addr
        <5>1. by = {}
          BY <3>2, <3>3, <4>3
        <5> QED BY <4>1, <4>3, <5>1
      <4> QED BY <4>2, <4>3
    <3>5. latest' = [latest EXCEPT ![ctl.addr] = ctl.din]
      <4>1. latest' = [a \in Cells |-> latest'[a]]
        BY <1>6
      <4>2. [latest EXCEPT ![ctl.addr] = ctl.din]
              = [a \in Cells |-> IF a = ctl.addr THEN ctl.din ELSE latest[a]]
        BY <1>2
      <4> QED BY <3>4, <4>1, <4>2
    <3> QED BY <1>5, <1>8, <2>1, <2>2, <2>4, <2>5, <3>2, <3>3, <3>5
  <2>6. CASE ~ client[s].cs
    <3>1. Wipes(s)
      BY <2>3, <2>6 DEF RamErases, RamEnds, RamWorks
    <3>2. ctl.din = 0 /\ ctl.addr \in Cells /\ latest[ctl.addr] = 0
      BY <1>8, <2>1, <3>1 DEF Wipes, Mine
    <3>3. Stores(ack) = {}
      BY <2>1, <2>6 DEF Stores
    <3>4. latest' = [a \in Cells |-> latest[a]]
      BY <1>6, <3>3
    <3>5. latest' = [latest EXCEPT ![ctl.addr] = ctl.din]
      BY <1>2, <3>2, <3>4
    <3> QED BY <1>5, <1>8, <2>1, <2>2, <2>4, <2>6, <3>2, <3>3, <3>5
  <2> QED BY <2>5, <2>6
<1> QED BY <1>7, <1>8

(* A client of a RAM waits for its answer and drops cs after it; it asks   *)
(* when the erasure is over.                                               *)
LEMMA RamClient ==
  ASSUME IInv, Next, NEW s \in Slots, Kind(s) = "ram"
  PROVE  /\ client[s].cs =>
              \/ client'[s] = client[s]
              \/ unit[s].data_ok /\ client'[s] = [client[s] EXCEPT !.cs = FALSE]
         /\ ~ client[s].cs =>
              \/ client'[s] = client[s]
              \/ client'[s] \in Asked(s) /\ ~ EraseBsy /\ ~ Mine(s)
         /\ s \in steady' <=> client'[s] = client[s]
         /\ client'[s].cs /\ ~ client'[s].wr =>
              /\ latest'[client'[s].a] \in seen'[s]
              /\ client'[s] = client[s] => seen[s] \subseteq seen'[s]
<1>1. ClientsStep /\ client'[s] \in NextClient(s) /\ setup' = setup
  BY DEF Next, ClientsStep
<1>2. ~ MayMove(s) /\ (MayDrop(s) => client[s].cs /\ unit[s].data_ok)
  BY DEF MayMove, MayDrop, Answered, Ok
<1>3. /\ client[s].cs =>
           \/ client'[s] = client[s]
           \/ unit[s].data_ok /\ client'[s] = [client[s] EXCEPT !.cs = FALSE]
      /\ ~ client[s].cs =>
           \/ client'[s] = client[s]
           \/ client'[s] \in Asked(s) /\ ~ EraseBsy /\ ~ Mine(s)
  BY <1>1, <1>2 DEF NextClient, MayAsk, Mine
<1>4. s \in steady' <=> client'[s] = client[s]
  BY <1>1 DEF ClientsStep
<1>5. seen'[s] = IF Kind(s) # "ram" \/ ~ client'[s].cs \/ client'[s].wr THEN {}
                 ELSE {latest'[client'[s].a]} \cup (IF s \in steady' THEN seen[s] ELSE {})
  BY DEF Next, HistoryStep
<1> QED BY <1>3, <1>4, <1>5

(* Its registers after a clock.                                            *)
LEMMA RamRegs ==
  ASSUME IInv, Next, NEW s \in Slots, Kind(s) = "ram", unit[s].erased
  PROVE  LET r == unit[s] d == unit'[s] c == client[s]
             fast == ~ Mine(s) /\ c.cs /\ ~ r.last_cs IN
         /\ d.erased = TRUE /\ d.erase_cnt = r.erase_cnt
         /\ d.last_cs = c.cs
         /\ d.req_l = (~ Mine(s) /\ (r.req_l \/ fast))
         /\ d.rnw = (IF fast THEN ~ c.wr ELSE r.rnw)
         /\ d.addr = (IF fast THEN c.a ELSE r.addr)
         /\ d.dout = (IF Mine(s) /\ Dst THEN Din ELSE r.dout)
         /\ d.data_ok = ((Mine(s) /\ Rdy) \/ (r.data_ok /\ c.cs /\ ~ fast))
         /\ Requests(s) = (r.req_l \/ fast)
         /\ Addr(s) = d.addr /\ Ask(s).rnw = d.rnw
         /\ Ask(s).din = IF EraseBsy THEN 0 ELSE c.v
<1> DEFINE r == unit[s]
           i == In(s)
<1>1. unit'[s] = RamStep(r, i)
  BY Clients DEF UnitStep
<1>2. /\ i.cs = client[s].cs /\ i.a = client[s].a /\ i.wr = client[s].wr
      /\ i.we = Mine(s) /\ i.dst = Dst /\ i.rdy = Rdy /\ i.din = Din
  BY DEF In, Mine
<1>3. RamTyped(s, r)
  BY RamPhases DEF RamTyped
<1>4. client[s].cs \in BOOLEAN /\ client[s].wr \in BOOLEAN
  BY DEF IInv, ClientTyped
<1>5. RamReq(r, i) \in BOOLEAN /\ RamRnw(r, i) \in BOOLEAN
  BY <1>3, <1>4 DEF RamReq, RamRnw, RamTyped, Fast, Rises
<1>6. Requests(s) = RamReq(r, i) /\ Addr(s) = RamAddr(r, i)
  BY DEF Requests, Addr
<1>7. Ask(s).rnw = RamRnw(r, i) /\ Ask(s).din = IF EraseBsy THEN 0 ELSE client[s].v
  BY <1>5 DEF Ask
<1> QED BY <1>1, <1>2, <1>3, <1>4, <1>6, <1>7
        DEF RamStep, ServeStep, RamReq, RamRnw, RamAddr, Fast, Rises, RamTyped

(* While it erases, a cell is counted when the bank is given its write.    *)
LEMMA RamErasing ==
  ASSUME IInv, Next, NEW s \in Slots, Kind(s) = "ram", ~ unit[s].erased
  PROVE  LET r == unit[s] d == unit'[s] IN
         /\ d.last_cs = r.last_cs /\ d.data_ok = r.data_ok
         /\ Requests(s) = r.req_l /\ Addr(s) = r.addr /\ Ask(s).rnw = r.rnw
         /\ Ask(s).din = 0
         /\ {d.req_l, d.rnw, d.erased} \subseteq BOOLEAN
         /\ ~ Mine(s) => /\ d.req_l /\ ~ d.rnw /\ ~ d.erased
                         /\ d.addr = (IF r.req_l THEN r.addr ELSE r.erase_cnt)
                         /\ d.erase_cnt = r.erase_cnt
         /\ Mine(s) => /\ ~ d.req_l /\ (d.rnw <=> r.rnw) /\ d.addr = r.addr
                       /\ d.erased <=> r.req_l /\ r.erase_cnt + 1 = Size
                       /\ d.erase_cnt = IF r.req_l THEN (r.erase_cnt + 1) % Size ELSE r.erase_cnt
<1> DEFINE r == unit[s]
           i == In(s)
<1>1. unit'[s] = EraseStep(r, i)
  BY Clients DEF UnitStep, RamStep
<1>2. i.we = Mine(s)
  BY DEF In, Mine
<1>3. RamTyped(s, r)
  BY RamPhases
<1>4. ~ Fast(r, i)
  BY DEF Fast
<1>5. Requests(s) = r.req_l /\ Addr(s) = r.addr /\ Ask(s).rnw = r.rnw
  BY <1>3, <1>4 DEF Requests, Addr, Ask, RamReq, RamAddr, RamRnw, RamTyped
<1>6. Ask(s).din = 0
  BY DEF Ask, EraseBsy
<1>7. r.rnw \in BOOLEAN
  BY <1>3 DEF RamTyped
<1>8. /\ unit'[s].last_cs = r.last_cs /\ unit'[s].data_ok = r.data_ok
      /\ unit'[s].req_l = (~ i.we) /\ unit'[s].rnw = (i.we /\ r.rnw)
      /\ unit'[s].addr = (IF i.we \/ r.req_l THEN r.addr ELSE r.erase_cnt)
      /\ unit'[s].erased = (i.we /\ r.req_l /\ r.erase_cnt + 1 = Size)
      /\ unit'[s].erase_cnt =
           (IF i.we /\ r.req_l THEN (r.erase_cnt + 1) % Size ELSE r.erase_cnt)
  BY <1>1 DEF EraseStep
<1>9. {unit'[s].req_l, unit'[s].rnw, unit'[s].erased} \subseteq BOOLEAN
  <2>1. unit'[s].req_l \in BOOLEAN
    BY <1>8, Zenon
  <2>2. unit'[s].rnw \in BOOLEAN
    BY <1>8, Zenon
  <2>3. unit'[s].erased \in BOOLEAN
    BY <1>8, Zenon
  <2> QED BY <2>1, <2>2, <2>3
<1>10. CASE Mine(s)
  <2>1. i.we
    BY <1>2, <1>10
  <2>2. unit'[s].erased <=> r.req_l /\ r.erase_cnt + 1 = Size
    BY <1>8, <2>1, Zenon
  <2>3. ~ unit'[s].req_l /\ (unit'[s].rnw <=> r.rnw)
    BY <1>8, <2>1
  <2>4. /\ unit'[s].addr = r.addr
        /\ unit'[s].erase_cnt = IF r.req_l THEN (r.erase_cnt + 1) % Size ELSE r.erase_cnt
    BY <1>8, <2>1
  <2> QED BY <1>5, <1>6, <1>8, <1>9, <1>10, <2>2, <2>3, <2>4
<1>11. CASE ~ Mine(s)
  <2>1. ~ i.we
    BY <1>2, <1>11
  <2>2. ~ unit'[s].erased
    BY <1>8, <2>1, Zenon
  <2>3. unit'[s].req_l /\ ~ unit'[s].rnw
    BY <1>8, <2>1
  <2>4. /\ unit'[s].addr = (IF r.req_l THEN r.addr ELSE r.erase_cnt)
        /\ unit'[s].erase_cnt = r.erase_cnt
    BY <1>8, <2>1
  <2> QED BY <1>5, <1>6, <1>8, <1>9, <1>11, <2>2, <2>3, <2>4
<1> QED BY <1>10, <1>11

(* A RAM that has been erased stays so.                                    *)
LEMMA ErasedStays ==
  ASSUME IInv, Next, NEW s \in Slots, Kind(s) = "ram", unit[s].erased
  PROVE  unit'[s].erased
BY RamRegs

(* The bank's turn of a RAM that is being erased.                          *)
LEMMA WipesOn ==
  ASSUME IInv, Next, NEW s \in Slots, Kind(s) = "ram", Mine(s), ~ client[s].cs,
         ctl.wr, ~ (port.n = 1 /\ port'.n = 2)
  PROVE  Mine(s)' /\ ctl'.wr /\ ctl'.addr = ctl.addr /\ client'[s] = client[s] /\ port'.n <= 1
<1>1. BankInv /\ port.n <= 1 /\ ctl.wr \in BOOLEAN /\ port.n \in Nat
  BY DEF IInv, BankInv
<1>2. ~ Rdy
  BY <1>1, SetupTyped DEF IInv, Rdy, Len
<1>3. /\ s \in ctl'.sel /\ ctl'.addr = ctl.addr /\ port'.n <= 1
  BY <1>1, <1>2, Turns DEF Mine
<1>4. ctl'.wr = ctl.wr
  BY <1>2, <1>3, RamTurns DEF Mine
<1>5. client'[s] = client[s]
  BY RamClient
<1> QED BY <1>3, <1>4, <1>5 DEF Mine

(* A cell where the RAM is not what it should be has not been erased yet.  *)
LEMMA NotWiped ==
  ASSUME IInv, Next, NEW s \in Slots, Erases(s), NEW a \in Cells, ~ Wiped(s, a),
         ~ (port.n = 1 /\ port'.n = 2 /\ ctl.wr /\ ctl.addr = a)
  PROVE  ~ Wiped(s, a)'
<1> DEFINE r == unit[s]
           d == unit'[s]
<1>1. Kind(s) = "ram" /\ RamTyped(s, r) /\ Cells \subseteq Nat /\ BankInv /\ port.n \in Nat
  BY RamPhases DEF Erases, Cells, IInv, BankInv
<1>2. CASE Mine(s) /\ ctl.wr /\ ~ client[s].cs /\ ctl.addr = a
  <2>1. Mine(s)' /\ ctl'.wr /\ ctl'.addr = ctl.addr /\ client'[s] = client[s]
    BY <1>1, <1>2, WipesOn
  <2> QED BY <1>2, <2>1 DEF Wiped
<1>3. CASE ~ (Mine(s) /\ ctl.wr /\ ~ client[s].cs /\ ctl.addr = a)
  <2>1. ~ r.erased /\ ~ (a < r.erase_cnt)
    BY <1>3 DEF Wiped
  <2>2. RamErases(s, r)
    BY <1>1, <2>1, RamPhases DEF RamEnds, RamIdle, RamRises, RamWaits, RamWorks, RamTold
  <2>3. CASE Mine(s) /\ r.req_l
    <3>1. ctl.addr = r.erase_cnt /\ ctl.wr /\ ~ client[s].cs
      BY <2>2, <2>3 DEF RamErases
    <3>2. a # r.erase_cnt /\ r.erase_cnt \in 0 .. Size - 1 /\ a \in 0 .. Size - 1 /\ Size \in Nat
      BY <1>1, <1>3, <2>3, <3>1, SetupsAssumption DEF RamTyped, Cells
    <3>3. r.erase_cnt + 1 < Size /\ ~ (a < r.erase_cnt + 1)
      BY <2>1, <3>2
    <3>4. (r.erase_cnt + 1) % Size = r.erase_cnt + 1
      BY <3>2, <3>3
    <3>5. ~ d.erased /\ d.erase_cnt = r.erase_cnt + 1
      BY <1>1, <2>1, <2>3, <3>2, <3>3, <3>4, RamErasing
    <3> QED BY <3>3, <3>5 DEF Wiped
  <2>4. CASE ~ (Mine(s) /\ r.req_l)
    <3>1. ~ d.erased /\ d.erase_cnt = r.erase_cnt
      BY <1>1, <2>1, <2>4, RamErasing DEF Mine
    <3> QED BY <2>1, <3>1 DEF Wiped
  <2> QED BY <2>3, <2>4
<1> QED BY <1>2, <1>3

(* The RAM holds what it should, or is being erased.                       *)
LEMMA MemStep == IInv /\ Next => MemInv'
<1> SUFFICES ASSUME IInv, Next PROVE MemInv'
  OBVIOUS
<1> DEFINE store == port.n = 1 /\ port'.n = 2 /\ ctl.wr
<1>1. MemInv /\ setup' = setup /\ ctl.din \in Vals \cup {0}
  BY DEF IInv, BankInv, Next
<1>2. /\ ~ store => mem' = mem /\ latest' = latest
      /\ store => \E s \in ctl.sel :
           /\ Kind(s) = "ram" /\ ctl.addr \in Cells
           /\ ~ client[s].cs => ctl.din = 0
           /\ mem' = [mem EXCEPT ![ctl.addr] = ctl.din]
           /\ latest' = [latest EXCEPT ![ctl.addr] = ctl.din]
  BY RamStores
<1>3. ({mem, latest} \subseteq [Cells -> Vals \cup {0}])'
  BY <1>1, <1>2 DEF MemInv, Cells
<1>4. ASSUME EraseBsy'
      PROVE  /\ latest' = [a \in Cells |-> 0]
             /\ \A s \in Slots : Kind(s) = "ram" => ~ client'[s].cs
  <2>1. EraseBsy
    <3>1. PICK t \in Slots : Kind(t) = "ram" /\ ~ unit'[t].erased
      BY <1>1, <1>4 DEF EraseBsy, Kind
    <3>2. ~ unit[t].erased
      BY <3>1, ErasedStays
    <3> QED BY <3>1, <3>2 DEF EraseBsy
  <2>2. /\ latest = [a \in Cells |-> 0]
        /\ \A s \in Slots : Kind(s) = "ram" => ~ client[s].cs
    BY <1>1, <2>1 DEF MemInv
  <2>3. ASSUME NEW s \in Slots, Kind(s) = "ram" PROVE ~ client'[s].cs
    BY <2>1, <2>2, <2>3, RamClient
  <2>4. store => ctl.din = 0
    BY <1>2, <2>2 DEF IInv, BankInv
  <2>5. latest' = [a \in Cells |-> 0]
    BY <1>2, <2>2, <2>4
  <2> QED BY <2>3, <2>5
<1>5. ASSUME NEW a \in Cells, mem'[a] # latest'[a]
      PROVE  \E s \in Slots : Erases(s)' /\ ~ Wiped(s, a)'
  <2>1. mem[a] # latest[a] /\ ~ (store /\ ctl.addr = a)
    BY <1>1, <1>2, <1>5 DEF MemInv
  <2>2. PICK s \in Slots : Erases(s) /\ ~ Wiped(s, a)
    BY <1>1, <2>1 DEF MemInv
  <2>3. ~ Wiped(s, a)'
    BY <2>1, <2>2, NotWiped
  <2> QED BY <1>1, <2>2, <2>3 DEF Erases, Kind
<1> QED BY <1>1, <1>3, <1>4, <1>5 DEF MemInv, Cells, Kind

(* A client that asks finds the RAM erased.                                *)
LEMMA MemServes ==
  ASSUME IInv, NEW s \in Slots, Kind(s) = "ram", client[s].cs, Mine(s)
  PROVE  ~ EraseBsy /\ \A a \in Cells : mem[a] = latest[a]
<1>1. MemInv /\ BankInv
  BY DEF IInv
<1>2. ~ EraseBsy
  BY <1>1 DEF MemInv
<1>3. ASSUME NEW t \in Slots, Erases(t), NEW a \in Cells PROVE Wiped(t, a)
  <2>1. unit[t].erased
    BY <1>2, <1>3 DEF EraseBsy, Erases
  <2>2. Mine(t) => t = s
    BY <1>1 DEF BankInv, Mine
  <2> QED BY <2>1, <2>2 DEF Wiped
<1> QED BY <1>1, <1>2, <1>3 DEF MemInv

(* What a requester sees of the bank that works for it.                    *)
LEMMA RamBank ==
  ASSUME IInv, NEW s \in ctl.sel, Kind(s) = "ram", RamWorks(s, unit[s]), RamTyped(s, unit[s])
  PROVE  /\ Rdy => port.n >= 2
         /\ ~ client[s].wr =>
              /\ Rdy => port.n >= 5
              /\ port.n = 4 => Dst /\ Din = latest[client[s].a]
              /\ port.n >= 5 => ~ Dst
<1>1. /\ BankInv /\ setup \in Setups /\ Len \in {2, 4} /\ s \in Slots
      /\ ctl.addr \in Nat /\ port.n \in Nat /\ client[s].a \in Cells
  BY SetupTyped DEF IInv, BankInv, RamTyped, RamWorks
<1>2. Rdy => port.n >= 2
  BY <1>1 DEF Rdy, Len
<1>3. ASSUME ~ client[s].wr PROVE ~ port.wr
  BY <1>1, <1>3 DEF RamWorks, BankInv
<1>4. ASSUME ~ client[s].wr
      PROVE  (Rdy <=> port.n = Len + 3) /\ (Dst <=> port.n = 4)
  BY <1>1, <1>3, <1>4 DEF Rdy, Dst, Long, Len
<1>5. ASSUME ~ client[s].wr, port.n = 4 PROVE Din = latest[client[s].a]
  <2>1. port.of = ctl.sel /\ port.a = client[s].a
    BY <1>1, <1>5 DEF BankInv, RamWorks
  <2>2. Din = BurstWord(0)
    BY <1>1, <1>3, <1>5 DEF Din, Len
  <2>3. port.a - (port.a % Len) + ((port.a + 0) % Len) = port.a
    <3>1. port.a \in Nat
      BY <1>1, <2>1, <1>5 DEF BankInv
    <3>2. CASE Len = 2
      BY <3>1, <3>2
    <3>3. CASE Len = 4
      BY <3>1, <3>3
    <3> QED BY <1>1, <3>2, <3>3
  <2>4. Din = mem[client[s].a]
    BY <1>1, <2>1, <2>2, <2>3 DEF BurstWord, Len
  <2> QED BY <1>1, <2>4, MemServes DEF RamWorks
<1> QED BY <1>1, <1>2, <1>4, <1>5


(* A requester hands its client's request to the bank, and the answer back. *)
LEMMA RamSlotStep ==
  ASSUME IInv, Next, NEW s \in Slots, Kind(s) = "ram"
  PROVE  RamInv(s, unit[s])'
<1> DEFINE r == unit[s]
           d == unit'[s]
           c == client[s]
           e == client'[s]
           fast == ~ Mine(s) /\ c.cs /\ ~ r.last_cs
           store == port.n = 1 /\ port'.n = 2 /\ ctl.wr
<1>1. /\ RamTyped(s, r)
      /\ c.cs /\ ~ c.wr => latest[c.a] \in seen[s]
      /\ \/ RamErases(s, r) \/ RamEnds(s, r) \/ RamIdle(s, r) \/ RamRises(s, r)
         \/ RamWaits(s, r) \/ RamWorks(s, r) \/ RamTold(s, r)
  BY RamPhases
<1>2. r.erased =>
      /\ d.erased = TRUE /\ d.erase_cnt = r.erase_cnt
      /\ d.last_cs = c.cs
      /\ d.req_l = (~ Mine(s) /\ (r.req_l \/ fast))
      /\ d.rnw = (IF fast THEN ~ c.wr ELSE r.rnw)
      /\ d.addr = (IF fast THEN c.a ELSE r.addr)
      /\ d.dout = (IF Mine(s) /\ Dst THEN Din ELSE r.dout)
      /\ d.data_ok = ((Mine(s) /\ Rdy) \/ (r.data_ok /\ c.cs /\ ~ fast))
      /\ Requests(s) = (r.req_l \/ fast)
      /\ Addr(s) = d.addr /\ Ask(s).rnw = d.rnw
      /\ Ask(s).din = IF EraseBsy THEN 0 ELSE c.v
  BY RamRegs
<1>3. /\ Mine(s) /\ ~ Rdy =>
           /\ Mine(s)' /\ ctl'.addr = ctl.addr
           /\ port.n = 0 => port'.n = 1
           /\ port.n = 1 => port'.n \in {1, 2}
           /\ port.n >= 2 => port'.n = port.n + 1 /\ port'.wr = port.wr
           /\ port'.n <= 1 => ctl'.wr = ctl.wr /\ ctl'.din = ctl.din
           /\ port.n = 1 /\ port'.n = 2 => port'.wr = ctl.wr
      /\ Mine(s) /\ Rdy => ~ Mine(s)'
      /\ ~ Mine(s) /\ Mine(s)' =>
           /\ Requests(s) /\ ctl'.addr = Addr(s) /\ port'.n = 0
           /\ ctl'.wr = ~ Ask(s).rnw /\ ctl'.din = Ask(s).din
  BY Turns, RamTurns DEF Mine
<1>4. /\ c.cs => e = c \/ (r.data_ok /\ e = [c EXCEPT !.cs = FALSE])
      /\ ~ c.cs => e = c \/ (e \in Asked(s) /\ ~ EraseBsy /\ ~ Mine(s))
      /\ e.cs /\ ~ e.wr =>
           latest'[e.a] \in seen'[s] /\ (e = c => seen[s] \subseteq seen'[s])
      /\ s \in made' <=> e = c /\ (s \in made \/ (store /\ Mine(s) /\ c.cs))
  BY RamClient, RamStores DEF Mine
<1>5. /\ c \in [cs : BOOLEAN, a : Nat, wr : BOOLEAN, v : Vals \cup {0}]
      /\ port.n \in Nat /\ port'.n \in Nat
      /\ ctl.wr \in BOOLEAN /\ port.wr \in BOOLEAN /\ ctl'.wr \in BOOLEAN
      /\ ctl.sel = {} => port.n = 0
      /\ port'.n >= 2 => ~ ctl'.wr
      /\ port.n >= 2 => ~ ctl.wr
  BY BankStep DEF IInv, ClientTyped, BankInv
<1>6. e \in [cs : BOOLEAN, a : Nat, wr : BOOLEAN, v : Vals \cup {0}]
  BY ClientsTyped DEF ClientTyped
<1>7. e \in Asked(s) => e.cs /\ e.a \in Cells
  BY DEF Asked
<1>8. RamWorks(s, r) =>
        /\ Rdy => port.n >= 2
        /\ ~ c.wr => /\ Rdy => port.n >= 5
                     /\ port.n = 4 => Dst /\ Din = latest[c.a]
                     /\ port.n >= 5 => ~ Dst
  BY <1>1, RamBank DEF Mine, RamWorks
<1>9. c.cs => ~ EraseBsy
  BY DEF IInv, MemInv
<1>10. setup' = setup /\ Rdy \in BOOLEAN
  BY DEF Next, Rdy
<1>11. e.cs /\ ~ e.wr => latest'[e.a] \in seen'[s]
  BY <1>4
<1> HIDE DEF fast
<1>12. ASSUME r.erased PROVE RamTyped(s, unit[s])'
  <2>1. /\ d.addr \in Nat /\ d.erase_cnt \in Cells
        /\ {d.rnw, d.last_cs, d.req_l, d.data_ok, d.erased} \subseteq BOOLEAN
    BY <1>1, <1>2, <1>5, <1>10, <1>12 DEF RamTyped, fast, Mine
  <2>2. e.cs => e.a \in Cells
    BY <1>1, <1>4, <1>5, <1>7 DEF RamTyped
  <2> QED BY <1>2, <1>12, <2>1, <2>2 DEF RamTyped, Cells
<1>13. CASE RamErases(s, r)
  <2>1. /\ ~ r.erased /\ ~ c.cs /\ ~ r.last_cs /\ ~ r.data_ok /\ Wipes(s) /\ EraseBsy
        /\ r.req_l => ~ r.rnw /\ r.addr = r.erase_cnt
        /\ Mine(s) /\ r.req_l => port.n = 0 /\ ctl.addr = r.erase_cnt
        /\ Mine(s) /\ ~ r.req_l => port.n >= 1 /\ (ctl.wr => r.erase_cnt = ctl.addr + 1)
        /\ Mine(s) /\ port.n <= 1 => ctl.wr
    BY <1>13 DEF RamErases, EraseBsy
  <2>2. /\ d.last_cs = r.last_cs /\ d.data_ok = r.data_ok
        /\ Requests(s) = r.req_l /\ Addr(s) = r.addr /\ Ask(s).rnw = r.rnw
        /\ Ask(s).din = 0
        /\ {d.req_l, d.rnw, d.erased} \subseteq BOOLEAN
        /\ ~ Mine(s) => /\ d.req_l /\ ~ d.rnw /\ ~ d.erased
                        /\ d.addr = (IF r.req_l THEN r.addr ELSE r.erase_cnt)
                        /\ d.erase_cnt = r.erase_cnt
        /\ Mine(s) => /\ ~ d.req_l /\ (d.rnw <=> r.rnw) /\ d.addr = r.addr
                      /\ d.erased <=> r.req_l /\ r.erase_cnt + 1 = Size
                      /\ d.erase_cnt = IF r.req_l THEN (r.erase_cnt + 1) % Size ELSE r.erase_cnt
    BY <2>1, RamErasing
  <2>3. e = c
    BY <1>4, <2>1
  <2>4. r.erase_cnt \in 0 .. Size - 1 /\ Size \in Nat \ {0} /\ r.addr \in Nat
    BY <1>1, SetupsAssumption DEF RamTyped, Cells
  <2>5. /\ (r.erase_cnt + 1) % Size \in 0 .. Size - 1
        /\ r.erase_cnt + 1 # Size => (r.erase_cnt + 1) % Size = r.erase_cnt + 1
    BY <2>4
  <2>6. RamTyped(s, unit[s])'
    <3>1. /\ d.addr \in Nat /\ d.erase_cnt \in Cells
          /\ {d.rnw, d.last_cs, d.req_l, d.data_ok, d.erased} \subseteq BOOLEAN
      <4>1. CASE Mine(s)
        BY <1>1, <2>2, <2>4, <2>5, <4>1 DEF RamTyped, Cells
      <4>2. CASE ~ Mine(s)
        BY <1>1, <2>2, <2>4, <2>5, <4>2 DEF RamTyped, Cells
      <4> QED BY <4>1, <4>2
    <3>2. s \in setup.erase
      BY <1>1, <2>1 DEF RamTyped
    <3> QED BY <1>10, <2>1, <2>3, <3>1, <3>2 DEF RamTyped, Cells
  <2>7. Wipes(s)'
    <3> SUFFICES ASSUME Mine(s)', ctl'.wr
                 PROVE  ctl'.din = 0 /\ ctl'.addr \in Cells /\ latest'[ctl'.addr] = 0
      BY DEF Wipes, Cells
    <3>1. port'.n <= 1 /\ ~ store
      BY <1>5
    <3>2. latest' = latest
      BY <3>1, RamStores
    <3>3. CASE Mine(s)
      <4>1. ~ Rdy /\ ctl'.addr = ctl.addr /\ ctl'.wr = ctl.wr /\ ctl'.din = ctl.din
        BY <1>3, <3>1, <3>3
      <4> QED BY <2>1, <3>2, <3>3, <4>1 DEF Wipes
    <3>4. CASE ~ Mine(s)
      <4>1. ctl'.addr = r.erase_cnt /\ ctl'.din = 0
        BY <1>3, <2>1, <2>2, <3>4
      <4>2. latest = [a \in Cells |-> 0]
        BY <2>1 DEF IInv, MemInv
      <4> QED BY <1>1, <3>2, <4>1, <4>2 DEF RamTyped
    <3> QED BY <3>3, <3>4
  <2>8. CASE ~ Mine(s)
    <3>1. Mine(s)' => port'.n = 0 /\ ctl'.addr = r.erase_cnt /\ ctl'.wr
      BY <1>3, <2>1, <2>2, <2>8
    <3>2. RamErases(s, unit[s])'
      BY <2>1, <2>2, <2>3, <2>7, <2>8, <3>1 DEF RamErases
    <3> QED BY <1>11, <2>6, <3>2 DEF RamInv
  <2>9. CASE Mine(s) /\ r.req_l
    <3>1. port.n = 0 /\ ~ Rdy
      BY <2>1, <2>9, SetupTyped DEF IInv, Rdy, Len
    <3>2. Mine(s)' /\ port'.n = 1 /\ ctl'.addr = r.erase_cnt /\ ctl'.wr
      BY <1>3, <1>5, <2>1, <2>9, <3>1
    <3>3. RamErases(s, unit[s])' \/ RamEnds(s, unit[s])'
      <4>1. /\ ~ e.cs /\ d.last_cs = r.last_cs /\ d.data_ok = r.data_ok
            /\ ~ d.req_l /\ (d.erased <=> r.erase_cnt + 1 = Size)
            /\ d.erase_cnt = (r.erase_cnt + 1) % Size
        BY <2>1, <2>2, <2>3, <2>9
      <4>2. CASE r.erase_cnt + 1 = Size
        BY <2>1, <2>7, <3>2, <4>1, <4>2 DEF RamEnds
      <4>3. CASE r.erase_cnt + 1 # Size
        BY <2>1, <2>5, <2>7, <3>2, <4>1, <4>3 DEF RamErases
      <4> QED BY <4>2, <4>3
    <3> QED BY <1>11, <2>6, <3>3 DEF RamInv
  <2>10. CASE Mine(s) /\ ~ r.req_l
    <3>1. Mine(s)' => /\ port'.n >= 1
                      /\ ctl'.wr => r.erase_cnt = ctl'.addr + 1
                      /\ port'.n <= 1 => ctl'.wr
      BY <1>3, <1>5, <2>1, <2>10
    <3>2. RamErases(s, unit[s])'
      BY <2>1, <2>2, <2>3, <2>7, <2>10, <3>1 DEF RamErases
    <3> QED BY <1>11, <2>6, <3>2 DEF RamInv
  <2> QED BY <2>8, <2>9, <2>10
<1>14. CASE RamEnds(s, r)
  <2>1. r.erased /\ ~ c.cs /\ ~ r.last_cs /\ ~ r.req_l /\ Wipes(s) /\ Mine(s) /\ port.n >= 1
    BY <1>14 DEF RamEnds
  <2>2. /\ d.erased /\ d.last_cs = FALSE /\ d.req_l = FALSE /\ e = c
    BY <1>2, <1>4, <1>5, <2>1 DEF fast
  <2>3. RamTyped(s, unit[s])'
    BY <1>12, <2>1
  <2>4. CASE Rdy
    <3>1. RamIdle(s, unit[s])'
      BY <1>3, <2>1, <2>2, <2>4 DEF RamIdle
    <3> QED BY <1>11, <2>3, <3>1 DEF RamInv
  <2>5. CASE ~ Rdy
    <3>1. Mine(s)' /\ port'.n >= 1 /\ ctl'.addr = ctl.addr
      BY <1>3, <1>5, <2>1, <2>5
    <3>2. ctl'.wr => ctl.wr /\ ctl'.din = ctl.din /\ latest' = latest
      <4> SUFFICES ASSUME ctl'.wr PROVE ctl.wr /\ ctl'.din = ctl.din /\ latest' = latest
        OBVIOUS
      <4>1. port'.n <= 1 /\ ~ store
        BY <1>5
      <4> QED BY <1>3, <2>1, <2>5, <4>1, RamStores
    <3>3. Wipes(s)'
      BY <2>1, <3>1, <3>2 DEF Wipes, Cells
    <3>4. RamEnds(s, unit[s])'
      BY <2>2, <2>1, <3>1, <3>3 DEF RamEnds
    <3> QED BY <1>11, <2>3, <3>4 DEF RamInv
  <2> QED BY <2>4, <2>5
<1>15. CASE RamIdle(s, r)
  <2>1. r.erased /\ ~ fast /\ ~ Mine(s) /\ ~ c.cs /\ ~ r.req_l
    BY <1>15 DEF RamIdle, fast
  <2>2. /\ d.erased /\ d.last_cs = FALSE /\ d.req_l = FALSE /\ d.data_ok = FALSE
        /\ ~ Mine(s)'
    BY <1>2, <1>3, <1>5, <2>1
  <2>3. RamTyped(s, unit[s])'
    BY <1>12, <2>1
  <2>4. e.cs => s \notin made'
    BY <1>4, <2>1
  <2>5. (RamIdle(s, unit[s]) \/ RamRises(s, unit[s]))'
    BY <2>2, <2>4 DEF RamIdle, RamRises
  <2> QED BY <1>11, <2>3, <2>5 DEF RamInv
<1>16. CASE RamRises(s, r)
  <2>1. r.erased /\ fast /\ ~ Mine(s) /\ c.cs /\ ~ r.data_ok /\ e = c /\ s \notin made
    BY <1>4, <1>16 DEF RamRises, fast
  <2>2. /\ d.erased /\ d.last_cs = TRUE /\ d.req_l = TRUE /\ d.data_ok = FALSE
        /\ d.rnw = (~ c.wr) /\ d.addr = c.a
    BY <1>2, <2>1
  <2>3. Mine(s)' => port'.n = 0 /\ ctl'.addr = c.a /\ ctl'.wr = c.wr /\ ctl'.din = c.v
    BY <1>2, <1>3, <1>5, <1>9, <2>1, <2>2
  <2>4. RamTyped(s, unit[s])' /\ s \notin made'
    BY <1>4, <1>12, <2>1
  <2>5. CASE Mine(s)'
    <3>1. RamWorks(s, unit[s])'
      BY <2>1, <2>2, <2>3, <2>4, <2>5 DEF RamWorks
    <3> QED BY <1>11, <2>4, <3>1 DEF RamInv
  <2>6. CASE ~ Mine(s)'
    <3>1. RamWaits(s, unit[s])'
      BY <2>1, <2>2, <2>4, <2>6 DEF RamWaits
    <3> QED BY <1>11, <2>4, <3>1 DEF RamInv
  <2> QED BY <2>5, <2>6
<1>17. CASE RamWaits(s, r)
  <2>1. /\ r.erased /\ ~ fast /\ ~ Mine(s) /\ c.cs /\ ~ r.data_ok /\ r.req_l /\ e = c
        /\ r.addr = c.a /\ (r.rnw <=> ~ c.wr) /\ s \notin made /\ r.last_cs
    BY <1>4, <1>17 DEF RamWaits, fast
  <2>2. /\ d.erased /\ d.last_cs = TRUE /\ d.req_l = TRUE /\ d.data_ok = FALSE
        /\ d.rnw = r.rnw /\ d.addr = c.a
    BY <1>2, <2>1
  <2>3. Mine(s)' => /\ port'.n = 0 /\ ctl'.addr = c.a /\ ctl'.din = c.v
                    /\ ctl'.wr <=> c.wr
    BY <1>2, <1>3, <1>5, <1>9, <2>1, <2>2
  <2>4. RamTyped(s, unit[s])' /\ s \notin made'
    BY <1>4, <1>12, <2>1
  <2>5. CASE Mine(s)'
    <3>1. RamWorks(s, unit[s])'
      BY <2>1, <2>2, <2>3, <2>4, <2>5 DEF RamWorks
    <3> QED BY <1>11, <2>4, <3>1 DEF RamInv
  <2>6. CASE ~ Mine(s)'
    <3>1. RamWaits(s, unit[s])'
      BY <2>1, <2>2, <2>4, <2>6 DEF RamWaits
    <3> QED BY <1>11, <2>4, <3>1 DEF RamInv
  <2> QED BY <2>5, <2>6
<1>18. CASE RamWorks(s, r)
  <2>1. /\ r.erased /\ ~ fast /\ Mine(s) /\ c.cs /\ ~ r.data_ok /\ r.last_cs /\ e = c
        /\ port.n >= 1 => ~ r.req_l
        /\ ctl.addr = c.a
        /\ port.n <= 1 => /\ s \notin made
                          /\ ctl.wr <=> c.wr
                          /\ ctl.wr => ctl.din = c.v
        /\ port.n >= 2 => /\ port.wr <=> c.wr
                          /\ c.wr => s \in made
        /\ ~ c.wr /\ port.n >= 5 => r.dout \in seen[s]
    BY <1>4, <1>18 DEF RamWorks, fast
  <2>2. /\ d.erased /\ d.last_cs = TRUE /\ d.req_l = FALSE /\ d.data_ok = Rdy
        /\ d.dout = (IF Dst THEN Din ELSE r.dout)
    BY <1>2, <1>10, <2>1
  <2>3. /\ Rdy => port.n >= 2
        /\ ~ c.wr => /\ Rdy => port.n >= 5
                     /\ port.n = 4 => Dst /\ Din = latest[c.a]
                     /\ port.n >= 5 => ~ Dst
    BY <1>8, <1>18
  <2>4. RamTyped(s, unit[s])'
    BY <1>12, <2>1
  <2>5. /\ ~ c.wr => seen[s] \subseteq seen'[s] /\ latest[c.a] \in seen[s]
        /\ s \in made' <=> s \in made \/ store
    BY <1>1, <1>4, <2>1
  <2>6. CASE Rdy
    <3>1. ~ Mine(s)'
      BY <1>3, <2>1, <2>6
    <3>2. IF c.wr THEN s \in made' ELSE d.dout \in seen'[s]
      BY <1>5, <2>1, <2>2, <2>3, <2>5, <2>6
    <3>3. RamTold(s, unit[s])'
      BY <2>1, <2>2, <2>6, <3>1, <3>2 DEF RamTold
    <3> QED BY <1>11, <2>4, <3>3 DEF RamInv
  <2>7. CASE ~ Rdy
    <3>1. /\ Mine(s)' /\ ctl'.addr = c.a
          /\ port.n = 0 => port'.n = 1
          /\ port.n = 1 => port'.n \in {1, 2}
          /\ port.n >= 2 => port'.n = port.n + 1 /\ port'.wr = port.wr
          /\ port'.n <= 1 => ctl'.wr = ctl.wr /\ ctl'.din = ctl.din
          /\ port.n = 1 /\ port'.n = 2 => port'.wr = ctl.wr
      BY <1>3, <2>1, <2>7
    <3>2. /\ port'.n <= 1 => /\ s \notin made'
                             /\ ctl'.wr <=> c.wr
                             /\ ctl'.wr => ctl'.din = c.v
          /\ port'.n >= 2 => /\ port'.wr <=> c.wr
                             /\ c.wr => s \in made'
      BY <1>5, <2>1, <2>5, <3>1
    <3>3. ~ c.wr /\ port'.n >= 5 => d.dout \in seen'[s]
      BY <1>5, <2>1, <2>2, <2>3, <2>5, <3>1
    <3>4. RamWorks(s, unit[s])'
      BY <2>1, <2>2, <2>7, <3>1, <3>2, <3>3 DEF RamWorks
    <3> QED BY <1>11, <2>4, <3>4 DEF RamInv
  <2> QED BY <2>6, <2>7
<1>19. CASE RamTold(s, r)
  <2>1. /\ r.erased /\ ~ fast /\ ~ Mine(s) /\ c.cs /\ r.data_ok /\ ~ r.req_l /\ r.last_cs
        /\ IF c.wr THEN s \in made ELSE r.dout \in seen[s]
    BY <1>19 DEF RamTold, fast
  <2>2. /\ d.erased /\ d.last_cs = TRUE /\ d.req_l = FALSE /\ d.data_ok = TRUE
        /\ d.dout = r.dout /\ ~ Mine(s)'
    BY <1>2, <1>3, <2>1
  <2>3. RamTyped(s, unit[s])'
    BY <1>12, <2>1
  <2>4. CASE e = c
    <3>1. IF c.wr THEN s \in made' ELSE d.dout \in seen'[s]
      BY <1>4, <2>1, <2>2, <2>4
    <3>2. RamTold(s, unit[s])'
      BY <2>1, <2>2, <2>4, <3>1 DEF RamTold
    <3> QED BY <1>11, <2>3, <3>2 DEF RamInv
  <2>5. CASE e # c
    <3>1. ~ e.cs
      BY <1>4, <1>5, <2>1, <2>5
    <3>2. RamIdle(s, unit[s])'
      BY <2>2, <3>1 DEF RamIdle
    <3> QED BY <1>11, <2>3, <3>2 DEF RamInv
  <2> QED BY <2>4, <2>5
<1> QED BY <1>1, <1>13, <1>14, <1>15, <1>16, <1>17, <1>18, <1>19

(* A slot that nobody uses.                                                *)
LEMMA NoneSlotStep ==
  ASSUME IInv, Next, NEW s \in Slots, Kind(s) = "none"
  PROVE  (~ client[s].cs)'
<1>1. SlotInv(s)
  BY DEF IInv
<1>2. client'[s] = client[s]
  BY DEF Next, ClientsStep, NextClient
<1> QED BY <1>1, <1>2 DEF SlotInv

(* A RAM with ERASE starts unerased. *)
LEMMA RamFresh ==
  ASSUME NEW s \in Slots, unit[s] = RamReset(s \in setup.erase)
  PROVE  unit[s].erased \in BOOLEAN /\ (unit[s].erased <=> s \notin setup.erase)
<1>1. ASSUME NEW b \in BOOLEAN PROVE RamReset(b).erased \in BOOLEAN /\ (RamReset(b).erased <=> ~ b)
  BY <1>1 DEF RamReset
<1> DEFINE b == s \in setup.erase
<1>2. b \in BOOLEAN /\ unit[s] = RamReset(b)
  OBVIOUS
<1>3. b <=> s \in setup.erase
  OBVIOUS
<1> HIDE DEF b
<1> QED BY <1>1, <1>2, <1>3

(* The invariant holds after reset. *)
LEMMA InvInit == Init => IInv
<1> SUFFICES ASSUME Init PROVE IInv
  OBVIOUS
<1>1. /\ setup \in Setups /\ Len \in {2, 4} /\ port = PortIdle /\ ctl = SlotReset
      /\ client = [s \in Slots |-> [cs |-> FALSE, a |-> 0, wr |-> FALSE, v |-> 0]]
      /\ steady = Slots /\ unit = [s \in Slots |-> ResetOf(s)]
      /\ made = {} /\ seen = [s \in Slots |-> {}]
      /\ mem \in [Cells -> Vals \cup {0}]
      /\ latest = IF EraseBsy THEN [a \in Cells |-> 0] ELSE mem
  BY SetupTyped DEF Init
<1>2. ClientTyped
  BY <1>1 DEF ClientTyped
<1>3. BankInv
  BY <1>1 DEF BankInv, SlotReset, PortIdle, Long
<1>4. ASSUME NEW s \in Slots PROVE SlotInv(s)
  <2>1. client[s].a = 0 /\ ~ client[s].cs /\ ~ Mine(s) /\ In(s).a = 0
    BY <1>1 DEF Mine, SlotReset, In
  <2>2. CASE Kind(s) = "line"
    <3>1. unit[s] = LineReset
      BY <1>1, <2>2 DEF ResetOf
    <3>2. Blank \in [0 .. Len - 1 -> Nat]
      BY DEF Blank, Len
    <3>3. LineTyped(unit[s])
      BY <3>1, <3>2 DEF LineTyped, LineReset
    <3>4. LineInv(s, unit[s])
      BY <1>1, <2>1, <3>1, <3>3 DEF LineInv, LineKept, LineFill, LineRead, LineWait, LineReset
    <3> QED BY <2>2, <3>4 DEF SlotInv
  <2>3. CASE Kind(s) = "block"
    <3>1. unit[s] = BlockReset
      BY <1>1, <2>3 DEF ResetOf
    <3>2. BlockInv(s, unit[s])
      BY <2>1, <3>1 DEF BlockInv, BlockFill, BlockReset, Kept
    <3> QED BY <2>3, <3>2 DEF SlotInv
  <2>4. CASE Kind(s) = "word"
    <3>1. unit[s] = WordReset
      BY <1>1, <2>4 DEF ResetOf
    <3>2. 0 \in Entries
      BY SetupsAssumption DEF Entries
    <3>3. WordInv(s, unit[s])
      BY <2>1, <3>1, <3>2 DEF WordInv, WordTyped, WordKept, WordFill, WordReset
    <3> QED BY <2>4, <3>3 DEF SlotInv
  <2>5. CASE Kind(s) = "ram"
    <3>1. unit[s] = RamReset(s \in setup.erase)
      BY <1>1, <2>5 DEF ResetOf
    <3>2. RamTyped(s, unit[s])
      <4>1. unit[s].erased \in BOOLEAN /\ (unit[s].erased <=> s \notin setup.erase)
        BY <3>1, RamFresh
      <4>3. /\ unit[s].addr = 0 /\ unit[s].erase_cnt = 0 /\ unit[s].rnw = TRUE
            /\ unit[s].last_cs = FALSE /\ unit[s].req_l = FALSE /\ unit[s].data_ok = FALSE
        BY <3>1 DEF RamReset
      <4>2. 0 \in Cells
        BY SetupsAssumption DEF Cells
      <4>4. {unit[s].rnw, unit[s].last_cs, unit[s].req_l, unit[s].data_ok} \subseteq BOOLEAN
        BY <4>3
      <4> QED BY <2>1, <4>1, <4>2, <4>3, <4>4 DEF RamTyped
    <3>3. RamIdle(s, unit[s]) \/ RamErases(s, unit[s])
      BY <2>1, <3>1 DEF RamIdle, RamErases, RamReset, Wipes
    <3>4. RamInv(s, unit[s])
      BY <2>1, <3>2, <3>3 DEF RamInv
    <3> QED BY <2>5, <3>4 DEF SlotInv
  <2>6. CASE Kind(s) = "none"
    BY <2>1, <2>6 DEF SlotInv
  <2> QED BY <1>1, <2>2, <2>3, <2>4, <2>5, <2>6, SetupTyped
<1>5. MemInv
  <2>1. /\ mem \in [Cells -> Vals \cup {0}] /\ latest \in [Cells -> Vals \cup {0}]
        /\ EraseBsy => latest = [a \in Cells |-> 0]
    BY <1>1
  <2>2. \A s \in Slots : ~ client[s].cs
    BY <1>1
  <2>3. ASSUME NEW a \in Cells, mem[a] # latest[a]
        PROVE  \E s \in Slots : Erases(s) /\ ~ Wiped(s, a)
    <3>1. PICK s \in Slots : Kind(s) = "ram" /\ ~ unit[s].erased
      BY <1>1, <2>3 DEF EraseBsy
    <3>2. unit[s] = RamReset(s \in setup.erase)
      BY <1>1, <3>1 DEF ResetOf
    <3>3. s \in setup.erase /\ unit[s].erase_cnt = 0
      <4>1. unit[s].erased <=> s \notin setup.erase
        BY <3>2, RamFresh
      <4>2. unit[s].erase_cnt = 0
        BY <3>2 DEF RamReset
      <4> QED BY <3>1, <4>1, <4>2
    <3>4. ~ (a < 0)
      BY <2>3, SetupsAssumption DEF Cells
    <3> QED BY <3>1, <3>3, <3>4 DEF Erases, Wiped
  <2> QED BY <2>1, <2>2, <2>3 DEF MemInv
<1> QED BY <1>1, <1>2, <1>3, <1>4, <1>5 DEF IInv

(* Every clock of the slots, the selector, the bank and the clients keeps it. *)
LEMMA InvStep == IInv /\ [Next]_vars => IInv'
<1> SUFFICES ASSUME IInv, [Next]_vars PROVE IInv'
  OBVIOUS
<1>1. CASE UNCHANGED vars
  <2>1. /\ setup' = setup /\ client' = client /\ steady' = steady /\ unit' = unit
        /\ ctl' = ctl /\ port' = port /\ mem' = mem /\ latest' = latest
        /\ made' = made /\ seen' = seen
    BY <1>1 DEF vars, history
  <2>2. /\ ClientTyped' /\ BankInv' /\ (setup \in Setups)'
    BY <2>1 DEF IInv, ClientTyped, BankInv, Long, Len, IsRom, Kind
  <2>4. MemInv'
    BY <2>1 DEF IInv, MemInv, EraseBsy, Erases, Wiped, Mine, Kind, Cells
  <2>3. ASSUME NEW s \in Slots PROVE SlotInv(s)'
    <3>1. SlotInv(s)
      BY DEF IInv
    <3>2. Kind(s)' = Kind(s) /\ In(s)'.a = In(s).a
      BY <2>1 DEF Kind, In
    <3>3. LineInv(s, unit[s]) => LineInv(s, unit[s])'
      <4>1. Hit(unit[s], In(s))' <=> Hit(unit[s], In(s))
        BY <2>1, <3>2 DEF Hit, LineOf
      <4> QED BY <2>1, <4>1 DEF LineInv, LineTyped, LineKept, LineFill, LineRead, LineWait,
            LineData, LineOf, Len, Mine, Rom
    <3>4. BlockInv(s, unit[s]) => BlockInv(s, unit[s])'
      BY <2>1 DEF BlockInv, BlockFill, Kept, Half, BlockData, Mine, Rom, Neighbour
    <3>5. Kind(s) = "word" /\ WordInv(s, unit[s]) => WordInv(s, unit[s])'
      <4>1. Match(unit[s], In(s))' = Match(unit[s], In(s))
        BY <2>1, <3>2 DEF Match
      <4>2. Kind(s) = "word" => (Answered(s)' <=> Answered(s))
        BY <2>1 DEF Answered, Ok, Registered, Kind
      <4> QED BY <2>1, <4>1, <4>2 DEF WordInv, WordTyped, WordKept, WordFill, Mine, Rom
    <3>6. RamInv(s, unit[s]) => RamInv(s, unit[s])'
      BY <2>1 DEF RamInv, RamTyped, RamErases, RamEnds, Wipes, RamIdle, RamRises, RamWaits,
            RamWorks, RamTold, Mine, Cells
    <3> QED BY <2>1, <3>1, <3>2, <3>3, <3>4, <3>5, <3>6 DEF SlotInv
  <2> QED BY <2>2, <2>3, <2>4 DEF IInv
<1>2. CASE Next
  <2>1. /\ ClientTyped' /\ BankInv' /\ (setup \in Setups)'
        /\ MemInv'
    BY <1>2, ClientsTyped, BankStep, MemStep DEF Next, IInv
  <2>2. ASSUME NEW s \in Slots PROVE SlotInv(s)'
    <3>1. setup' = setup
      BY <1>2 DEF Next
    <3> QED BY <1>2, <3>1, LineSlotStep, BlockSlotStep, WordSlotStep, RamSlotStep, NoneSlotStep DEF SlotInv, Kind
  <2> QED BY <2>1, <2>2 DEF IInv
<1> QED BY <1>1, <1>2

-----------------------------------------------------------------------------
(* The invariant of the slots holds in every reachable state.              *)
THEOREM SlotsInvariance == Spec => []IInv
BY InvInit, InvStep, PTL DEF Spec

(* Whatever the clients do, what a large cache or a buffer keeps is what   *)
(* the ROM holds at the place where it is looked for, and so is the part of *)
(* a line that has come; of a small cache it holds if its client waits.    *)
THEOREM CachesHoldRom == Spec => []CachesRight
<1>1. IInv => CachesRight
  <2> SUFFICES ASSUME IInv PROVE CachesRight
    OBVIOUS
  <2>1. ASSUME NEW s \in Slots, Kind(s) = "line", NEW x \in Index, unit[s].valid[x]
        PROVE  /\ IndexOf(unit[s].tags[x]) = x
               /\ unit[s].data[x] = [k \in 0 .. setup.len - 1 |-> Rom(unit[s].tags[x] * setup.len + k)]
    <3>1. SlotInv(s)
      BY DEF IInv
    <3>2. LineKept(unit[s])
      BY <2>1, <3>1 DEF SlotInv, LineInv
    <3> QED BY <2>1, <3>2 DEF LineKept, LineData, Len
  <2>4. ASSUME NEW s \in Slots, Kind(s) = "line", unit[s].receiving, NEW k \in 0 .. unit[s].beat - 1
        PROVE  unit[s].fill[k] = Rom(unit[s].fill_line * setup.len + k)
    <3>1. SlotInv(s)
      BY DEF IInv
    <3>2. LineFill(s, unit[s]) /\ port.n \in Nat
      BY <2>4, <3>1 DEF SlotInv, LineInv, IInv, BankInv
    <3>3. Mine(s) /\ unit[s].filling /\ port.n > 4 /\ unit[s].beat = port.n - 4
      BY <2>4, <3>2 DEF LineFill
    <3>4. k \in 0 .. port.n - 5
      BY <2>4, <3>2, <3>3
    <3> QED BY <3>2, <3>3, <3>4 DEF LineFill, Len
  <2>2. ASSUME NEW s \in Slots, Kind(s) = "block", s \notin ctl.sel, NEW e \in 1..2, unit[s].good[e]
        PROVE  unit[s].data[e] = <<Rom(2 * unit[s].block[e]), Rom(2 * unit[s].block[e] + 1)>>
    <3>1. SlotInv(s)
      BY DEF IInv
    <3>2. Kept(unit[s], 1) /\ Kept(unit[s], 2)
      BY <2>2, <3>1 DEF SlotInv, BlockInv, BlockFill, Mine
    <3> QED BY <2>2, <3>2 DEF Kept, BlockData
  <2>3. ASSUME NEW s \in Slots, Kind(s) = "word", setup.client[s] = "hold",
               NEW e \in Entries, unit[s].valid[e]
        PROVE  unit[s].dmem[e] = Rom(unit[s].amem[e])
    <3>1. SlotInv(s)
      BY DEF IInv
    <3> QED BY <2>3, <3>1 DEF SlotInv, WordInv, WordKept
  <2> QED BY <2>1, <2>2, <2>3, <2>4 DEF CachesRight
<1> QED BY <1>1, SlotsInvariance, PTL

(* What an answered client reads is the half-word that it asked for.       *)
LEMMA LineAnswer ==
  ASSUME IInv, NEW s \in Slots, Kind(s) = "line", Served_fit(s), Answered(s)
  PROVE  Dout(s) = Rom(client[s].a)
<1> DEFINE c == unit[s]
           i == In(s)
           a == client[s].a
<1>1. /\ LineTyped(c) /\ LineKept(c) /\ LineRead(s, c) /\ LineWait(s, c)
      /\ Len \in {2, 4} /\ a \in Nat /\ i.a = a /\ c.read \in Nat
  <2>1. SlotInv(s)
    BY DEF IInv
  <2>2. LineInv(s, c)
    BY <2>1 DEF SlotInv
  <2> QED BY <2>2, SetupTyped DEF IInv, LineInv, ClientTyped, In, LineTyped
<1>2. ASSUME NEW l \in Nat, l = LineOf(a)
      PROVE  LineData(l)[a % Len] = Rom(a)
  <2>1. a % Len \in 0 .. Len - 1 /\ l * Len + (a % Len) = a
    BY <1>1, <1>2, LinePlace DEF LineOf, Len
  <2> QED BY <2>1 DEF LineData
<1>3. LineOf(a) \in Nat
  BY <1>1, LinePlace DEF LineOf, Len
<1>4. DataOk(c, i) /\ Dout(s) = LineDout(c, i)
  BY DEF Answered, Ok, Dout
<1>5. CASE setup.tag_ram
  <2>1. s \in steady /\ c.read = a
    BY <1>1, <1>5 DEF Answered, Registered, LineRead
  <2>2. (Hit(c, i) /\ HitHeld(c, i)) \/ (c.fill_ok /\ FillMatch(c))
    BY <1>4, <1>5 DEF DataOk
  <2>3. Dout(s) = (IF c.fill_ok THEN c.fill ELSE c.q)[a % Len]
    BY <1>4, <1>5, <2>1 DEF LineDout, Len
  <2>4. CASE c.fill_ok
    <3>1. c.fill = LineData(c.fill_line) /\ c.fill_line = LineOf(a)
      BY <1>1, <2>1, <2>2, <2>4 DEF LineRead, HitHeld, FillMatch
    <3> QED BY <1>2, <1>3, <2>3, <2>4, <3>1
  <2>5. CASE ~ c.fill_ok
    <3>1. c.q = LineData(c.tag_q) /\ c.tag_q = LineOf(a)
      BY <1>1, <1>5, <2>1, <2>2, <2>5 DEF LineRead, Hit
    <3> QED BY <1>2, <1>3, <2>3, <2>5, <3>1
  <2> QED BY <2>4, <2>5
<1>6. CASE ~ setup.tag_ram
  <2>1. setup.client[s] = "hold"
    BY <1>6 DEF Served_fit
  <2>2. Hit(c, i) /\ (c.fill_ok \/ HitHeld(c, i))
    BY <1>4, <1>6 DEF DataOk
  <2>3. Dout(s) = (IF c.fill_ok THEN c.fill ELSE c.q)[a % Len]
    BY <1>1, <1>4, <1>6 DEF LineDout, Len
  <2>4. CASE c.fill_ok
    <3>1. c.fill = LineData(c.fill_line) /\ c.fill_line = LineOf(a)
      BY <1>1, <1>6, <2>1, <2>4 DEF LineRead, LineWait
    <3> QED BY <1>2, <1>3, <2>3, <2>4, <3>1
  <2>5. CASE ~ c.fill_ok
    <3>1. c.hit_l /\ LineOf(a) = LineOf(c.read)
      BY <1>1, <2>2, <2>5 DEF HitHeld
    <3>2. c.q = LineData(c.tag_q) /\ c.tag_q = LineOf(a)
      BY <1>1, <1>6, <3>1 DEF LineRead
    <3> QED BY <1>2, <1>3, <2>3, <2>5, <3>2
  <2> QED BY <2>4, <2>5
<1> QED BY <1>5, <1>6

(* A block cache that says ok shows the word its client asked for. *)
LEMMA BlockAnswer ==
  ASSUME IInv, NEW s \in Slots, Kind(s) = "block", Answered(s)
  PROVE  Dout(s) = Rom(client[s].a)
<1> DEFINE b == unit[s]
           i == In(s)
           a == client[s].a
<1>1. BlockFill(s, b) /\ a \in Nat /\ i.a = a
  <2>1. SlotInv(s)
    BY DEF IInv
  <2>2. BlockInv(s, b)
    BY <2>1 DEF SlotInv
  <2> QED BY <2>2 DEF IInv, BlockInv, ClientTyped, In
<1>2. BlockOk(b, i) /\ Dout(s) = BlockDout(b, i)
  BY DEF Answered, Ok, Dout
<1>3. Kept(b, 1) /\ Kept(b, 2)
  BY <1>1, <1>2 DEF BlockFill, BlockOk
<1>4. ASSUME NEW e \in 1..2, Hits(b, i)[e], Dout(s) = b.data[e][(a % 2) + 1]
      PROVE  Dout(s) = Rom(a)
  <2>1. b.good[e] /\ b.block[e] = BlockOf(a)
    BY <1>1, <1>4 DEF Hits
  <2>2. b.data[e] = <<Rom(2 * BlockOf(a)), Rom(2 * BlockOf(a) + 1)>>
    BY <1>3, <1>4, <2>1 DEF Kept, BlockData
  <2>3. \/ a % 2 = 0 /\ 2 * BlockOf(a) = a
        \/ a % 2 = 1 /\ 2 * BlockOf(a) + 1 = a
    BY <1>1 DEF BlockOf
  <2>4. CASE a % 2 = 0 /\ 2 * BlockOf(a) = a
    BY <1>4, <2>2, <2>4
  <2>5. CASE a % 2 = 1 /\ 2 * BlockOf(a) + 1 = a
    BY <1>4, <2>2, <2>5
  <2> QED BY <2>3, <2>4, <2>5
<1>5. CASE Hits(b, i)[1]
  BY <1>1, <1>2, <1>4, <1>5 DEF BlockDout
<1>6. CASE ~ Hits(b, i)[1]
  <2>1. Hits(b, i)[2]
    BY <1>2, <1>6 DEF BlockOk, AnyHit
  <2> QED BY <1>1, <1>2, <1>4, <1>6, <2>1 DEF BlockDout
<1> QED BY <1>5, <1>6

(* Every answer to a client that keeps to its cache's rules is the         *)
(* half-word it asked for, for any number of slots that share the bank.    *)
THEOREM AnswersAreRight == Spec => []AnswersRight
<1>1. IInv => AnswersRight
  <2> SUFFICES ASSUME IInv, NEW s \in Slots, Kind(s) # "ram", Served_fit(s), Answered(s)
               PROVE  Dout(s) = Rom(client[s].a)
    BY DEF AnswersRight, Right
  <2>1. SlotInv(s) /\ Kind(s) \in {"line", "block", "word", "none"}
    BY SetupTyped DEF IInv
  <2>2. CASE Kind(s) = "word"
    <3>1. setup.client[s] = "hold" /\ client[s].cs /\ unit[s].ok /\ s \in steady
      BY <2>2 DEF Served_fit, Answered, Ok, Registered
    <3>2. unit[s].dout = Rom(client[s].a)
      BY <2>1, <2>2, <3>1 DEF SlotInv, WordInv, WordFill
    <3> QED BY <2>2, <3>2 DEF Dout
  <2>3. Kind(s) # "none"
    BY <2>1 DEF SlotInv, Answered
  <2> QED BY <2>1, <2>2, <2>3, LineAnswer, BlockAnswer
<1> QED BY <1>1, SlotsInvariance, PTL

(* The RAM slots of a bank, however many, act as one memory that changes   *)
(* at one instant: an answered write has been made and no write is lost or *)
(* made twice, and a read returns what its cell held since it was asked    *)
(* for, 0 at first where a RAM is erased.                                  *)
THEOREM RamReadsTheLatest == Spec => []RamLatest
<1>1. IInv => RamLatest
  <2> SUFFICES ASSUME IInv, NEW s \in Slots, Kind(s) = "ram", Answered(s)
               PROVE  IF client[s].wr THEN s \in made ELSE Dout(s) \in seen[s]
    BY DEF RamLatest
  <2>1. client[s].cs /\ unit[s].data_ok /\ Dout(s) = unit[s].dout
    BY DEF Answered, Ok, Dout
  <2>2. RamTold(s, unit[s])
    BY <2>1, RamPhases DEF RamErases, RamEnds, RamIdle, RamRises, RamWaits, RamWorks
  <2> QED BY <2>1, <2>2 DEF RamTold
<1> QED BY <1>1, SlotsInvariance, PTL
=============================================================================
