--------------------------- MODULE Sdram64Proofs ---------------------------
(***************************************************************************)
(* Every bank of the controller of the slot-based cores gets and stores    *)
(* what its requester asked for, for every number of banks, every length   *)
(* of their bursts, every choice of auto-precharge and any addresses, and  *)
(* the controller keeps the rules and the times of the chip.               *)
(***************************************************************************)
EXTENDS Sdram64Invariant, TLAPS

(* The clocks of a bank's states, in the order in which an access passes.  *)
LEMMA Clocks64 ==
  ASSUME NEW b \in Banks, fast \in BOOLEAN
  PROVE  /\ IDLE = 0 /\ PRE_ACT \in 1..2 /\ ACT = PRE_ACT + 1 /\ (fast <=> PRE_ACT = 2)
         /\ PRE_RD \in ACT .. ACT + 1 /\ (fast => PRE_RD = ACT + 1) /\ READ = PRE_RD + 1
         /\ DST = READ + 2 /\ BUSY = DST + BurstLen - 1 /\ Last(b) = DST + LenOf(b) - 1
         /\ LenOf(b) \in {1, 2, 4} /\ BurstLen \in {1, 2, 4} /\ LenOf(b) <= BurstLen
         /\ STW(Geo(b)) = BUSY + 1 + (IF b \in auto THEN 1 ELSE 0)
         /\ Geo(b).len = LenOf(b) /\ (Geo(b).auto <=> b \in auto)
<1>1. /\ BurstLen \in {1, 2, 4} /\ LenOf(b) \in {1, 2, 4} /\ LenOf(b) <= BurstLen
  BY Sdram64Assumption DEF LenOf
<1>2. Geo(b).len = LenOf(b) /\ (Geo(b).auto <=> b \in auto)
  BY DEF Geo
<1> QED BY <1>1, <1>2 DEF IDLE, PRE_ACT, ACT, PRE_RD, READ, DST, BUSY, Last, RDY, STW

(* What a clock leaves in the registers of a bank.                         *)
LEMMA Registers ==
  ASSUME NEW b \in Banks, BanksStep
  PROVE  LET s == bank[b]
             n == bank'[b]
             shut == Closes(b) \/ RfshBg \/ (Transfers(b) /\ Geo(b).auto)
             Window(on, first, last) == n.st = first \/ (on /\ s.st # last /\ ~ n.st < first)
         IN /\ n.st = NextSt(Geo(b), s, In(b))
            /\ n.row = IF Opens(b) THEN RowOf(Seen(b).a) ELSE s.row
            /\ n.prechd = (shut \/ (s.prechd /\ ~ Opens(b)))
            /\ n.actd = (~ shut /\ (s.actd \/ Opens(b)))
            /\ n.last_act = Opens(b)
            /\ n.post_act = (Opens(b) \/ s.last_act)
            /\ n.written = IF Transfers(b) THEN wrl[b] ELSE s.written /\ s.st # IDLE
            /\ n.in_busy = Window(s.in_busy, READ, IF Geo(b).len = 1 THEN READ + 1
                                                   ELSE Last(b) - 2)
            /\ n.in_busy64 = Window(s.in_busy64, READ, BUSY)
            /\ n.dqm_busy = Window(s.dqm_busy, READ, Last(b) - 2)
            /\ n.dok = Window(s.dok, DST, Last(b))
            /\ n.br = (fast /\ Asks(s, In(b), n.st))
<1>1. bank'[b] = BankStep(Geo(b), bank[b], In(b), RowOf(Seen(b).a))
  BY DEF BanksStep
<1>2. In(b).setp = RfshBg /\ In(b).wr = wrl[b]
  BY DEF In, Sees
<1> QED BY <1>1, <1>2 DEF BankStep, Closes, Opens, Transfers, Last

-----------------------------------------------------------------------------
(* What a bank does with the bus.                                          *)
Wanted(b) == Seen(b).rd \/ wrl[b]
Masking   == \E c \in Banks : bank[c].dqm_busy

LEMMA Forms ==
  ASSUME NEW b \in Banks
  PROVE  /\ Closes(b) <=> /\ Granted(b) /\ bank[b].st = IDLE /\ Wanted(b) /\ ~ bank[b].prechd
                          /\ ~ (Seen(b).match /\ bank[b].actd /\ ~ (b \in auto))
         /\ Opens(b) <=> /\ Granted(b) /\ ~ (\E c \in Banks : bank[c].post_act) /\ ~ Masking
                         /\ \/ bank[b].st = IDLE /\ Wanted(b) /\ bank[b].prechd /\ ~ bank[b].actd
                            \/ bank[b].st = PRE_ACT
         /\ Transfers(b) <=>
              /\ Granted(b) /\ ~ out.dbusy /\ (~ out.dbusy64 \/ Seen(b).rd) /\ ~ Masking
              /\ \/ /\ bank[b].st = IDLE /\ Wanted(b)
                    /\ Seen(b).match /\ bank[b].actd /\ ~ (b \in auto)
                 \/ bank[b].st = PRE_RD
<1>1. /\ In(b).bg = Granted(b) /\ In(b).rd = Seen(b).rd /\ In(b).wr = wrl[b]
      /\ In(b).match = Seen(b).match /\ In(b).dbusy = out.dbusy /\ In(b).dbusy64 = out.dbusy64
      /\ In(b).dqm = Masking /\ In(b).act = (\E c \in Banks : bank[c].post_act)
  BY DEF In, Sees, Masking
<1>2. Geo(b).auto = (b \in auto)
  BY DEF Geo
<1>3. Wants(In(b)) = Wanted(b)
  BY <1>1 DEF Wants, Wanted
<1>4. RowMatch(Geo(b), bank[b], In(b)) = (Seen(b).match /\ bank[b].actd /\ ~ (b \in auto))
  BY <1>1, <1>2 DEF RowMatch
<1>5. Closes(b) <=> /\ Granted(b) /\ bank[b].st = IDLE /\ Wanted(b) /\ ~ bank[b].prechd
                    /\ ~ (Seen(b).match /\ bank[b].actd /\ ~ (b \in auto))
  BY <1>1, <1>3, <1>4 DEF Closes, DoPrech
<1>6. Opens(b) <=> /\ Granted(b) /\ ~ (\E c \in Banks : bank[c].post_act) /\ ~ Masking
                   /\ \/ bank[b].st = IDLE /\ Wanted(b) /\ bank[b].prechd /\ ~ bank[b].actd
                      \/ bank[b].st = PRE_ACT
  BY <1>1, <1>3 DEF Opens, DoAct
<1>7. Transfers(b) <=>
        /\ Granted(b) /\ ~ out.dbusy /\ (~ out.dbusy64 \/ Seen(b).rd) /\ ~ Masking
        /\ \/ /\ bank[b].st = IDLE /\ Wanted(b)
              /\ Seen(b).match /\ bank[b].actd /\ ~ (b \in auto)
           \/ bank[b].st = PRE_RD
  BY <1>1, <1>3, <1>4 DEF Transfers, DoRead
<1> QED BY <1>5, <1>6, <1>7

(* A bank that is granted the bus may use it.                              *)
LEMMA Grants ==
  ASSUME NEW b \in Banks, Granted(b), RefreshInv, GrantInv(b)
  PROVE  /\ ~ rfsh.rfshing
         /\ bank[b].st = IDLE => ~ rfsh.help
         /\ bank[b].st = PRE_RD /\ ~ Masking => ~ out.dbusy /\ (out.dbusy64 => ~ wrl[b])
         /\ \A c \in Banks : Granted(c) => c = b
<1>1. ~ rfsh.rfshing /\ Br(bank[b], Sees(b))
  BY DEF Granted
<1>2. fast \in BOOLEAN
  BY RefreshAssumption DEF RefreshInv
<1>3. ASSUME NEW c \in Banks, Granted(c) PROVE c = b
  <2>1. b \in 0..3 /\ c \in 0..3
    BY Sdram64Assumption
  <2>2. ~ (c < b) /\ ~ (b < c)
    BY <1>1, <1>3 DEF Granted
  <2> QED BY <2>1, <2>2
<1>4. CASE fast
  <2>1. bank[b].br
    BY <1>1, <1>4 DEF Br
  <2> QED BY <2>1, <1>4, <1>1, <1>3 DEF GrantInv, RefreshInv, Masking
<1>5. CASE ~ fast
  <2>1. Asks(bank[b], Sees(b), bank[b].st)
    BY <1>1, <1>5 DEF Br
  <2>2. PRE_ACT # IDLE /\ PRE_RD # IDLE
    BY <1>5 DEF IDLE, PRE_ACT, PRE_RD
  <2>3. Sees(b).help = rfsh.help /\ Sees(b).dbusy = out.dbusy /\ Sees(b).dbusy64 = out.dbusy64
        /\ Sees(b).wr = wrl[b]
    BY DEF Sees
  <2> QED BY <2>1, <2>2, <2>3, <1>1, <1>3 DEF Asks
<1> QED BY <1>2, <1>4, <1>5

(* Where a clock takes a bank: to the state of the command it issues, and  *)
(* without a command on, unless it waits for the bus.                      *)
Advances(b) ==
  LET s == bank[b].st
      t == bank'[b].st
      ends == s = READ /\ wrl[b] /\ ~ (b \in auto)
  IN /\ Transfers(b) => t = READ /\ (s = IDLE \/ s = PRE_RD) /\ ~ Opens(b) /\ ~ Closes(b)
     /\ Opens(b) => t = ACT /\ (s = IDLE \/ s = PRE_ACT) /\ ~ Closes(b)
     /\ Closes(b) => t = 1 /\ s = IDLE
     /\ \/ Transfers(b) \/ Opens(b) \/ Closes(b)
        \/ s \in {IDLE, PRE_ACT, PRE_RD} /\ t = s
        \/ ends /\ t = IDLE
        \/ /\ s \notin {IDLE, PRE_ACT, PRE_RD} /\ ~ ends
           /\ t = IF s + 1 = STW(Geo(b)) THEN IDLE ELSE s + 1

LEMMA BankMoves ==
  ASSUME NEW b \in Banks, Typed, RefreshInv, GrantInv(b), WorkInv(b), BanksStep
  PROVE  Advances(b)
<1> DEFINE s == bank[b].st
           t == bank'[b].st
           ends == s = READ /\ wrl[b] /\ ~ (b \in auto)
<1>0. fast \in BOOLEAN
  BY RefreshAssumption DEF RefreshInv
<1>1. t = NextSt(Geo(b), bank[b], In(b))
  BY Registers
<1>2. /\ In(b).bg = Granted(b) /\ In(b).help = rfsh.help /\ In(b).wr = wrl[b]
      /\ In(b).dqm = Masking /\ In(b).act = (\E c \in Banks : bank[c].post_act)
      /\ Geo(b).auto = (b \in auto)
  BY DEF In, Sees, Masking, Geo
<1>3. /\ IDLE = 0 /\ PRE_ACT \in 1..2 /\ ACT = PRE_ACT + 1 /\ PRE_RD \in ACT .. ACT + 1
      /\ READ = PRE_RD + 1 /\ STW(Geo(b)) \in Nat /\ READ + 2 < STW(Geo(b))
  BY <1>0, Clocks64
<1>4. s \in Nat /\ s < STW(Geo(b))
  BY DEF Typed, BankRegs
<1>5. t = (CASE ends -> IDLE
             [] s = IDLE /\ ~ rfsh.help ->
                  IF Transfers(b) THEN READ
                  ELSE IF Opens(b) THEN ACT ELSE IF Closes(b) THEN 1 ELSE IDLE
             [] s = IDLE /\ rfsh.help -> IDLE
             [] s # IDLE /\ ~ ends ->
                  IF Rotates(bank[b], In(b)) THEN (s + 1) % STW(Geo(b)) ELSE s)
  BY <1>1, <1>2 DEF NextSt, Transfers, Opens, Closes
<1>6. Granted(b) => /\ s = IDLE => ~ rfsh.help
                    /\ s = PRE_RD /\ ~ Masking => ~ out.dbusy /\ (out.dbusy64 => ~ wrl[b])
  BY Grants
<1>7. /\ Closes(b) => Granted(b) /\ s = IDLE /\ ~ Opens(b) /\ ~ Transfers(b)
      /\ Opens(b) => Granted(b) /\ (s = IDLE \/ s = PRE_ACT) /\ ~ Transfers(b)
      /\ Transfers(b) => Granted(b) /\ (s = IDLE \/ s = PRE_RD)
  BY <1>3, Forms
<1>8. (s + 1) % STW(Geo(b)) = IF s + 1 = STW(Geo(b)) THEN IDLE ELSE s + 1
  BY <1>3, <1>4
<1>9. CASE s = IDLE
  BY <1>3, <1>5, <1>6, <1>7, <1>9 DEF Advances
<1>10. CASE s = PRE_ACT
  <2>1. Rotates(bank[b], In(b)) <=> Opens(b)
    BY <1>2, <1>3, <1>10, Forms DEF Rotates
  <2> QED BY <2>1, <1>3, <1>5, <1>7, <1>8, <1>10 DEF Advances
<1>11. CASE s = PRE_RD
  <2>1. Rotates(bank[b], In(b)) <=> Granted(b) /\ ~ Masking
    BY <1>2, <1>3, <1>11 DEF Rotates
  <2>2. Seen(b).rd = ~ wrl[b]
    BY <1>3, <1>11 DEF WorkInv, Within
  <2>3. Transfers(b) <=> Granted(b) /\ ~ Masking
    BY <2>2, <1>3, <1>6, <1>11, Forms
  <2> QED BY <2>1, <2>3, <1>3, <1>5, <1>7, <1>8, <1>11 DEF Advances
<1>12. CASE s \notin {IDLE, PRE_ACT, PRE_RD}
  <2>1. Rotates(bank[b], In(b))
    BY <1>12 DEF Rotates
  <2> QED BY <2>1, <1>3, <1>5, <1>7, <1>8, <1>12 DEF Advances
<1> QED BY <1>9, <1>10, <1>11, <1>12

-----------------------------------------------------------------------------
(* What a clock does to a requester.                                       *)
Answers(b) == IF bank[b].written /\ ~ (b \in auto) THEN bank[b].st = READ
              ELSE bank[b].st = Last(b)

SlotsNext == \E ask \in SUBSET {b \in Banks : Free(b)} :
               \E asked \in Requests(ask) : SlotsStep(asked)

SlotMove(b) ==
  IF Free(b) THEN slots'[b].st \in {"IDLE", "ASK"} /\ slots'[b].n = 0
  ELSE /\ slots'[b].st = IF bank[b].st = READ THEN "WAIT" ELSE slots[b].st
       /\ slots'[b].wr = slots[b].wr /\ slots'[b].a = slots[b].a
       /\ slots'[b].n = IF Moves(b) THEN slots[b].n + 1 ELSE slots[b].n

LEMMA SlotMoves ==
  ASSUME Typed, SlotsNext
  PROVE  /\ \A b \in Banks : SlotMove(b)
         /\ slots' \in [Banks -> [st : {"IDLE", "ASK", "WAIT"}, wr : BOOLEAN,
                                  a : Addrs \cup {0}, n : Nat]]
<1>1. PICK ask \in SUBSET {b \in Banks : Free(b)} :
        \E asked \in Requests(ask) : SlotsStep(asked)
  BY DEF SlotsNext
<1>2. PICK asked \in [ask -> [wr : BOOLEAN, a : Addrs]] : SlotsStep(asked)
  BY <1>1 DEF Requests
<1>3. \A b \in Banks : slots'[b] =
        IF b \in ask THEN [st |-> "ASK", wr |-> asked[b].wr, a |-> asked[b].a, n |-> 0]
        ELSE IF Free(b) THEN [slots[b] EXCEPT !.st = "IDLE", !.wr = FALSE, !.n = 0]
        ELSE [slots[b] EXCEPT !.st = IF bank[b].st = READ THEN "WAIT" ELSE @,
                              !.n = IF Moves(b) THEN @ + 1 ELSE @]
  BY <1>2 DEF SlotsStep, Ack
<1>4. \A b \in Banks : slots[b] \in [st : {"IDLE", "ASK", "WAIT"}, wr : BOOLEAN,
                                     a : Addrs \cup {0}, n : Nat]
  BY DEF Typed
<1>5. \A b \in ask : asked[b] \in [wr : BOOLEAN, a : Addrs] /\ Free(b)
  BY <1>2
<1>6. ASSUME NEW b \in Banks
      PROVE  /\ SlotMove(b)
             /\ slots'[b] \in [st : {"IDLE", "ASK", "WAIT"}, wr : BOOLEAN,
                               a : Addrs \cup {0}, n : Nat]
  <2>0. slots[b] \in [st : {"IDLE", "ASK", "WAIT"}, wr : BOOLEAN, a : Addrs \cup {0}, n : Nat]
    BY <1>4
  <2>1. CASE b \in ask
    <3>1. slots'[b] = [st |-> "ASK", wr |-> asked[b].wr, a |-> asked[b].a, n |-> 0]
      BY <1>3, <2>1
    <3> QED BY <3>1, <1>5, <2>1 DEF SlotMove
  <2>2. CASE b \notin ask /\ Free(b)
    <3>1. slots'[b] = [slots[b] EXCEPT !.st = "IDLE", !.wr = FALSE, !.n = 0]
      BY <1>3, <2>2
    <3>2. slots'[b] = [st |-> "IDLE", wr |-> FALSE, a |-> slots[b].a, n |-> 0]
      BY <3>1, <2>0
    <3> QED BY <3>2, <2>0, <2>2 DEF SlotMove
  <2>3. CASE b \notin ask /\ ~ Free(b)
    <3>1. slots'[b] = [slots[b] EXCEPT !.st = IF bank[b].st = READ THEN "WAIT" ELSE @,
                                       !.n = IF Moves(b) THEN @ + 1 ELSE @]
      BY <1>3, <2>3
    <3>2. slots'[b] = [st |-> IF bank[b].st = READ THEN "WAIT" ELSE slots[b].st,
                       wr |-> slots[b].wr, a |-> slots[b].a,
                       n |-> IF Moves(b) THEN slots[b].n + 1 ELSE slots[b].n]
      BY <3>1, <2>0
    <3> QED BY <3>2, <2>0, <2>3 DEF SlotMove
  <2> QED BY <2>1, <2>2, <2>3
<1>7. slots' = [b \in Banks |-> slots'[b]]
  BY <1>2 DEF SlotsStep
<1> QED BY <1>6, <1>7

(* What a bank sees after the clock, and what it has told.                 *)
LEMMA Signals ==
  ASSUME NEW b \in Banks, fast' = fast, LatchStep, OutStep
  PROVE  /\ Seen(b)'.rd = IF fast THEN Rd(b) ELSE Rd(b)'
         /\ Seen(b)'.wr = IF fast THEN Wr(b) /\ ~ Answers(b) ELSE Wr(b)'
         /\ Seen(b)'.a = IF fast THEN slots[b].a ELSE slots'[b].a
         /\ fast => latch'[b].match = (RowOf(slots[b].a) = bank[b].row)
         /\ wrl'[b] = (Seen(b).wr /\ ~ Answers(b))
         /\ out'.rdy[b] = Answers(b) /\ out'.dok[b] = bank[b].dok
<1>1. Rdy(Geo(b), bank[b]) = Answers(b)
  BY DEF Rdy, Answers, Geo, Last, RDY
<1>2. CASE fast
  <2>1. latch'[b] = [Asked(b) EXCEPT !.wr = @ /\ ~ Rdy(Geo(b), bank[b])]
    BY <1>2 DEF LatchStep
  <2>2. latch'[b].wr = (Wr(b) /\ ~ Answers(b))
    BY <1>1, <2>1 DEF Asked
  <2> QED BY <1>1, <1>2, <2>1, <2>2 DEF LatchStep, OutStep, Seen, Asked
<1>3. CASE ~ fast
  BY <1>1, <1>3 DEF LatchStep, OutStep, Seen, Asked, Rd, Wr
<1> QED BY <1>2, <1>3

-----------------------------------------------------------------------------
(* What one bank does for its requester.                                   *)
Clock ==
  /\ BanksStep /\ LatchStep /\ OutStep /\ SlotsNext
  /\ fast' = fast /\ auto' = auto

(* A bank that takes or has taken a request, and has not answered it, sees *)
(* what its requester asks.                                                *)
LEMMA Works ==
  ASSUME NEW b \in Banks, IInv, Within(b, 1, READ) \/ (bank[b].st = IDLE /\ Wanted(b))
  PROVE  /\ slots[b].st = "ASK" /\ slots[b].n = 0 /\ ~ out.rdy[b] /\ ~ Free(b)
         /\ Seen(b).rd = ~ slots[b].wr /\ Seen(b).wr = slots[b].wr /\ wrl[b] = slots[b].wr
         /\ Seen(b).a = slots[b].a
         /\ bank[b].st # READ => ~ Moves(b)
<1>0. fast \in BOOLEAN /\ slots[b].wr \in BOOLEAN /\ wrl[b] \in BOOLEAN
      /\ latch[b] \in [rd : BOOLEAN, wr : BOOLEAN, a : Nat, match : BOOLEAN]
  BY RefreshAssumption DEF IInv, Typed, RefreshInv
<1>1. /\ IDLE = 0 /\ READ \in Nat /\ READ >= 3 /\ DST = READ + 2 /\ Last(b) >= DST
      /\ Last(b) \in Nat
  BY <1>0, Clocks64
<1>2. LatchInv(b) /\ WorkInv(b) /\ AnswerInv(b) /\ PinsInv
  BY DEF IInv
<1>3. CASE Within(b, 1, READ)
  <2>1. slots[b].st = "ASK" /\ slots[b].n = 0 /\ ~ out.rdy[b]
        /\ Seen(b).rd = ~ slots[b].wr /\ Seen(b).wr = slots[b].wr /\ wrl[b] = slots[b].wr
        /\ Seen(b).a = slots[b].a
    BY <1>2, <1>3 DEF WorkInv
  <2>2. ~ out.dok[b]
    BY <1>1, <1>2, <1>3 DEF AnswerInv, Within
  <2>3. bank[b].st # READ => ~ Moves(b)
    BY <2>2, <1>2 DEF Moves, PinsInv
  <2> QED BY <2>1, <2>3 DEF Free
<1>4. CASE bank[b].st = IDLE /\ Wanted(b)
  <2>1. /\ slots[b].st \in {"IDLE", "ASK"} /\ slots[b].n = 0
        /\ ~ out.rdy[b] /\ ~ out.dok[b]
    BY <1>2, <1>4 DEF AnswerInv, Wanted
  <2>2. wrl[b] => Asking(b, TRUE) /\ Seen(b).wr
    BY <1>0, <1>1, <1>2, <1>4 DEF LatchInv, Within, Asking
  <2>3. /\ Seen(b).rd => Asking(b, FALSE)
        /\ Seen(b).wr => Asking(b, TRUE)
        /\ Seen(b).rd \/ Seen(b).wr => Seen(b).a = slots[b].a
    <3>1. CASE fast
      BY <1>0, <1>1, <1>2, <1>4, <3>1 DEF LatchInv, Seen, Asking
    <3>2. CASE ~ fast
      BY <1>0, <3>2 DEF Seen, Asked, Rd, Wr, Asking
    <3> QED BY <3>1, <3>2
  <2>4. Seen(b).rd \in BOOLEAN /\ Seen(b).wr \in BOOLEAN
    BY <1>0 DEF Seen, Asked, Rd, Wr
  <2>5. /\ slots[b].st = "ASK" /\ Seen(b).rd = ~ slots[b].wr
        /\ Seen(b).wr = slots[b].wr /\ wrl[b] = slots[b].wr /\ Seen(b).a = slots[b].a
    BY <2>2, <2>3, <2>4, <1>0, <1>4 DEF Wanted, Asking
  <2>6. ~ Moves(b)
    BY <2>1, <1>1, <1>2, <1>4 DEF Moves, PinsInv
  <2> QED BY <2>1, <2>5, <2>6 DEF Free
<1> QED BY <1>3, <1>4

(* The facts about a bank and its registers that every step below needs.   *)
LEMMA Known ==
  ASSUME NEW b \in Banks, IInv
  PROVE  /\ fast \in BOOLEAN /\ slots[b].wr \in BOOLEAN /\ wrl[b] \in BOOLEAN
         /\ slots[b].st \in {"IDLE", "ASK", "WAIT"} /\ slots[b].n \in Nat /\ slots[b].a \in Nat
         /\ slots[b].a % BurstLen = 0
         /\ latch[b] \in [rd : BOOLEAN, wr : BOOLEAN, a : Nat, match : BOOLEAN]
         /\ Seen(b).rd \in BOOLEAN /\ Seen(b).wr \in BOOLEAN /\ Seen(b).a \in Nat
         /\ bank[b] \in BankRegs /\ bank[b].st \in Nat /\ bank[b].st < STW(Geo(b))
         /\ out.rdy[b] \in BOOLEAN /\ out.dok[b] \in BOOLEAN
         /\ out.dbusy \in BOOLEAN /\ out.dbusy64 \in BOOLEAN
<1>1. Addrs \cup {0} \subseteq Nat /\ \A a \in Addrs \cup {0} : a % BurstLen = 0
  BY Sdram64Assumption
<1>2. /\ fast \in BOOLEAN /\ slots[b].wr \in BOOLEAN /\ wrl[b] \in BOOLEAN
      /\ slots[b].st \in {"IDLE", "ASK", "WAIT"} /\ slots[b].n \in Nat
      /\ slots[b].a \in Addrs \cup {0}
      /\ latch[b] \in [rd : BOOLEAN, wr : BOOLEAN, a : Nat, match : BOOLEAN]
      /\ bank[b] \in BankRegs /\ bank[b].st < STW(Geo(b))
      /\ out.rdy[b] \in BOOLEAN /\ out.dok[b] \in BOOLEAN
      /\ out.dbusy \in BOOLEAN /\ out.dbusy64 \in BOOLEAN
  BY RefreshAssumption DEF IInv, Typed, RefreshInv
<1>3. Seen(b).rd \in BOOLEAN /\ Seen(b).wr \in BOOLEAN /\ Seen(b).a \in Nat
  BY <1>1, <1>2 DEF Seen, Asked, Rd, Wr
<1> QED BY <1>1, <1>2, <1>3 DEF BankRegs

(* A bank at work was at work, or has taken its request in this clock.     *)
LEMMA WorkStep ==
  ASSUME NEW b \in Banks, IInv, Clock, bank'[b].st \in 1..READ
  PROVE  /\ Within(b, 1, READ - 1) \/ (bank[b].st = IDLE /\ Wanted(b))
         /\ bank[b].st # READ /\ ~ Answers(b)
         /\ slots'[b] = slots[b] /\ Seen(b)'.wr = slots[b].wr /\ wrl'[b] = slots[b].wr
<1>0. bank[b].st \in Nat /\ fast \in BOOLEAN
  BY Known
<1>1. /\ IDLE = 0 /\ PRE_ACT \in 1..2 /\ ACT = PRE_ACT + 1 /\ PRE_RD \in ACT .. ACT + 1
      /\ READ = PRE_RD + 1 /\ Last(b) > READ /\ STW(Geo(b)) \in Nat
  BY <1>0, Clocks64
<1>2. Advances(b)
  BY BankMoves DEF IInv, Clock
<1>3. Transfers(b) \/ Opens(b) \/ Closes(b) => bank[b].st # IDLE \/ Wanted(b)
  BY Forms, <1>1
<1>4. Within(b, 1, READ - 1) \/ (bank[b].st = IDLE /\ Wanted(b))
  BY <1>0, <1>1, <1>2, <1>3 DEF Advances, Within
<1>5. bank[b].st # READ /\ ~ Answers(b)
  BY <1>1, <1>4 DEF Within, Answers
<1>6. Within(b, 1, READ) \/ (bank[b].st = IDLE /\ Wanted(b))
  BY <1>0, <1>1, <1>4 DEF Within
<1>7. SlotMove(b) /\ slots' \in [Banks -> [st : {"IDLE", "ASK", "WAIT"}, wr : BOOLEAN,
                                           a : Addrs \cup {0}, n : Nat]]
  BY SlotMoves DEF IInv, Clock
<1>8. slots \in [Banks -> [st : {"IDLE", "ASK", "WAIT"}, wr : BOOLEAN,
                           a : Addrs \cup {0}, n : Nat]]
  BY DEF IInv, Typed
<1>9. /\ slots'[b].st = slots[b].st /\ slots'[b].wr = slots[b].wr
      /\ slots'[b].a = slots[b].a /\ slots'[b].n = slots[b].n
  BY <1>5, <1>6, <1>7, Works DEF SlotMove
<1>10. slots'[b] = slots[b]
  BY <1>7, <1>8, <1>9
<1>11. Seen(b)'.wr = slots[b].wr /\ wrl'[b] = slots[b].wr
  BY <1>0, <1>5, <1>6, <1>10, Works, Signals, Known DEF Clock, Wr
<1> QED BY <1>4, <1>5, <1>10, <1>11

LEMMA NextWork ==
  ASSUME NEW b \in Banks, IInv, Clock
  PROVE  WorkInv(b)'
<1> SUFFICES ASSUME bank'[b].st \in 1..READ
             PROVE  /\ slots'[b].st = "ASK" /\ slots'[b].n = 0 /\ ~ out'.rdy[b]
                    /\ Seen(b)'.rd = ~ slots'[b].wr /\ wrl'[b] = slots'[b].wr
                    /\ Seen(b)'.wr = slots'[b].wr /\ Seen(b)'.a = slots'[b].a
  BY Known DEF WorkInv, Within, READ, PRE_RD, PRE_ACT, Clock
<1>1. /\ slots'[b] = slots[b] /\ ~ Answers(b) /\ Seen(b)'.wr = slots[b].wr
      /\ wrl'[b] = slots[b].wr
  BY WorkStep
<1>2. Within(b, 1, READ) \/ (bank[b].st = IDLE /\ Wanted(b))
  <2>1. Within(b, 1, READ - 1) \/ (bank[b].st = IDLE /\ Wanted(b))
    BY WorkStep
  <2>2. READ \in Nat
    BY Clocks64, Known
  <2> QED BY <2>1, <2>2 DEF Within
<1>3. slots[b].st = "ASK" /\ slots[b].n = 0 /\ slots[b].wr \in BOOLEAN
  BY <1>2, Works, Known
<1> QED BY <1>1, <1>3, Signals, Known DEF Clock, Rd

(* A requester that asks goes on asking, until its bank reads or writes.   *)
LEMMA AskKept ==
  ASSUME NEW b \in Banks, IInv, Clock, slots[b].st = "ASK", bank[b].st # READ
  PROVE  slots'[b].st = "ASK" /\ slots'[b].wr = slots[b].wr /\ slots'[b].a = slots[b].a
<1>1. ~ Free(b)
  <2>1. /\ IDLE = 0 /\ READ \in Nat /\ Last(b) \in Nat /\ bank[b].st \in Nat
    BY Known, Clocks64
  <2>2. ~ out.rdy[b]
    <3>1. WorkInv(b) /\ AnswerInv(b) 
      BY DEF IInv
    <3>2. bank[b].st = 0 \/ bank[b].st \in 1..READ \/ bank[b].st \in READ + 1 .. Last(b) + 1
            \/ Last(b) + 1 < bank[b].st
      BY <2>1
    <3> QED BY <2>1, <3>1, <3>2 DEF WorkInv, AnswerInv, Within
  <2> QED BY <2>2 DEF Free
<1>2. SlotMove(b)
  BY SlotMoves DEF IInv, Clock
<1> QED BY <1>1, <1>2 DEF SlotMove

LEMMA NextLatch ==
  ASSUME NEW b \in Banks, IInv, Clock
  PROVE  LatchInv(b)'
<1>0. /\ fast \in BOOLEAN /\ slots[b].wr \in BOOLEAN /\ wrl[b] \in BOOLEAN
      /\ bank[b].st \in Nat /\ fast' = fast /\ auto' = auto
      /\ latch[b] \in [rd : BOOLEAN, wr : BOOLEAN, a : Nat, match : BOOLEAN]
  BY Known DEF Clock
<1>1. /\ IDLE = 0 /\ PRE_ACT \in 1..2 /\ ACT = PRE_ACT + 1 /\ PRE_RD \in ACT .. ACT + 1
      /\ READ = PRE_RD + 1 /\ Last(b) >= READ + 2 /\ STW(Geo(b)) \in Nat
      /\ READ + 2 < STW(Geo(b)) /\ Last(b) \in Nat
  BY <1>0, Clocks64
<1>2. ACT' = ACT /\ READ' = READ
  BY <1>0 DEF ACT, READ, PRE_RD, PRE_ACT
<1>3. Advances(b)
  BY BankMoves DEF IInv, Clock
<1>4. LatchInv(b) /\ WorkInv(b) /\ AnswerInv(b)
  BY DEF IInv
(* What is asked is asked again, or has been acknowledged.                 *)
<1>5. ASSUME slots[b].st = "ASK"
      PROVE  \/ slots'[b].st = "ASK" /\ slots'[b].wr = slots[b].wr /\ slots'[b].a = slots[b].a
             \/ /\ bank[b].st = READ /\ slots'[b].a = slots[b].a /\ wrl[b] = slots[b].wr
                /\ IF slots[b].wr /\ ~ (b \in auto) THEN Answers(b)
                   ELSE bank'[b].st = READ + 1
  <2>1. CASE bank[b].st # READ
    BY <1>5, <2>1, AskKept
  <2>2. CASE bank[b].st = READ
    <3>1. Within(b, 1, READ)
      BY <1>1, <2>2 DEF Within
    <3>2. wrl[b] = slots[b].wr /\ ~ Free(b)
      BY <3>1, Works
    <3>3. SlotMove(b)
      BY SlotMoves DEF IInv, Clock
    <3>4. ~ Transfers(b) /\ ~ Opens(b) /\ ~ Closes(b)
      BY <1>1, <1>3, <2>2 DEF Advances
    <3>5. IF slots[b].wr /\ ~ (b \in auto) THEN Answers(b) ELSE bank'[b].st = READ + 1
      <4>1. bank[b].written = slots[b].wr
        BY <1>4, <2>2 DEF AnswerInv
      <4> QED BY <4>1, <3>2, <3>4, <1>0, <1>1, <1>3, <2>2 DEF Advances, Answers
    <3> QED BY <3>2, <3>3, <3>5, <2>2 DEF SlotMove
  <2> QED BY <2>1, <2>2
<1>6. ASSUME fast
      PROVE  /\ latch'[b].rd => Asking(b, FALSE)' \/ bank'[b].st = READ + 1
             /\ latch'[b].wr => Asking(b, TRUE)' \/ (bank'[b].st = READ + 1 /\ b \in auto)
             /\ latch'[b].rd \/ latch'[b].wr => latch'[b].a = slots'[b].a
  <2>1. latch'[b].rd = Rd(b) /\ latch'[b].wr = (Wr(b) /\ ~ Answers(b))
        /\ latch'[b].a = slots[b].a
    BY <1>0, <1>6, Signals DEF Clock, Seen
  <2> QED BY <2>1, <1>5, <1>0 DEF Rd, Wr, Asking
<1>7. fast /\ latch'[b].match /\ bank'[b].st # ACT => RowOf(latch'[b].a) = bank'[b].row
  <2>1. SUFFICES ASSUME fast, latch'[b].match, bank'[b].st # ACT
                 PROVE  RowOf(latch'[b].a) = bank'[b].row
    OBVIOUS
  <2>2. ~ Opens(b)
    BY <1>3, <2>1 DEF Advances
  <2>3. bank'[b].row = bank[b].row
    BY <2>2, Registers DEF Clock
  <2>4. latch'[b].match = (RowOf(slots[b].a) = bank[b].row)
    BY <2>1, Signals DEF Clock
  <2>5. latch'[b].a = slots[b].a
    BY <2>1, <1>0, Signals DEF Clock, Seen
  <2> QED BY <2>1, <2>3, <2>4, <2>5
<1>8. fast /\ quiet' => ~ latch'[b].rd /\ ~ latch'[b].wr
  <2>1. fast /\ quiet' => NoReq
    BY DEF Clock, LatchStep
  <2>2. fast => latch'[b].rd = Rd(b) /\ latch'[b].wr = (Wr(b) /\ ~ Answers(b))
    BY <1>0, Signals DEF Clock, Seen
  <2> QED BY <2>1, <2>2 DEF NoReq
<1>9. ASSUME wrl'[b]
      PROVE  \/ Asking(b, TRUE)' /\ Seen(b)'.wr
             \/ (bank'[b].st = READ + 1 \/ (fast /\ bank'[b].st = READ + 2)) /\ b \in auto
  <2>1. Seen(b).wr /\ ~ Answers(b)
    BY <1>9, <1>0, Signals DEF Clock
  <2>2. CASE slots[b].st = "ASK" /\ slots[b].wr
    <3>1. Seen(b)'.wr = IF fast THEN Wr(b) /\ ~ Answers(b) ELSE Wr(b)'
      BY <1>0, Signals DEF Clock
    <3> QED BY <3>1, <2>1, <2>2, <1>0, <1>1, <1>5 DEF Asking, Wr
  <2>3. CASE ~ (slots[b].st = "ASK" /\ slots[b].wr)
    <3>1. fast /\ bank[b].st = READ + 1 /\ b \in auto
      BY <2>1, <2>3, <1>0, <1>4 DEF LatchInv, Seen, Asked, Wr, Asking
    <3>2. bank'[b].st = READ + 2
      BY <3>1, <1>1, <1>3 DEF Advances
    <3> QED BY <3>1, <3>2, <1>1
  <2> QED BY <2>2, <2>3
<1>10. (bank'[b].st = READ + 1 \/ (fast /\ bank'[b].st = READ + 2)) =>
          bank'[b].st \in READ + 1 .. (IF fast THEN READ + 2 ELSE READ + 1)
  BY <1>0, <1>1
<1>11. RowReg(b)' = bank'[b].row /\ RowOf(latch[b].a)' = RowOf(latch'[b].a)
  BY DEF RowReg, RowOf
<1> QED BY <1>0, <1>2, <1>6, <1>7, <1>8, <1>9, <1>10, <1>11 DEF LatchInv, Within

(* The data pins are taken by a transfer, and stay taken.                  *)
LEMMA Window64 ==
  ASSUME NEW first \in Nat, NEW last \in Nat, NEW s \in Nat, NEW t \in Nat,
         NEW on \in BOOLEAN, NEW next \in BOOLEAN,
         first <= last, on <=> s \in first .. last, t < first \/ t = first \/ t = s + 1,
         next <=> t = first \/ (on /\ s # last /\ ~ (t < first))
  PROVE  next <=> t \in first .. last
OBVIOUS

LEMMA Pins64 ==
  ASSUME OutStep
  PROVE  /\ out'.dbusy = (\E b \in Banks : bank[b].in_busy \/ Transfers(b))
         /\ out'.dbusy64 = (\E b \in Banks : bank[b].in_busy64 \/ Transfers(b))
BY DEF OutStep, Dbusy, Dbusy64, Transfers

LEMMA NextGrant ==
  ASSUME NEW b \in Banks, IInv, Clock
  PROVE  GrantInv(b)'
<1> SUFFICES ASSUME fast, bank'[b].br, bank'[b].st = PRE_RD,
                    \A c \in Banks : ~ bank'[c].dqm_busy
             PROVE  ~ out'.dbusy /\ (out'.dbusy64 => ~ wrl'[b])
  BY DEF GrantInv, Clock, PRE_RD, PRE_ACT
<1>0. /\ PRE_ACT \in 1..2 /\ ACT = PRE_ACT + 1 /\ PRE_RD \in ACT .. ACT + 1
      /\ READ = PRE_RD + 1
  BY Clocks64, Known
<1>1. ASSUME NEW c \in Banks PROVE ~ Transfers(c)
  <2>1. Advances(c)
    BY BankMoves DEF IInv, Clock
  <2>2. Transfers(c) => bank'[c].st = READ
    BY <2>1 DEF Advances
  <2>3. bank'[c].st = READ => bank'[c].dqm_busy
    BY Registers DEF Clock
  <2> QED BY <2>2, <2>3
<1>2. Asks(bank[b], In(b), bank'[b].st)
  BY Registers DEF Clock
<1>3. ~ out.dbusy /\ (out.dbusy64 => ~ wrl[b])
  <2>1. In(b).dbusy = out.dbusy /\ In(b).dbusy64 = out.dbusy64 /\ In(b).wr = wrl[b]
    BY DEF In, Sees
  <2> QED BY <1>2, <2>1 DEF Asks
<1>4. /\ \A c \in Banks : bank[c].in_busy => out.dbusy
      /\ \A c \in Banks : bank[c].in_busy64 => out.dbusy64
  <2>1. BusyInv
    BY DEF IInv
  <2>2. BUSY \in Nat /\ BUSY < BUSY + 1 /\ READ \in Nat
    BY Clocks64, Known
  <2>3. ASSUME NEW c \in Banks, bank[c].in_busy64 PROVE out.dbusy64
    <3>1. bank[c].st \in READ .. BUSY
      BY <2>1, <2>3 DEF BusyInv, Within
    <3>2. bank[c].st \in READ .. BUSY + 1
      BY <2>2, <3>1
    <3> QED BY <2>1, <3>2 DEF BusyInv, Within
  <2> QED BY <2>1, <2>3 DEF BusyInv
<1>5. wrl'[b] => wrl[b]
  <2>1. bank'[b].st \in 1..READ
    BY <1>0
  <2>2. wrl'[b] = slots[b].wr /\ (Within(b, 1, READ - 1) \/ (bank[b].st = IDLE /\ Wanted(b)))
    BY <2>1, WorkStep
  <2>3. Within(b, 1, READ) \/ (bank[b].st = IDLE /\ Wanted(b))
    BY <1>0, <2>2 DEF Within
  <2> QED BY <2>2, <2>3, Works
<1> QED BY <1>1, <1>3, <1>4, <1>5, Pins64 DEF Clock

(* The answer of a bank and the count of its requester follow its states.  *)
LEMMA NextAnswer ==
  ASSUME NEW b \in Banks, IInv, Clock
  PROVE  AnswerInv(b)'
<1>0. /\ fast \in BOOLEAN /\ slots[b].wr \in BOOLEAN /\ wrl[b] \in BOOLEAN
      /\ slots[b].n \in Nat /\ slots[b].st \in {"IDLE", "ASK", "WAIT"}
      /\ bank[b].st \in Nat /\ fast' = fast /\ auto' = auto /\ bank[b].st < STW(Geo(b))
      /\ bank[b] \in BankRegs
  BY Known DEF Clock
<1>1. /\ IDLE = 0 /\ PRE_ACT \in 1..2 /\ ACT = PRE_ACT + 1 /\ PRE_RD \in ACT .. ACT + 1
      /\ READ = PRE_RD + 1 /\ DST = READ + 2 /\ BUSY = DST + BurstLen - 1
      /\ Last(b) = DST + LenOf(b) - 1 /\ LenOf(b) \in {1, 2, 4} /\ LenOf(b) <= BurstLen
      /\ BurstLen \in {1, 2, 4} /\ STW(Geo(b)) = BUSY + 1 + (IF b \in auto THEN 1 ELSE 0)
  BY <1>0, Clocks64
<1>2. /\ ACT' = ACT /\ READ' = READ /\ DST' = DST /\ Last(b)' = Last(b) /\ LenOf(b)' = LenOf(b)
      /\ IDLE' = IDLE
  BY <1>0 DEF ACT, READ, PRE_RD, PRE_ACT, DST, Last, RDY, LenOf, Geo, IDLE
<1>3. Advances(b) /\ SlotMove(b) /\ AnswerInv(b) /\ PinsInv
  BY BankMoves, SlotMoves DEF IInv, Clock
<1>4. /\ out'.rdy[b] = Answers(b) /\ out'.dok[b] = bank[b].dok
      /\ wrl'[b] = (Seen(b).wr /\ ~ Answers(b))
  BY <1>0, Signals DEF Clock
<1>5. bank'[b].written = IF Transfers(b) THEN wrl[b] ELSE bank[b].written /\ bank[b].st # IDLE
  BY Registers DEF Clock
<1>6. bank'[b].dok <=> bank'[b].st \in DST .. Last(b)
  <2>1. bank[b].dok <=> bank[b].st \in DST .. Last(b)
    BY <1>3 DEF AnswerInv, Within
  <2>2. bank[b].dok \in BOOLEAN
    BY <1>0 DEF BankRegs
  <2>3. bank'[b].dok = (\/ bank'[b].st = DST
                        \/ bank[b].dok /\ bank[b].st # Last(b) /\ ~ (bank'[b].st < DST))
    BY Registers DEF Clock
  <2>4. bank'[b].st < DST \/ bank'[b].st = DST \/ bank'[b].st = bank[b].st + 1
    BY <1>0, <1>1, <1>3 DEF Advances
  <2>5. DST \in Nat /\ Last(b) \in Nat /\ DST <= Last(b) /\ bank'[b].st \in Nat
    BY <1>0, <1>1, <1>3 DEF Advances
  <2> QED BY <1>0, <2>1, <2>3, <2>4, <2>5, Window64
<1>7. bank'[b].st # IDLE => (out'.dok[b] <=> bank'[b].st \in DST + 1 .. Last(b) + 1)
  <2>1. bank[b].dok <=> bank[b].st \in DST .. Last(b)
    BY <1>3 DEF AnswerInv, Within
  <2>2. out'.dok[b] <=> bank[b].st \in DST .. Last(b)
    BY <1>4, <2>1
  <2>3. CASE bank'[b].st = bank[b].st + 1
    <3>1. bank[b].st \in Nat /\ DST \in Nat /\ Last(b) \in Nat
      BY <1>0, <1>1
    <3>2. bank[b].st \in DST .. Last(b) <=> bank[b].st + 1 \in DST + 1 .. Last(b) + 1
      BY <3>1
    <3> QED BY <2>2, <2>3, <3>2
  <2>4. CASE bank'[b].st # IDLE /\ bank'[b].st # bank[b].st + 1
    <3>1. bank[b].st <= READ /\ bank'[b].st <= READ /\ bank'[b].st \in Nat
      BY <1>0, <1>1, <1>3, <2>4 DEF Advances
    <3>2. DST \in Nat /\ Last(b) \in Nat /\ READ \in Nat /\ READ < DST
      BY <1>1
    <3>3. bank[b].st \notin DST .. Last(b) /\ bank'[b].st \notin DST + 1 .. Last(b) + 1
      BY <1>0, <3>1, <3>2
    <3> QED BY <2>2, <3>3
  <2> QED BY <2>3, <2>4
<1>8. bank'[b].st = READ => bank'[b].written = slots'[b].wr
  <2>1. SUFFICES ASSUME bank'[b].st = READ PROVE bank'[b].written = slots'[b].wr
    OBVIOUS
  <2>2. Transfers(b)
    BY <1>0, <1>1, <1>3, <2>1 DEF Advances
  <2>3. bank'[b].st \in 1..READ
    BY <1>1, <2>1
  <2>4. slots'[b].wr = slots[b].wr /\ (Within(b, 1, READ - 1) \/ (bank[b].st = IDLE /\ Wanted(b)))
    BY <2>3, WorkStep
  <2>5. Within(b, 1, READ) \/ (bank[b].st = IDLE /\ Wanted(b))
    BY <1>1, <2>4 DEF Within
  <2> QED BY <1>5, <2>2, <2>4, <2>5, Works
<1>9. ASSUME bank[b].st = READ
      PROVE  /\ slots'[b].st = "WAIT" /\ slots'[b].wr = slots[b].wr /\ slots'[b].a = slots[b].a
             /\ slots'[b].n = IF slots[b].wr THEN 1 ELSE 0
             /\ wrl[b] = slots[b].wr /\ bank[b].written = slots[b].wr /\ ~ out.dok[b]
             /\ ~ Transfers(b) /\ ~ Opens(b) /\ ~ Closes(b) /\ ~ bank[b].dok
  <2>1. Within(b, 1, READ)
    BY <1>1, <1>9 DEF Within
  <2>2. ~ Free(b) /\ slots[b].n = 0 /\ wrl[b] = slots[b].wr
    BY <2>1, Works
  <2>3. ~ out.dok[b] /\ ~ bank[b].dok /\ bank[b].written = slots[b].wr
    BY <1>1, <1>3, <1>9 DEF AnswerInv, Within
  <2>4. Moves(b) <=> slots[b].wr
    <3>1. out.pins = [op |-> TransferOp(b, slots[b].wr), ba |-> b, a |-> slots[b].a]
      BY <1>3, <1>9 DEF PinsInv
    <3>2. out.pins.ba = b /\ out.pins.op = TransferOp(b, slots[b].wr)
      BY <3>1
    <3> QED BY <3>2, <1>0, <2>3 DEF Moves, TransferOp
  <2>5. ~ Transfers(b) /\ ~ Opens(b) /\ ~ Closes(b)
    BY <1>1, <1>3, <1>9 DEF Advances
  <2> QED BY <1>0, <1>3, <1>9, <2>2, <2>3, <2>4, <2>5 DEF SlotMove
<1>10. ASSUME bank[b].st # READ, slots[b].st # "WAIT", slots[b].n = 0, ~ out.dok[b]
       PROVE  slots'[b].st \in {"IDLE", "ASK"} /\ slots'[b].n = 0
  <2>1. slots[b].st = "ASK" => ~ Moves(b)
    BY <1>3, <1>10 DEF Moves, PinsInv
  <2> QED BY <2>1, <1>0, <1>3, <1>10 DEF SlotMove, Free
<1>11. ASSUME bank'[b].st \in READ + 1 .. Last(b) + 1
       PROVE  /\ slots'[b].st = "WAIT" /\ (slots'[b].wr => b \in auto)
              /\ slots'[b].n = IF slots'[b].wr THEN 1
                               ELSE IF bank'[b].st <= DST + 1 THEN 0 ELSE bank'[b].st - DST - 1
              /\ out'.rdy[b] <=> bank'[b].st = Last(b) + 1
              /\ bank'[b].st <= Last(b) /\ ~ (b \in auto) => ~ bank'[b].written
  <2>1. ~ Transfers(b) /\ bank'[b].st = bank[b].st + 1 /\ bank[b].st \in READ .. Last(b)
        /\ ~ (bank[b].st = READ /\ wrl[b] /\ ~ (b \in auto))
    BY <1>0, <1>1, <1>3, <1>11 DEF Advances
  <2>2. CASE bank[b].st = READ
    <3>1. slots[b].wr => b \in auto
      BY <2>1, <2>2, <1>9
    <3>2. ~ Answers(b)
      BY <2>2, <3>1, <1>1, <1>9 DEF Answers
    <3> QED BY <2>1, <2>2, <3>1, <3>2, <1>0, <1>1, <1>4, <1>5, <1>9
  <2>3. CASE bank[b].st \in READ + 1 .. Last(b)
    <3>1. /\ slots[b].st = "WAIT" /\ slots[b].n = Count(b) /\ (slots[b].wr => b \in auto)
          /\ ~ out.rdy[b] /\ (~ (b \in auto) => ~ bank[b].written)
          /\ out.dok[b] <=> bank[b].st >= DST + 1
      BY <2>3, <1>0, <1>1, <1>3 DEF AnswerInv, Within
    <3>2. Answers(b) <=> bank[b].st = Last(b)
      BY <3>1, <1>0, <1>1 DEF Answers
    <3>3. Moves(b) <=> ~ slots[b].wr /\ bank[b].st >= DST + 1
      BY <2>3, <3>1, <1>0, <1>1, <1>3 DEF Moves, PinsInv
    <3>4. /\ slots'[b].st = "WAIT" /\ slots'[b].wr = slots[b].wr
          /\ slots'[b].n = IF Moves(b) THEN slots[b].n + 1 ELSE slots[b].n
      BY <2>3, <3>1, <1>1, <1>3 DEF SlotMove, Free
    <3>5. slots'[b].n = IF slots'[b].wr THEN 1
                        ELSE IF bank'[b].st <= DST + 1 THEN 0 ELSE bank'[b].st - DST - 1
      BY <2>1, <2>3, <3>1, <3>3, <3>4, <1>0, <1>1 DEF Count
    <3> QED BY <2>1, <2>3, <3>1, <3>2, <3>4, <3>5, <1>0, <1>1, <1>4, <1>5
  <2> QED BY <2>1, <2>2, <2>3, <1>1
<1>12. ASSUME Last(b) < bank[b].st
       PROVE  /\ slots'[b].st \in {"IDLE", "ASK"} /\ slots'[b].n = 0
              /\ ~ out'.rdy[b] /\ ~ out'.dok[b]
  <2>1. ~ Answers(b) /\ ~ bank[b].dok /\ bank[b].st # READ
    BY <1>0, <1>1, <1>3, <1>12 DEF Answers, AnswerInv, Within
  <2>2. CASE bank[b].st = Last(b) + 1
    <3>1. out.rdy[b]
      BY <2>2, <1>1, <1>3 DEF AnswerInv, Within
    <3> QED BY <3>1, <2>1, <1>3, <1>4 DEF SlotMove, Free
  <2>3. CASE Last(b) + 1 < bank[b].st
    <3>1. slots[b].st # "WAIT" /\ slots[b].n = 0 /\ ~ out.dok[b]
      BY <2>3, <1>0, <1>1, <1>3 DEF AnswerInv, Within
    <3> QED BY <3>1, <2>1, <1>4, <1>10
  <2> QED BY <2>2, <2>3, <1>0, <1>1, <1>12
<1>13. ASSUME Last(b) + 1 < bank'[b].st
       PROVE  slots'[b].st \in {"IDLE", "ASK"} /\ ~ out'.rdy[b] /\ slots'[b].n = 0
  <2>1. Last(b) < bank[b].st
    BY <1>0, <1>1, <1>3, <1>13 DEF Advances
  <2> QED BY <2>1, <1>12
<1>14. ASSUME bank'[b].st = IDLE
       PROVE  \/ /\ slots'[b].st \in {"IDLE", "ASK"} /\ slots'[b].n = 0
                 /\ ~ out'.rdy[b] /\ ~ out'.dok[b]
              \/ /\ slots'[b].st = "WAIT" /\ out'.rdy[b]
                 /\ ~ Seen(b)'.rd /\ ~ Seen(b)'.wr /\ ~ wrl'[b]
                 /\ IF slots'[b].wr THEN slots'[b].n = 1 /\ ~ out'.dok[b]
                    ELSE out'.dok[b] /\ slots'[b].n = LenOf(b) - 1
  <2>1. ~ Transfers(b) /\ ~ Opens(b) /\ ~ Closes(b)
    BY <1>1, <1>3, <1>14 DEF Advances
  <2>2. \/ bank[b].st = IDLE
        \/ bank[b].st = READ /\ wrl[b] /\ ~ (b \in auto)
        \/ bank[b].st = BUSY /\ ~ (b \in auto)
        \/ bank[b].st > BUSY
    BY <2>1, <1>0, <1>1, <1>3, <1>14 DEF Advances
  <2>3. CASE bank[b].st = IDLE
    <3>1. ~ Answers(b) /\ ~ bank[b].dok
      BY <2>3, <1>1, <1>3 DEF Answers, AnswerInv, Within
    <3>2. \/ slots[b].st # "WAIT" /\ slots[b].n = 0 /\ ~ out.dok[b]
          \/ out.rdy[b]
      BY <2>3, <1>3 DEF AnswerInv
    <3>3. slots'[b].st \in {"IDLE", "ASK"} /\ slots'[b].n = 0
      BY <3>2, <2>3, <1>1, <1>3, <1>10 DEF SlotMove, Free
    <3> QED BY <3>1, <3>3, <1>4
  <2>4. ASSUME slots'[b].st = "WAIT", Answers(b), slots[b].st = "ASK" => slots[b].wr
        PROVE  ~ Seen(b)'.rd /\ ~ Seen(b)'.wr /\ ~ wrl'[b]
    BY <2>4, <1>0, <1>4, Signals DEF Clock, Rd, Wr
  <2>5. CASE bank[b].st = READ /\ wrl[b] /\ ~ (b \in auto)
    <3>1. Answers(b) /\ slots[b].wr
      BY <2>5, <1>9 DEF Answers
    <3> QED BY <2>4, <2>5, <3>1, <1>4, <1>9
  <2>6. CASE bank[b].st = BUSY /\ ~ (b \in auto) /\ Last(b) = BUSY
    <3>1. /\ slots[b].st = "WAIT" /\ slots[b].n = Count(b) /\ ~ slots[b].wr
          /\ ~ out.rdy[b] /\ ~ bank[b].written /\ bank[b].dok
          /\ out.dok[b] <=> bank[b].st >= DST + 1
      BY <2>6, <1>0, <1>1, <1>3 DEF AnswerInv, Within
    <3>2. Answers(b) /\ (Moves(b) <=> bank[b].st >= DST + 1)
      BY <2>6, <3>1 DEF Answers, Moves
    <3>3. /\ slots'[b].st = "WAIT" /\ slots'[b].wr = slots[b].wr
          /\ slots'[b].n = IF Moves(b) THEN slots[b].n + 1 ELSE slots[b].n
      BY <2>6, <3>1, <1>1, <1>3 DEF SlotMove, Free
    <3>4. slots'[b].n = LenOf(b) - 1
      BY <2>6, <3>1, <3>2, <3>3, <1>1 DEF Count
    <3> QED BY <2>4, <3>1, <3>2, <3>3, <3>4, <1>4
  <2>7. CASE Last(b) < bank[b].st
    BY <2>7, <1>12
  <2> QED BY <2>2, <2>3, <2>5, <2>6, <2>7, <1>0, <1>1
<1>15. /\ bank'[b].st = IDLE =>
            \/ /\ slots'[b].st \in {"IDLE", "ASK"} /\ slots'[b].n = 0
               /\ ~ out'.rdy[b] /\ ~ out'.dok[b]
            \/ /\ slots'[b].st = "WAIT" /\ out'.rdy[b]
               /\ ~ Seen(b)'.rd /\ ~ Seen(b)'.wr /\ ~ wrl'[b]
               /\ IF slots'[b].wr THEN slots'[b].n = 1 /\ ~ out'.dok[b]
                  ELSE out'.dok[b] /\ slots'[b].n = LenOf(b) - 1
       /\ bank'[b].st \in READ + 1 .. Last(b) + 1 =>
            /\ slots'[b].st = "WAIT" /\ slots'[b].n = Count(b)'
            /\ slots'[b].wr => b \in auto
            /\ out'.rdy[b] <=> bank'[b].st = Last(b) + 1
       /\ Last(b) + 1 < bank'[b].st =>
            slots'[b].st \in {"IDLE", "ASK"} /\ ~ out'.rdy[b] /\ slots'[b].n = 0
       /\ bank'[b].st \in READ + 1 .. Last(b) /\ ~ (b \in auto) => ~ bank'[b].written
  <2>1. Count(b)' = IF slots'[b].wr THEN 1
                    ELSE IF bank'[b].st <= DST + 1 THEN 0 ELSE bank'[b].st - DST - 1
    BY <1>2 DEF Count
  <2>2. bank'[b].st \in READ + 1 .. Last(b) =>
          bank'[b].st \in READ + 1 .. Last(b) + 1 /\ bank'[b].st <= Last(b)
    BY <1>1
  <2> QED BY <2>1, <2>2, <1>11, <1>13, <1>14
<1> QED BY <1>0, <1>2, <1>6, <1>7, <1>8, <1>15 DEF AnswerInv, Within

-----------------------------------------------------------------------------
(* The pins: one bank has them, or the refresh engine.                     *)
Busies(b) == Transfers(b) \/ Opens(b) \/ Closes(b)

(* A bank that issues a command has the bus to itself.                     *)
LEMMA Alone ==
  ASSUME NEW b \in Banks, IInv, Busies(b)
  PROVE  Holder = {b} /\ ~ rfsh.rfshing /\ \A c \in Banks : Busies(c) => c = b
<1>1. ASSUME NEW c \in Banks, Busies(c) PROVE Granted(c)
  BY <1>1, Forms DEF Busies
<1>2. \A c \in Banks : Granted(c) => c = b
  BY <1>1, Grants DEF IInv
<1>3. ~ rfsh.rfshing
  BY <1>1, Grants DEF IInv
<1> QED BY <1>1, <1>2, <1>3 DEF Holder

(* A bank whose command comes sees what its requester asks.                *)
LEMMA Served ==
  ASSUME NEW b \in Banks, IInv, Busies(b)
  PROVE  /\ slots[b].st = "ASK" /\ ~ Free(b) /\ bank[b].st # READ
         /\ Seen(b).rd = ~ slots[b].wr /\ wrl[b] = slots[b].wr /\ Seen(b).a = slots[b].a
<1>1. (bank[b].st = IDLE /\ Wanted(b)) \/ bank[b].st = PRE_ACT \/ bank[b].st = PRE_RD
  BY Forms DEF Busies
<1>2. IDLE = 0 /\ PRE_ACT \in 1..2 /\ ACT = PRE_ACT + 1 /\ PRE_RD \in ACT .. ACT + 1
      /\ READ = PRE_RD + 1
  BY Clocks64, Known
<1>3. Within(b, 1, READ) \/ (bank[b].st = IDLE /\ Wanted(b))
  BY <1>1, <1>2 DEF Within
<1> QED BY <1>1, <1>2, <1>3, Works

LEMMA PinsStep ==
  ASSUME IInv, Clock
  PROVE  /\ rfsh.rfshing => out'.pins = RfshCmd /\ out'.din = S!Nothing
         /\ \A b \in Banks :
              /\ Transfers(b) =>
                   /\ out'.pins = [op |-> TransferOp(b, slots[b].wr), ba |-> b, a |-> slots[b].a]
                   /\ out'.din = IF slots[b].wr THEN <<b, slots[b].a>> ELSE S!Nothing
              /\ Opens(b) =>
                   /\ out'.pins = [op |-> "ACTIVE", ba |-> b, a |-> RowOf(slots[b].a)]
                   /\ out'.din = S!Nothing
              /\ Closes(b) =>
                   /\ out'.pins = [op |-> "PRECHARGE", ba |-> b, a |-> slots[b].a]
                   /\ out'.din = S!Nothing
         /\ ~ rfsh.rfshing /\ (\A b \in Banks : ~ Busies(b)) =>
              out'.pins = Nop /\ out'.din = S!Nothing
<1>1. /\ out'.pins = NextPins
      /\ out'.din = IF \E b \in Holder : WrBusy(Geo(b), bank[b], In(b))
                    THEN LET b == CHOOSE b \in Holder : TRUE IN <<b, slots[b].a>>
                    ELSE S!Nothing
  BY DEF Clock, OutStep
<1>2. \A b \in Banks : WrBusy(Geo(b), bank[b], In(b)) <=> Transfers(b) /\ wrl[b]
  BY DEF WrBusy, Transfers, In, Sees
<1>3. Holder \subseteq Banks
  BY DEF Holder
<1>4. (\A b \in Banks : ~ Busies(b)) => out'.din = S!Nothing
  BY <1>1, <1>2, <1>3 DEF Busies
<1>5. rfsh.rfshing => \A b \in Banks : ~ Busies(b)
  BY Alone
<1>6. rfsh.rfshing => out'.pins = RfshCmd /\ out'.din = S!Nothing
  BY <1>1, <1>4, <1>5 DEF NextPins
<1>7. ASSUME NEW b \in Banks, Busies(b)
      PROVE  /\ out'.pins = IF Op(b) = "NOP" THEN Nop ELSE Command(b)
             /\ out'.din = IF Transfers(b) /\ wrl[b] THEN <<b, slots[b].a>> ELSE S!Nothing
             /\ Op(b) = IF Closes(b) THEN "PRECHARGE" ELSE IF Opens(b) THEN "ACTIVE"
                        ELSE TransferOp(b, slots[b].wr)
             /\ Seen(b).a = slots[b].a /\ wrl[b] = slots[b].wr
  <2>1. Holder = {b} /\ ~ rfsh.rfshing
    BY <1>7, Alone
  <2>2. (CHOOSE c \in Holder : TRUE) = b
    BY <2>1
  <2>3. out'.pins = IF Op(b) = "NOP" THEN Nop ELSE Command(b)
    BY <1>1, <2>1, <2>2 DEF NextPins, Command
  <2>4. (\E c \in Holder : WrBusy(Geo(c), bank[c], In(c))) <=> Transfers(b) /\ wrl[b]
    BY <1>2, <2>1
  <2>5. /\ Seen(b).rd = ~ slots[b].wr /\ wrl[b] = slots[b].wr /\ Seen(b).a = slots[b].a
    BY <1>7, Served
  <2>6. slots[b].wr \in BOOLEAN
    BY Known
  <2>7. (~ Seen(b).rd) = slots[b].wr
    BY <2>5, <2>6
  <2>8. Op(b) = IF Closes(b) THEN "PRECHARGE" ELSE IF Opens(b) THEN "ACTIVE"
                ELSE TransferOp(b, slots[b].wr)
    BY <1>7, <2>7 DEF Op, Busies
  <2>9. out'.din = IF Transfers(b) /\ wrl[b] THEN <<b, slots[b].a>> ELSE S!Nothing
    BY <1>1, <2>2, <2>4
  <2> QED BY <2>3, <2>5, <2>8, <2>9
<1>8. ASSUME NEW b \in Banks
      PROVE  /\ Transfers(b) => ~ Opens(b) /\ ~ Closes(b)
             /\ Opens(b) => ~ Closes(b)
  <2>1. Advances(b)
    BY BankMoves DEF IInv, Clock
  <2> QED BY <2>1 DEF Advances
<1>9. ASSUME NEW b \in Banks, Transfers(b)
      PROVE  /\ out'.pins = [op |-> TransferOp(b, slots[b].wr), ba |-> b, a |-> slots[b].a]
             /\ out'.din = IF slots[b].wr THEN <<b, slots[b].a>> ELSE S!Nothing
  <2>1. Busies(b) /\ ~ Opens(b) /\ ~ Closes(b)
    BY <1>8, <1>9 DEF Busies
  <2>2. Op(b) = TransferOp(b, slots[b].wr) /\ Op(b) # "NOP" /\ Op(b) # "ACTIVE"
    BY <1>7, <2>1 DEF TransferOp
  <2> QED BY <1>7, <1>9, <2>1, <2>2 DEF Command
<1>10. ASSUME NEW b \in Banks, Opens(b)
       PROVE  /\ out'.pins = [op |-> "ACTIVE", ba |-> b, a |-> RowOf(slots[b].a)]
              /\ out'.din = S!Nothing
  <2>1. Busies(b) /\ ~ Transfers(b) /\ ~ Closes(b)
    BY <1>8, <1>10 DEF Busies
  <2>2. Op(b) = "ACTIVE"
    BY <1>7, <1>10, <2>1
  <2> QED BY <1>7, <2>1, <2>2 DEF Command
<1>11. ASSUME NEW b \in Banks, Closes(b)
       PROVE  /\ out'.pins = [op |-> "PRECHARGE", ba |-> b, a |-> slots[b].a]
              /\ out'.din = S!Nothing
  <2>1. Busies(b) /\ ~ Transfers(b) /\ ~ Opens(b)
    BY <1>8, <1>11 DEF Busies
  <2>2. Op(b) = "PRECHARGE"
    BY <1>7, <1>11, <2>1
  <2> QED BY <1>7, <2>1, <2>2 DEF Command
<1>12. ~ rfsh.rfshing /\ (\A b \in Banks : ~ Busies(b)) => out'.pins = Nop
  <2>1. SUFFICES ASSUME ~ rfsh.rfshing, \A b \in Banks : ~ Busies(b), Holder # {}
                 PROVE  NextPins = Nop
    BY <1>1 DEF NextPins
  <2>2. PICK c \in Banks : c = CHOOSE b \in Holder : TRUE
    BY <2>1, <1>3
  <2>3. Op(c) = "NOP"
    BY <2>1, <2>2 DEF Op, Busies
  <2> QED BY <2>1, <2>2, <2>3 DEF NextPins, Command
<1> QED BY <1>4, <1>6, <1>9, <1>10, <1>11, <1>12

(* A bank comes to READ with its command, and only so.                     *)
LEMMA ReadsOnly ==
  ASSUME NEW b \in Banks, IInv, Clock
  PROVE  bank'[b].st = READ <=> Transfers(b)
<1>1. Advances(b)
  BY BankMoves DEF IInv, Clock
<1>2. IDLE = 0 /\ PRE_ACT \in 1..2 /\ ACT = PRE_ACT + 1 /\ PRE_RD \in ACT .. ACT + 1
      /\ READ = PRE_RD + 1 /\ bank[b].st \in Nat
  BY Clocks64, Known
<1> QED BY <1>1, <1>2 DEF Advances

LEMMA NextPinsInv ==
  ASSUME IInv, Clock
  PROVE  PinsInv'
<1> DEFINE p == out'.pins
<1>1. ASSUME NEW b \in Banks, Transfers(b)
      PROVE  /\ p = [op |-> TransferOp(b, slots[b].wr), ba |-> b, a |-> slots[b].a]
             /\ p.op = TransferOp(b, slots[b].wr) /\ p.ba = b /\ p.a = slots[b].a
             /\ slots'[b] = slots[b] /\ bank'[b].st = READ
             /\ out'.din = IF slots[b].wr THEN <<b, slots[b].a>> ELSE S!Nothing
             /\ p.op \in {"READ", "READA", "WRITE", "WRITEA"}
             /\ p.op \in {"WRITE", "WRITEA"} <=> slots[b].wr
  <2>1. p = [op |-> TransferOp(b, slots[b].wr), ba |-> b, a |-> slots[b].a]
        /\ out'.din = IF slots[b].wr THEN <<b, slots[b].a>> ELSE S!Nothing
    BY <1>1, PinsStep
  <2>2. bank'[b].st = READ /\ READ \in 1..READ
    BY <1>1, ReadsOnly, Clocks64, Known
  <2>3. slots'[b] = slots[b] /\ slots[b].wr \in BOOLEAN
    BY <2>2, WorkStep, Known
  <2> QED BY <2>1, <2>2, <2>3 DEF TransferOp
<1>2. ASSUME NEW b \in Banks, Opens(b)
      PROVE  p.op = "ACTIVE" /\ p.ba = b /\ out'.din = S!Nothing /\ bank'[b].st = ACT
  <2>1. Advances(b)
    BY BankMoves DEF IInv, Clock
  <2>2. /\ p = [op |-> "ACTIVE", ba |-> b, a |-> RowOf(slots[b].a)]
        /\ out'.din = S!Nothing
    BY <1>2, PinsStep
  <2>3. bank'[b].st = ACT
    BY <1>2, <2>1 DEF Advances
  <2> QED BY <2>2, <2>3
<1>3. ASSUME NEW b \in Banks, Closes(b)
      PROVE  /\ p.op = "PRECHARGE" /\ p.ba = b /\ out'.din = S!Nothing
             /\ bank'[b].st = 1 /\ ~ bank'[b].actd
  <2>1. Advances(b)
    BY BankMoves DEF IInv, Clock
  <2>2. ~ bank'[b].actd
    BY <1>3, Registers DEF Clock
  <2>3. /\ p = [op |-> "PRECHARGE", ba |-> b, a |-> slots[b].a]
        /\ out'.din = S!Nothing
    BY <1>3, PinsStep
  <2>4. bank'[b].st = 1
    BY <1>3, <2>1 DEF Advances
  <2> QED BY <2>2, <2>3, <2>4
<1>4. ASSUME \A b \in Banks : ~ Busies(b)
      PROVE  p.op \in {"NOP", "PRECHARGE_ALL", "REFRESH"} /\ out'.din = S!Nothing
  <2>1. rfsh.cmd \in {"NOP", "PRECHARGE_ALL", "REFRESH"}
    BY DEF IInv, RefreshInv, RfshRegs
  <2> QED BY <1>4, <2>1, PinsStep DEF RfshCmd, Nop
<1>5. CASE \A b \in Banks : ~ Busies(b)
  <2>1. \A b \in Banks : ~ Transfers(b)
    BY <1>5 DEF Busies
  <2>2. \A b \in Banks : bank'[b].st # READ
    BY <2>1, ReadsOnly
  <2> QED BY <1>4, <1>5, <2>2 DEF PinsInv, OnPins, READ, PRE_RD, PRE_ACT, Clock
<1>6. ASSUME NEW b \in Banks, Busies(b) PROVE PinsInv'
  <2>1. \A c \in Banks : c # b => ~ Busies(c)
    BY <1>6, Alone
  <2>2. \A c \in Banks : c # b => bank'[c].st # READ
    BY <2>1, ReadsOnly DEF Busies
  <2>3. READ' = READ /\ ACT' = ACT
    BY DEF READ, ACT, PRE_RD, PRE_ACT, Clock
  <2>4. CASE Transfers(b)
    <3>1. /\ p.op \in {"READ", "READA", "WRITE", "WRITEA"} /\ p.ba = b
          /\ bank'[b].st = READ
          /\ out'.din = IF p.op \in {"WRITE", "WRITEA"} THEN <<p.ba, p.a>> ELSE S!Nothing
      BY <1>1, <2>4
    <3>2. p = [op |-> TransferOp(b, slots[b].wr)', ba |-> b, a |-> slots'[b].a]
      BY <1>1, <2>4 DEF TransferOp, Clock
    <3> QED BY <3>1, <3>2, <2>2, <2>3 DEF PinsInv, OnPins
  <2>5. CASE Opens(b)
    <3>1. bank'[b].st # READ
      BY <1>2, <2>5, Clocks64, Known
    <3> QED BY <1>2, <3>1, <2>2, <2>3, <2>5 DEF PinsInv, OnPins
  <2>6. CASE Closes(b)
    <3>1. bank'[b].st # READ
      BY <1>3, <2>6, Clocks64, Known
    <3> QED BY <1>3, <3>1, <2>2, <2>3, <2>6 DEF PinsInv, OnPins
  <2> QED BY <1>6, <2>4, <2>5, <2>6 DEF Busies
<1> QED BY <1>5, <1>6

-----------------------------------------------------------------------------
(* The simulator: its read burst goes on until it ends, or a new one is    *)
(* put in its place.                                                       *)
Reads64(p)  == p.op \in {"READ", "READA"}
Writes64(p) == p.op \in {"WRITE", "WRITEA"}

SimNext == S!SimStep(out.pins, Mode, Masks(out.pins))

GoesOn(burst) ==
  IF burst.wait > 0 THEN [burst EXCEPT !.wait = @ - 1]
  ELSE IF burst.beat + 1 >= BurstLen THEN S!None
  ELSE [burst EXCEPT !.beat = (@ + 1) % BurstLen]

(* No command that opens or closes a row is for the bank of the burst.     *)
LEMMA NoCut ==
  ASSUME IInv, sim.burst # S!None
  PROVE  /\ out.pins.op # "PRECHARGE_ALL"
         /\ out.pins.op \in {"ACTIVE", "PRECHARGE"} => out.pins.ba # sim.burst.ba
<1> DEFINE b == sim.burst.ba
<1>1. b \in Banks /\ bank[b].st \in READ + 1 .. BUSY
  BY DEF IInv, BurstInv, BurstAt, Within
<1>2. bank[b].st # IDLE /\ bank[b].st # 1 /\ bank[b].st # ACT
  BY <1>1, Clocks64, Known
<1>3. out.pins.op # "PRECHARGE_ALL"
  BY <1>1, <1>2 DEF IInv, RefreshInv
<1>4. out.pins.op \in {"ACTIVE", "PRECHARGE"} => out.pins.ba # b
  BY <1>1, <1>2 DEF IInv, PinsInv, OnPins
<1> QED BY <1>3, <1>4

(* What a read burst is, and the ways in which it goes on.                 *)
LEMMA BurstFields ==
  ASSUME NEW b, NEW row, NEW col, NEW beat, NEW wait
  PROVE  LET r == ReadBurst(b, row, col, beat, wait) IN
         /\ r # S!None /\ r.kind = "READ" /\ r.ba = b /\ r.row = row /\ r.col = col
         /\ r.beat = beat /\ r.len = BurstLen /\ r.wait = wait /\ r.stop = 0
         /\ ~ r.full /\ (r.auto <=> b \in auto)
BY DEF ReadBurst, S!None

LEMMA BurstWith ==
  ASSUME NEW kind, NEW ba, NEW row, NEW col, NEW beat, NEW len, NEW wait, NEW stop, NEW full,
         NEW au, NEW n
  PROVE  /\ [[kind |-> kind, ba |-> ba, row |-> row, col |-> col, beat |-> beat, len |-> len,
               wait |-> wait, stop |-> stop, full |-> full, auto |-> au] EXCEPT !.wait = n]
              = [kind |-> kind, ba |-> ba, row |-> row, col |-> col, beat |-> beat, len |-> len,
                 wait |-> n, stop |-> stop, full |-> full, auto |-> au]
         /\ [[kind |-> kind, ba |-> ba, row |-> row, col |-> col, beat |-> beat, len |-> len,
               wait |-> wait, stop |-> stop, full |-> full, auto |-> au] EXCEPT !.beat = n]
              = [kind |-> kind, ba |-> ba, row |-> row, col |-> col, beat |-> n, len |-> len,
                 wait |-> wait, stop |-> stop, full |-> full, auto |-> au]
OBVIOUS

LEMMA BurstGoes ==
  ASSUME NEW ba, NEW row, NEW col, NEW beat \in Nat, NEW wait \in Nat
  PROVE  LET r == ReadBurst(ba, row, col, beat, wait) IN
         /\ wait > 0 => GoesOn(r) = ReadBurst(ba, row, col, beat, wait - 1)
         /\ wait = 0 /\ beat + 1 < BurstLen =>
              GoesOn(r) = ReadBurst(ba, row, col, beat + 1, wait)
         /\ wait = 0 /\ beat + 1 >= BurstLen => GoesOn(r) = S!None
<1> DEFINE r == ReadBurst(ba, row, col, beat, wait)
           kind == "READ"
           stop == 0
           full == FALSE
           n == beat + 1
           m == wait - 1
           au == ba \in auto
<1>1. r.wait = wait /\ r.beat = beat
  BY BurstFields
<1>2. BurstLen \in {1, 2, 4}
  BY Sdram64Assumption
<1>3. /\ r = [kind |-> kind, ba |-> ba, row |-> row, col |-> col, beat |-> beat,
              len |-> BurstLen, wait |-> wait, stop |-> stop, full |-> full, auto |-> au]
      /\ ReadBurst(ba, row, col, beat, m) =
           [kind |-> kind, ba |-> ba, row |-> row, col |-> col, beat |-> beat,
            len |-> BurstLen, wait |-> m, stop |-> stop, full |-> full, auto |-> au]
      /\ ReadBurst(ba, row, col, n, wait) =
           [kind |-> kind, ba |-> ba, row |-> row, col |-> col, beat |-> n,
            len |-> BurstLen, wait |-> wait, stop |-> stop, full |-> full, auto |-> au]
  BY DEF ReadBurst
<1>4. wait > 0 => GoesOn(r) = [r EXCEPT !.wait = m]
  <2> HIDE DEF r
  <2> QED BY <1>1 DEF GoesOn
<1>5. wait = 0 /\ beat + 1 < BurstLen => GoesOn(r) = [r EXCEPT !.beat = n]
  <2>1. wait = 0 /\ beat + 1 < BurstLen => (beat + 1) % BurstLen = n
    BY <1>2
  <2> HIDE DEF r
  <2>2. wait = 0 /\ beat + 1 < BurstLen => ~ (r.beat + 1 >= BurstLen)
    BY <1>1, <1>2
  <2> QED BY <1>1, <2>1, <2>2 DEF GoesOn
<1>6. wait = 0 /\ beat + 1 >= BurstLen => GoesOn(r) = S!None
  <2> HIDE DEF r
  <2> QED BY <1>1 DEF GoesOn
<1> HIDE DEF kind, stop, full, n, m, au
<1>7. [r EXCEPT !.wait = m] = ReadBurst(ba, row, col, beat, m)
  BY <1>3, BurstWith
<1>8. [r EXCEPT !.beat = n] = ReadBurst(ba, row, col, n, wait)
  BY <1>3, BurstWith
<1> QED BY <1>4, <1>5, <1>6, <1>7, <1>8 DEF n, m

LEMMA BurstFacts ==
  ASSUME IInv, sim.burst # S!None
  PROVE  LET b == sim.burst.ba
             s == bank[b].st
         IN /\ b \in Banks /\ s \in READ + 1 .. BUSY
            /\ sim.burst.kind = "READ" /\ sim.burst.len = BurstLen /\ sim.burst.stop = 0
            /\ ~ sim.burst.full /\ (sim.burst.auto <=> b \in auto)
            /\ sim.burst.wait = IF s = READ + 1 THEN 1 ELSE 0
            /\ sim.burst.beat = IF s <= DST THEN 0 ELSE s - DST
            /\ sim.burst.row \in Nat /\ sim.burst.col \in Nat /\ sim.burst.col % BurstLen = 0
            /\ sim.burst = ReadBurst(b, sim.burst.row, sim.burst.col,
                                     IF s <= DST THEN 0 ELSE s - DST,
                                     IF s = READ + 1 THEN 1 ELSE 0)
<1> DEFINE b == sim.burst.ba
           s == bank[b].st
           r == ReadBurst(b, sim.burst.row, sim.burst.col, IF s <= DST THEN 0 ELSE s - DST,
                          IF s = READ + 1 THEN 1 ELSE 0)
<1>1. /\ b \in Banks /\ s \in READ + 1 .. BUSY /\ sim.burst = r
      /\ sim.burst.row \in Nat /\ sim.burst.col \in Nat /\ sim.burst.col % BurstLen = 0
  BY DEF IInv, BurstInv, BurstAt, Within
<1>2. /\ r.kind = "READ" /\ r.len = BurstLen /\ r.stop = 0 /\ ~ r.full
      /\ r.wait = (IF s = READ + 1 THEN 1 ELSE 0) /\ r.beat = (IF s <= DST THEN 0 ELSE s - DST)
      /\ (r.auto <=> b \in auto)
  BY BurstFields
<1> QED BY <1>1, <1>2

(* What the command leaves, before the beats of the clock.                 *)
LEMMA Commanded ==
  ASSUME IInv
  PROVE  LET c == S!AfterCommand(out.pins)
             p == out.pins
         IN /\ c = S!Stage(c.row, c.burst)
            /\ Reads64(p) \/ Writes64(p) => c.burst = S!Start(p)
            /\ ~ Reads64(p) /\ ~ Writes64(p) => c.burst = sim.burst
            /\ DOMAIN c.row = Banks
            /\ \A b \in Banks :
                 /\ OnPins(b, {"ACTIVE"}) => c.row[b] = <<p.a>>
                 /\ /\ ~ OnPins(b, {"ACTIVE", "PRECHARGE"}) /\ p.op # "PRECHARGE_ALL"
                    /\ ~ (sim.burst # S!None /\ sim.burst.ba = b /\ sim.burst.auto)
                    => c.row[b] = sim.row[b]
<1> DEFINE p == out.pins
           c == S!AfterCommand(out.pins)
           now == S!Stage(sim.row, sim.burst)
<1>1. p.op \in {"NOP", "PRECHARGE", "PRECHARGE_ALL", "REFRESH", "ACTIVE",
                "READ", "READA", "WRITE", "WRITEA"}
      /\ DOMAIN sim.row = Banks
      /\ (p.op \in {"ACTIVE", "PRECHARGE"} => p.ba \in Banks)
  BY DEF IInv, PinsInv, Typed
<1>2. now.row = sim.row /\ now.burst = sim.burst
  BY DEF S!Stage
<1>3. CASE p.op = "ACTIVE"
  <2>1. c = S!Stage([sim.row EXCEPT ![p.ba] = <<p.a>>], S!Cut(now, p.ba))
    BY <1>3 DEF S!AfterCommand, S!Reads, S!Writes
  <2>2. S!Cut(now, p.ba) = sim.burst
    BY <1>2, <1>3, NoCut DEF S!Cut
  <2> QED BY <2>1, <2>2, <1>1, <1>3 DEF S!Stage, OnPins, Reads64, Writes64
<1>4. CASE p.op = "PRECHARGE"
  <2>1. c = S!Stage([sim.row EXCEPT ![p.ba] = S!Nothing], S!Cut(now, p.ba))
    BY <1>4 DEF S!AfterCommand, S!Close, S!Reads, S!Writes
  <2>2. S!Cut(now, p.ba) = sim.burst
    BY <1>2, <1>4, NoCut DEF S!Cut
  <2> QED BY <2>1, <2>2, <1>1, <1>4 DEF S!Stage, OnPins, Reads64, Writes64
<1>5. CASE p.op = "PRECHARGE_ALL"
  <2>1. c = S!Stage([b \in Banks |-> S!Nothing], S!None)
    BY <1>5 DEF S!AfterCommand, S!Reads, S!Writes
  <2>2. sim.burst = S!None
    BY <1>5, NoCut
  <2> QED BY <2>1, <2>2, <1>5 DEF S!Stage, OnPins, Reads64, Writes64
<1>6. CASE Reads64(p) \/ Writes64(p)
  <2>1. c = S!Stage(S!Terminate(now).row, S!Start(p))
    BY <1>6 DEF S!AfterCommand, S!Reads, S!Writes, Reads64, Writes64
  <2>2. S!Terminate(now).row = IF sim.burst # S!None /\ sim.burst.auto
                               THEN [sim.row EXCEPT ![sim.burst.ba] = S!Nothing] ELSE sim.row
    BY <1>2 DEF S!Terminate, S!Close, S!Stage
  <2> QED BY <2>1, <2>2, <1>1, <1>6 DEF S!Stage, OnPins, Reads64, Writes64
<1>7. CASE p.op \in {"NOP", "REFRESH"}
  <2>1. c = now
    BY <1>7 DEF S!AfterCommand, S!Reads, S!Writes
  <2> QED BY <2>1, <1>2, <1>1, <1>7 DEF S!Stage, OnPins, Reads64, Writes64
<1> QED BY <1>1, <1>3, <1>4, <1>5, <1>6, <1>7 DEF Reads64, Writes64

LEMMA Started ==
  ASSUME IInv
  PROVE  LET p == out.pins IN
         /\ Reads64(p) =>
              S!Start(p) = ReadBurst(p.ba, S!RowOf(p.ba), p.a % Page, 0, 2)
         /\ Writes64(p) =>
              S!Start(p) = [kind |-> "WRITE", ba |-> p.ba, row |-> S!RowOf(p.ba),
                            col |-> p.a % Page, beat |-> 0, len |-> 1, wait |-> 0,
                            stop |-> 0, full |-> FALSE, auto |-> p.op = "WRITEA"]
<1>1. /\ sim.mode.len = BurstLen /\ ~ sim.mode.full /\ sim.mode.cas = 2 /\ sim.mode.single
      /\ sim.mode.full = FALSE
  BY DEF IInv, Typed, Mode
<1>2. Reads64(out.pins) =>
              S!Start(out.pins) = ReadBurst(out.pins.ba, S!RowOf(out.pins.ba), out.pins.a % Page, 0, 2)
  <2>1. SUFFICES ASSUME Reads64(out.pins)
                 PROVE  S!Start(out.pins) =
                          ReadBurst(out.pins.ba, S!RowOf(out.pins.ba), out.pins.a % Page, 0, 2)
    OBVIOUS
  <2>2. PICK b \in Banks : out.pins.ba = b /\ bank[b].st = READ
    BY <2>1 DEF IInv, PinsInv, Reads64
  <2>3. out.pins = [op |-> TransferOp(b, slots[b].wr), ba |-> b, a |-> slots[b].a]
    BY <2>2 DEF IInv, PinsInv
  <2>4. out.pins.op = TransferOp(b, slots[b].wr)
    BY <2>3
  <2>5. (out.pins.op = "READA") = (b \in auto)
    BY <2>1, <2>4 DEF TransferOp, Reads64
  <2> QED BY <1>1, <2>1, <2>2, <2>5 DEF S!Start, S!Reads, S!Writes, S!Auto, Reads64, ReadBurst
<1>3. Writes64(out.pins) =>
              S!Start(out.pins) = [kind |-> "WRITE", ba |-> out.pins.ba, row |-> S!RowOf(out.pins.ba),
                            col |-> out.pins.a % Page, beat |-> 0, len |-> 1, wait |-> 0,
                            stop |-> 0, full |-> FALSE, auto |-> out.pins.op = "WRITEA"]
  BY <1>1 DEF S!Start, S!Reads, S!Writes, S!Auto, Writes64
<1> QED BY <1>2, <1>3

(* A read burst that is not stopped takes a beat, or a clock of latency.   *)
LEMMA ReadBeat ==
  ASSUME NEW s, NEW row, NEW burst, s = S!Stage(row, burst), burst # S!None,
         burst.kind = "READ", burst.stop = 0, ~ burst.full, burst.len = BurstLen,
         burst.wait \in Nat
  PROVE  /\ S!AfterWrite(s) = s
         /\ S!AfterRead(s).burst = GoesOn(burst)
         /\ \A b \in DOMAIN row : burst.ba # b \/ ~ burst.auto \/ burst.wait > 0 =>
              S!AfterRead(s).row[b] = row[b]
         /\ DOMAIN S!AfterRead(s).row = DOMAIN row
<1>1. s.row = row /\ s.burst = burst
  BY DEF S!Stage
<1>2. S!Does(s, "READ") /\ ~ S!Does(s, "WRITE")
  BY <1>1 DEF S!Does
<1>3. S!AfterWrite(s) = s
  BY <1>2 DEF S!AfterWrite
<1>4. CASE burst.wait > 0
  <2>1. S!AfterRead(s) = S!Stage(row, [burst EXCEPT !.wait = @ - 1])
    BY <1>1, <1>2, <1>4 DEF S!AfterRead
  <2> QED BY <2>1, <1>3, <1>4 DEF S!Stage, GoesOn
<1>5. CASE burst.wait = 0
  <2> DEFINE t == S!Beat(s)
  <2>1. S!AfterRead(s) = t
    BY <1>1, <1>2, <1>5 DEF S!AfterRead
  <2>2. CASE burst.beat + 1 >= BurstLen
    <3>1. t = S!Terminate(s)
      BY <1>1, <2>2 DEF S!Beat
    <3>2. t = S!Stage(IF burst.auto THEN S!Close(row, burst.ba) ELSE row, S!None)
      BY <3>1, <1>1 DEF S!Terminate
    <3>3. t.burst = S!None /\ t.row = IF burst.auto THEN S!Close(row, burst.ba) ELSE row
      BY <3>2 DEF S!Stage
    <3> QED BY <3>3, <2>1, <2>2, <1>3, <1>5 DEF GoesOn, S!Close
  <2>3. CASE ~ (burst.beat + 1 >= BurstLen)
    <3>1. t = S!Stage(row, [burst EXCEPT !.beat = (@ + 1) % BurstLen])
      BY <1>1, <2>3 DEF S!Beat
    <3> QED BY <3>1, <2>1, <2>3, <1>3, <1>5 DEF GoesOn, S!Stage
  <2> QED BY <2>2, <2>3
<1> QED BY <1>4, <1>5

(* The SDRAM after the clock.                                              *)
LEMMA SimStep64 ==
  ASSUME IInv, SimNext
  PROVE  LET p == out.pins IN
         /\ sim'.mode = Mode /\ sim'.dqm = <<sim.dqm[2], Masks(p)>> /\ DOMAIN sim'.row = Banks
         /\ Reads64(p) =>
              sim'.burst = ReadBurst(p.ba, S!RowOf(p.ba), p.a % Page, 0, 1)
         /\ Writes64(p) => sim'.burst = S!None
         /\ ~ Reads64(p) /\ ~ Writes64(p) =>
              sim'.burst = IF sim.burst = S!None THEN S!None ELSE GoesOn(sim.burst)
         /\ \A b \in Banks :
              /\ OnPins(b, {"ACTIVE"}) => sim'.row[b] = <<p.a>>
              /\ /\ ~ OnPins(b, {"ACTIVE", "PRECHARGE", "WRITEA"}) /\ p.op # "PRECHARGE_ALL"
                 /\ ~ (sim.burst # S!None /\ sim.burst.ba = b /\ sim.burst.auto)
                 => sim'.row[b] = sim.row[b]
<1> DEFINE p == out.pins
           c == S!AfterCommand(p)
           s == S!AfterRead(S!AfterWrite(c))
<1>1. /\ sim'.row = s.row /\ sim'.burst = s.burst /\ sim'.dqm = <<sim.dqm[2], Masks(p)>>
      /\ sim'.mode = Mode
  BY DEF SimNext, S!SimStep, IInv, Typed
<1>2. /\ c = S!Stage(c.row, c.burst)
      /\ Reads64(p) \/ Writes64(p) => c.burst = S!Start(p)
      /\ ~ Reads64(p) /\ ~ Writes64(p) => c.burst = sim.burst
      /\ DOMAIN c.row = Banks
      /\ \A b \in Banks :
           /\ OnPins(b, {"ACTIVE"}) => c.row[b] = <<p.a>>
           /\ /\ ~ OnPins(b, {"ACTIVE", "PRECHARGE"}) /\ p.op # "PRECHARGE_ALL"
              /\ ~ (sim.burst # S!None /\ sim.burst.ba = b /\ sim.burst.auto)
              => c.row[b] = sim.row[b]
  BY Commanded
<1> HIDE DEF c
<1>3. sim.burst # S!None => /\ sim.burst.kind = "READ" /\ sim.burst.stop = 0 /\ ~ sim.burst.full
                            /\ sim.burst.len = BurstLen /\ sim.burst.wait \in Nat
  BY BurstFacts
<1>4. CASE Reads64(p)
  <2> DEFINE burst == ReadBurst(p.ba, S!RowOf(p.ba), p.a % Page, 0, 2)
  <2>1. c.burst = burst
    BY <1>2, <1>4, Started
  <2>2. /\ burst # S!None /\ burst.kind = "READ" /\ burst.stop = 0 /\ ~ burst.full
        /\ burst.len = BurstLen /\ burst.wait = 2
    BY BurstFields
  <2>3. /\ s.burst = GoesOn(burst) /\ DOMAIN s.row = Banks
        /\ \A b \in Banks : s.row[b] = c.row[b]
    BY <1>2, <2>1, <2>2, ReadBeat
  <2>4. s.burst = ReadBurst(p.ba, S!RowOf(p.ba), p.a % Page, 0, 1)
    BY <2>3, BurstGoes
  <2>5. ~ Writes64(p)
    BY <1>4 DEF Reads64, Writes64
  <2> QED BY <1>1, <1>2, <1>4, <2>3, <2>4, <2>5 DEF OnPins
<1>5. CASE Writes64(p)
  <2> DEFINE burst == [kind |-> "WRITE", ba |-> p.ba, row |-> S!RowOf(p.ba),
                       col |-> p.a % Page, beat |-> 0, len |-> 1, wait |-> 0,
                       stop |-> 0, full |-> FALSE, auto |-> p.op = "WRITEA"]
             w == S!AfterWrite(c)
  <2>1. c.burst = burst
    BY <1>2, <1>5, Started
  <2>2. S!Does(c, "WRITE")
    BY <2>1 DEF S!Does, S!None
  <2>3. w = S!Terminate(c)
    BY <2>1, <2>2 DEF S!AfterWrite, S!Beat
  <2>4. w = S!Stage(IF p.op = "WRITEA" THEN [c.row EXCEPT ![p.ba] = S!Nothing] ELSE c.row, S!None)
    <3>1. c.burst.kind = "WRITE" /\ c.burst.ba = p.ba
      BY <2>1
    <3>2. c.burst.auto = (p.op = "WRITEA")
      BY <2>1
    <3>3. c.burst # S!None
      BY <3>1 DEF S!None
    <3> QED BY <2>3, <3>1, <3>2, <3>3 DEF S!Terminate, S!Close
  <2>5. w.burst = S!None
        /\ w.row = IF p.op = "WRITEA" THEN [c.row EXCEPT ![p.ba] = S!Nothing] ELSE c.row
    BY <2>4 DEF S!Stage
  <2>6. s = w
    BY <2>5 DEF S!AfterRead, S!Does
  <2>7. ~ Reads64(p)
    BY <1>5 DEF Reads64, Writes64
  <2> QED BY <1>1, <1>2, <1>5, <2>5, <2>6, <2>7 DEF OnPins, Writes64
<1>6. CASE ~ Reads64(p) /\ ~ Writes64(p) /\ sim.burst = S!None
  <2>1. c.burst = S!None
    BY <1>2, <1>6
  <2>2. s = c
    BY <2>1 DEF S!AfterRead, S!AfterWrite, S!Does
  <2> QED BY <1>1, <1>2, <1>6, <2>1, <2>2 DEF OnPins
<1>7. CASE ~ Reads64(p) /\ ~ Writes64(p) /\ sim.burst # S!None
  <2>1. c.burst = sim.burst
    BY <1>2, <1>7
  <2>2. /\ s.burst = GoesOn(sim.burst) /\ DOMAIN s.row = Banks
        /\ \A b \in Banks : (sim.burst.ba # b \/ ~ sim.burst.auto) => s.row[b] = c.row[b]
    BY <1>2, <1>3, <1>7, <2>1, ReadBeat
  <2>3. \A b \in Banks : OnPins(b, {"ACTIVE"}) => sim.burst.ba # b
    BY <1>7, NoCut DEF OnPins
  <2> QED BY <1>1, <1>2, <1>7, <2>2, <2>3 DEF OnPins
<1> QED BY <1>4, <1>5, <1>6, <1>7

-----------------------------------------------------------------------------
(* The row that a bank believes open is open in the SDRAM.                 *)
LEMMA OpensOnly ==
  ASSUME NEW b \in Banks, IInv, Clock, OnPins(b, {"ACTIVE"})'
  PROVE  Opens(b)
<1> DEFINE p == out'.pins
<1>1. p.op = "ACTIVE" /\ p.ba = b
  BY DEF OnPins
<1>2. ASSUME \A c \in Banks : ~ Busies(c) PROVE FALSE
  <2>1. rfsh.cmd \in {"NOP", "PRECHARGE_ALL", "REFRESH"}
    BY DEF IInv, RefreshInv, RfshRegs
  <2> QED BY <1>1, <1>2, <2>1, PinsStep DEF RfshCmd, Nop
<1>3. PICK c \in Banks : Busies(c)
  BY <1>2
<1>4. ~ Transfers(c)
  <2>1. Transfers(c) =>
          p = [op |-> TransferOp(c, slots[c].wr), ba |-> c, a |-> slots[c].a]
    BY PinsStep
  <2> QED BY <1>1, <2>1 DEF TransferOp
<1>5. ~ Closes(c)
  <2>1. Closes(c) => p = [op |-> "PRECHARGE", ba |-> c, a |-> slots[c].a]
    BY PinsStep
  <2> QED BY <1>1, <2>1
<1>6. Opens(c)
  BY <1>3, <1>4, <1>5 DEF Busies
<1>7. p = [op |-> "ACTIVE", ba |-> c, a |-> RowOf(slots[c].a)]
  BY <1>6, PinsStep
<1> QED BY <1>1, <1>6, <1>7

LEMMA NextRow ==
  ASSUME NEW b \in Banks, IInv, Clock, SimNext
  PROVE  RowInv(b)'
<1>0. /\ IDLE = 0 /\ PRE_ACT \in 1..2 /\ ACT = PRE_ACT + 1 /\ PRE_RD \in ACT .. ACT + 1
      /\ READ = PRE_RD + 1 /\ BUSY \in Nat /\ bank[b].st \in Nat /\ fast \in BOOLEAN
      /\ bank[b].actd \in BOOLEAN
      /\ STW(Geo(b)) \in Nat /\ READ < STW(Geo(b))
  BY Clocks64, Known DEF BankRegs
<1>1. ACT' = ACT /\ READ' = READ
  BY DEF ACT, READ, PRE_RD, PRE_ACT, Clock
<1>2. Advances(b) /\ RowInv(b) /\ LatchInv(b) /\ PinsInv /\ RefreshInv /\ BurstInv
  BY BankMoves DEF IInv, Clock
<1>3. bank'[b].row = IF Opens(b) THEN RowOf(Seen(b).a) ELSE bank[b].row
  BY Registers DEF Clock
<1>4. bank'[b].actd = (/\ ~ (Closes(b) \/ RfshBg \/ (Transfers(b) /\ b \in auto))
                       /\ bank[b].actd \/ Opens(b))
  BY Registers DEF Clock, Geo
<1>5. Opens(b) => RowOf(Seen(b).a) = RowOf(slots[b].a)
  BY Served DEF Busies
<1>6. Transfers(b) /\ bank[b].st = IDLE => bank[b].actd /\ Seen(b).match /\ ~ (b \in auto)
  BY <1>0, Forms
<1>7. ASSUME ~ Opens(b), bank'[b].actd \/ bank'[b].st \in ACT .. READ
      PROVE  bank[b].actd \/ bank[b].st \in ACT .. READ - 1
  BY <1>0, <1>2, <1>4, <1>6, <1>7 DEF Advances
<1>8. ASSUME bank[b].actd \/ bank[b].st \in ACT .. READ - 1, ~ OnPins(b, {"ACTIVE"})
      PROVE  sim'.row[b] = sim.row[b]
  <2>1. ~ OnPins(b, {"PRECHARGE"})
    <3>1. OnPins(b, {"PRECHARGE"}) => bank[b].st = 1 /\ ~ bank[b].actd
      BY <1>2 DEF PinsInv
    <3> QED BY <3>1, <1>0, <1>8
  <2>2. out.pins.op # "PRECHARGE_ALL"
    BY <1>0, <1>2, <1>8 DEF RefreshInv
  <2>3. b \in auto => bank[b].st \in ACT .. READ - 1
    BY <1>2, <1>8 DEF RowInv, Within
  <2>4. ~ OnPins(b, {"WRITEA"})
    <3>1. SUFFICES ASSUME out.pins.op = "WRITEA", out.pins.ba = b PROVE FALSE
      BY DEF OnPins
    <3>2. bank[b].st = READ
      BY <1>2, <3>1 DEF PinsInv
    <3>3. out.pins = [op |-> TransferOp(b, slots[b].wr), ba |-> b, a |-> slots[b].a]
      BY <1>2, <3>2 DEF PinsInv
    <3>4. b \in auto
      BY <3>1, <3>3 DEF TransferOp
    <3> QED BY <1>0, <2>3, <3>2, <3>4
  <2>5. ~ (sim.burst # S!None /\ sim.burst.ba = b /\ sim.burst.auto)
    <3>1. SUFFICES ASSUME sim.burst # S!None, sim.burst.ba = b, sim.burst.auto PROVE FALSE
      OBVIOUS
    <3>2. bank[b].st \in READ + 1 .. BUSY /\ (sim.burst.auto <=> b \in auto)
      BY <3>1, BurstFacts
    <3> QED BY <1>0, <2>3, <3>1, <3>2
  <2>6. ~ OnPins(b, {"ACTIVE", "PRECHARGE", "WRITEA"})
    BY <1>8, <2>1, <2>4 DEF OnPins
  <2> QED BY <2>2, <2>5, <2>6, SimStep64
<1>9. ASSUME bank'[b].actd \/ bank'[b].st \in ACT .. READ
      PROVE  IF OnPins(b, {"ACTIVE"})' THEN out'.pins.a = bank'[b].row
                                       ELSE sim'.row[b] = <<bank'[b].row>>
  <2>1. CASE Opens(b)
    <3>1. out'.pins = [op |-> "ACTIVE", ba |-> b, a |-> RowOf(slots[b].a)]
      BY <2>1, PinsStep
    <3> QED BY <3>1, <2>1, <1>3, <1>5 DEF OnPins
  <2>2. CASE ~ Opens(b)
    <3>1. ~ OnPins(b, {"ACTIVE"})'
      BY <2>2, OpensOnly
    <3>2. bank[b].actd \/ bank[b].st \in ACT .. READ - 1
      BY <1>7, <1>9, <2>2
    <3>3. IF OnPins(b, {"ACTIVE"}) THEN out.pins.a = bank[b].row
                                   ELSE sim.row[b] = <<bank[b].row>>
      <4>1. bank[b].actd \/ Within(b, ACT, READ)
        BY <1>0, <3>2 DEF Within
      <4> QED BY <4>1, <1>2 DEF RowInv, RowReg
    <3>4. sim'.row[b] = <<bank[b].row>>
      <4>1. CASE OnPins(b, {"ACTIVE"})
        BY <3>3, <4>1, SimStep64
      <4>2. CASE ~ OnPins(b, {"ACTIVE"})
        BY <1>8, <3>2, <3>3, <4>2
      <4> QED BY <4>1, <4>2
    <3> QED BY <3>1, <3>4, <2>2, <1>3
  <2> QED BY <2>1, <2>2
<1>10. ASSUME bank'[b].st \in ACT .. READ
       PROVE  bank'[b].row = RowOf(slots'[b].a)
  <2>1. bank'[b].st \in 1..READ
    BY <1>0, <1>10
  <2>2. slots'[b] = slots[b]
    BY <2>1, WorkStep
  <2>3. CASE Opens(b)
    BY <2>2, <2>3, <1>3, <1>5
  <2>4. CASE Transfers(b) /\ bank[b].st = IDLE
    <3>1. Seen(b).match /\ Seen(b).a = slots[b].a /\ (Seen(b).rd \/ Seen(b).wr)
      <4>1. Seen(b).rd = ~ slots[b].wr /\ wrl[b] = slots[b].wr /\ Seen(b).a = slots[b].a
        BY <2>4, Served DEF Busies
      <4>2. wrl[b] => Seen(b).wr
        <5>1. ~ Within(b, READ + 1, IF fast THEN READ + 2 ELSE READ + 1)
          BY <1>0, <2>4 DEF Within
        <5> QED BY <5>1, <1>2 DEF LatchInv
      <4> QED BY <4>1, <4>2, <2>4, <1>6
    <3>2. RowOf(slots[b].a) = bank[b].row
      <4>1. CASE fast
        <5>1. latch[b].match /\ latch[b].a = slots[b].a
          BY <3>1, <4>1 DEF Seen
        <5> QED BY <5>1, <4>1, <2>4, <1>0, <1>2 DEF LatchInv, RowReg
      <4>2. CASE ~ fast
        BY <3>1, <4>2 DEF Seen, Asked
      <4> QED BY <4>1, <4>2
    <3>3. ~ Opens(b)
      BY <2>4, <1>2 DEF Advances
    <3> QED BY <3>2, <3>3, <2>2, <1>3
  <2>5. CASE ~ Opens(b) /\ ~ (Transfers(b) /\ bank[b].st = IDLE)
    <3>1. bank[b].st \in ACT .. READ
      BY <2>5, <1>0, <1>2, <1>10 DEF Advances
    <3>2. bank[b].row = RowOf(slots[b].a)
      BY <3>1, <1>2 DEF RowInv, RowReg, Within
    <3> QED BY <3>2, <2>2, <2>5, <1>3
  <2> QED BY <2>3, <2>4, <2>5
<1>11. bank'[b].st \in 1 .. ACT - 1 => ~ bank'[b].actd
  <2>1. SUFFICES ASSUME bank'[b].st \in 1 .. ACT - 1, ~ Closes(b) PROVE ~ bank'[b].actd
    BY <1>4
  <2>2. ~ Opens(b) /\ bank[b].st \in 1 .. ACT - 1
    BY <2>1, <1>0, <1>2 DEF Advances
  <2>3. ~ bank[b].actd
    BY <2>2, <1>2 DEF RowInv, Within
  <2> QED BY <2>2, <2>3, <1>4
<1>12. b \in auto /\ bank'[b].actd => bank'[b].st \in ACT .. READ - 1
  <2>1. SUFFICES ASSUME b \in auto, bank'[b].actd PROVE bank'[b].st \in ACT .. READ - 1
    OBVIOUS
  <2>2. ~ Closes(b) /\ ~ Transfers(b)
    BY <2>1, <1>4
  <2>3. CASE Opens(b)
    BY <2>3, <1>0, <1>2 DEF Advances
  <2>4. CASE ~ Opens(b)
    <3>1. bank[b].st \in ACT .. READ - 1
      BY <2>1, <2>4, <1>2, <1>4 DEF RowInv, Within
    <3> QED BY <3>1, <2>2, <2>4, <1>0, <1>2 DEF Advances
  <2> QED BY <2>3, <2>4
<1>13. auto' = auto
  BY DEF Clock
<1> QED BY <1>1, <1>9, <1>10, <1>11, <1>12, <1>13 DEF RowInv, Within, RowReg

-----------------------------------------------------------------------------
(* The data pins are reserved for as long as they are used.                *)
LEMMA NextBusy ==
  ASSUME IInv, Clock
  PROVE  BusyInv'
<1>0. /\ READ' = READ /\ BUSY' = BUSY /\ \A b \in Banks : Last(b)' = Last(b)
  BY DEF READ, BUSY, DST, Last, RDY, Geo, LenOf, PRE_RD, PRE_ACT, Clock
<1>1. READ \in Nat /\ BUSY \in Nat /\ READ >= 3 /\ READ + 2 <= BUSY
  <2>1. Banks # {}
    BY Sdram64Assumption
  <2> QED BY <2>1, Clocks64, Known
<1>2. ASSUME NEW b \in Banks
      PROVE  /\ Last(b) \in Nat /\ READ + 2 <= Last(b) /\ bank[b].st \in Nat /\ bank'[b].st \in Nat
             /\ bank'[b].st < READ \/ bank'[b].st = READ \/ bank'[b].st = bank[b].st + 1
  <2>1. Advances(b)
    BY BankMoves DEF IInv, Clock
  <2>2. IDLE = 0 /\ PRE_ACT \in 1..2 /\ ACT = PRE_ACT + 1 /\ PRE_RD \in ACT .. ACT + 1
        /\ READ = PRE_RD + 1 /\ Last(b) \in Nat /\ READ + 2 <= Last(b) /\ bank[b].st \in Nat
    BY Clocks64, Known
  <2> QED BY <2>1, <2>2 DEF Advances
<1>3. /\ out'.dbusy = (\E b \in Banks : bank[b].in_busy \/ Transfers(b))
      /\ out'.dbusy64 = (\E b \in Banks : bank[b].in_busy64 \/ Transfers(b))
  BY Pins64 DEF Clock
<1>4. \A b \in Banks : bank'[b].st = READ <=> Transfers(b)
  BY ReadsOnly
<1>5. ASSUME NEW b \in Banks
      PROVE  /\ bank[b].st \in READ .. Last(b) - 2 => bank[b].in_busy
             /\ bank[b].in_busy64 <=> bank[b].st \in READ .. BUSY
             /\ bank[b].dqm_busy <=> bank[b].st \in READ .. Last(b) - 2
             /\ bank[b].st \in READ .. Last(b) - 1 => out.dbusy
             /\ bank[b].st \in READ .. BUSY + 1 => out.dbusy64
             /\ bank[b] \in BankRegs
  BY Known DEF IInv, BusyInv, Within
<1>6. ASSUME NEW b \in Banks
      PROVE  /\ bank'[b].in_busy =
                  (\/ bank'[b].st = READ
                   \/ /\ bank[b].in_busy
                      /\ bank[b].st # IF LenOf(b) = 1 THEN READ + 1 ELSE Last(b) - 2
                      /\ ~ (bank'[b].st < READ))
             /\ bank'[b].in_busy64 = (\/ bank'[b].st = READ
                                      \/ bank[b].in_busy64 /\ bank[b].st # BUSY
                                                           /\ ~ (bank'[b].st < READ))
             /\ bank'[b].dqm_busy = (\/ bank'[b].st = READ
                                     \/ bank[b].dqm_busy /\ bank[b].st # Last(b) - 2
                                                         /\ ~ (bank'[b].st < READ))
  BY Registers DEF Clock, Geo
<1>7. ASSUME NEW b \in Banks
      PROVE  /\ bank'[b].in_busy64 <=> bank'[b].st \in READ .. BUSY
             /\ bank'[b].dqm_busy <=> bank'[b].st \in READ .. Last(b) - 2
  <2>1. bank[b].in_busy64 \in BOOLEAN /\ bank[b].dqm_busy \in BOOLEAN
    BY <1>5 DEF BankRegs
  <2>2. bank'[b].in_busy64 \in BOOLEAN /\ bank'[b].dqm_busy \in BOOLEAN
    BY <1>6
  <2>3. Last(b) - 2 \in Nat /\ READ <= Last(b) - 2
    BY <1>1, <1>2
  <2>4. /\ READ \in Nat /\ BUSY \in Nat /\ READ <= BUSY
        /\ bank[b].st \in Nat /\ bank'[b].st \in Nat
        /\ bank'[b].st < READ \/ bank'[b].st = READ \/ bank'[b].st = bank[b].st + 1
    BY <1>1, <1>2
  <2>5. bank'[b].in_busy64 <=> bank'[b].st \in READ .. BUSY
    <3>1. bank'[b].in_busy64 <=>
            bank'[b].st = READ \/ (bank[b].in_busy64 /\ bank[b].st # BUSY /\ ~ (bank'[b].st < READ))
      BY <1>6
    <3>2. bank[b].in_busy64 <=> bank[b].st \in READ .. BUSY
      BY <1>5
    <3> QED BY <2>1, <2>2, <2>4, <3>1, <3>2, Window64
  <2>6. bank'[b].dqm_busy <=> bank'[b].st \in READ .. Last(b) - 2
    <3>1. bank'[b].dqm_busy <=>
            \/ bank'[b].st = READ
            \/ (bank[b].dqm_busy /\ bank[b].st # Last(b) - 2 /\ ~ (bank'[b].st < READ))
      BY <1>6
    <3>2. bank[b].dqm_busy <=> bank[b].st \in READ .. Last(b) - 2
      BY <1>5
    <3> QED BY <2>1, <2>2, <2>3, <2>4, <3>1, <3>2, Window64
  <2> QED BY <2>5, <2>6
<1>8. ASSUME NEW b \in Banks, bank'[b].st \in READ .. Last(b) - 2
      PROVE  bank'[b].in_busy
  <2>1. LenOf(b) = 1 => Last(b) = READ + 2
    BY Clocks64, Known
  <2>2. CASE bank'[b].st # READ
    <3>1. bank[b].st \in READ .. Last(b) - 2 /\ bank[b].st # Last(b) - 2
          /\ ~ (bank'[b].st < READ)
      BY <2>2, <1>1, <1>2, <1>8
    <3>2. LenOf(b) # 1
      BY <2>1, <2>2, <1>1, <1>8
    <3> QED BY <3>1, <3>2, <1>5, <1>6
  <2> QED BY <2>2, <1>6
<1>9. ASSUME NEW b \in Banks, bank'[b].in_busy
      PROVE  out'.dbusy
  BY <1>3, <1>4, <1>6, <1>9
<1>10. ASSUME NEW b \in Banks, bank'[b].st \in READ .. Last(b) - 1
       PROVE  out'.dbusy
  <2>1. CASE bank'[b].st # READ
    <3>1. bank[b].st \in READ .. Last(b) - 2
      BY <2>1, <1>1, <1>2, <1>10
    <3> QED BY <3>1, <1>3, <1>5
  <2> QED BY <2>1, <1>3, <1>4
<1>11. ASSUME NEW b \in Banks, bank'[b].st \in READ .. BUSY + 1
       PROVE  out'.dbusy64
  <2>1. CASE bank'[b].st # READ
    <3>1. bank[b].st \in READ .. BUSY
      BY <2>1, <1>1, <1>2, <1>11
    <3> QED BY <3>1, <1>3, <1>5
  <2> QED BY <2>1, <1>3, <1>4
<1>12. ASSUME NEW b \in Banks, bank'[b].st = READ, NEW c \in Banks \ {b}
       PROVE  ~ (bank'[c].st \in READ .. Last(c))
  <2>1. Transfers(b)
    BY <1>4, <1>12
  <2>2. ~ out.dbusy
    BY <2>1, Forms
  <2>3. ~ (bank[c].st \in READ .. Last(c) - 1)
    BY <2>2, <1>5
  <2>4. bank'[c].st # READ
    BY <2>1, <1>4, Alone DEF Busies
  <2> QED BY <2>3, <2>4, <1>1, <1>2
<1>13. ASSUME out'.pins.op \in {"WRITE", "WRITEA"}, NEW b \in Banks
       PROVE  ~ (bank'[b].st \in READ + 1 .. BUSY)
  <2>1. PICK c \in Banks : bank'[c].st = READ
    <3>1. PinsInv'
      BY NextPinsInv
    <3> QED BY <3>1, <1>0, <1>13 DEF PinsInv
  <2>2. Transfers(c)
    BY <2>1, <1>4
  <2>3. out'.pins = [op |-> TransferOp(c, slots[c].wr), ba |-> c, a |-> slots[c].a]
    BY <2>2, PinsStep
  <2>4. slots[c].wr
    BY <2>3, <1>13 DEF TransferOp
  <2>5. ~ Seen(c).rd
    BY <2>2, <2>4, Served DEF Busies
  <2>6. ~ out.dbusy64
    BY <2>2, <2>5, Forms
  <2>7. ~ (bank[b].st \in READ .. BUSY + 1)
    BY <2>6, <1>5
  <2> QED BY <2>7, <1>1, <1>2
<1> QED BY <1>0, <1>7, <1>8, <1>9, <1>10, <1>11, <1>12, <1>13 DEF BusyInv, Within

-----------------------------------------------------------------------------
(* An address is a row and a column, and the beats of a burst count up     *)
(* from its column.                                                        *)
LEMMA SplitAddr ==
  ASSUME NEW a \in Nat
  PROVE  /\ RowOf(a) \in Nat /\ a % Page \in Nat
         /\ (RowOf(a) * Page) + (a % Page) = a
BY Sdram64Assumption DEF RowOf

LEMMA BurstAligned ==
  ASSUME NEW a \in Nat, a % BurstLen = 0
  PROVE  (a % Page) % BurstLen = 0
<1>0. BurstLen \in {1, 2, 4} /\ Page \in Nat \ {0} /\ Page % BurstLen = 0
  BY Sdram64Assumption
<1>1. PICK l \in Nat : Page = l * BurstLen
  <2>1. CASE BurstLen = 1
    BY <2>1, <1>0
  <2>2. CASE BurstLen = 2
    BY <2>2, <1>0
  <2>3. CASE BurstLen = 4
    BY <2>3, <1>0
  <2> QED BY <2>1, <2>2, <2>3, <1>0
<1>2. PICK k \in Nat : a = k * BurstLen
  <2>1. CASE BurstLen = 1
    BY <2>1, <1>0
  <2>2. CASE BurstLen = 2
    BY <2>2, <1>0
  <2>3. CASE BurstLen = 4
    BY <2>3, <1>0
  <2> QED BY <2>1, <2>2, <2>3, <1>0
<1>3. PICK q \in Nat : a % Page \in Nat /\ (q * Page) + (a % Page) = a
  BY SplitAddr
<1>4. PICK m \in Nat : m = q * l
  BY <1>1, <1>3
<1>5. q * Page = m * BurstLen
  BY <1>0, <1>1, <1>4
<1>6. a % Page = (k - m) * BurstLen
  BY <1>0, <1>2, <1>3, <1>5
<1> QED BY <1>0, <1>3, <1>6

LEMMA BeatCell ==
  ASSUME NEW c \in Nat, c % BurstLen = 0, NEW i \in 0 .. BurstLen - 1
  PROVE  ((c \div BurstLen) * BurstLen) + ((c + i) % BurstLen) = c + i
BY Sdram64Assumption

(* While its data come a request stays as it is.                           *)
LEMMA RequestKept ==
  ASSUME NEW b \in Banks, IInv, Clock, bank[b].st \in READ .. Last(b)
  PROVE  /\ slots'[b].wr = slots[b].wr /\ slots'[b].a = slots[b].a /\ slots'[b].st = "WAIT"
         /\ slots'[b].n = IF Moves(b) THEN slots[b].n + 1 ELSE slots[b].n
         /\ ~ Busies(b)
         /\ bank'[b].st = IF /\ ~ (bank[b].st = READ /\ wrl[b] /\ ~ (b \in auto))
                             /\ bank[b].st + 1 < STW(Geo(b))
                          THEN bank[b].st + 1 ELSE IDLE
<1>0. /\ IDLE = 0 /\ PRE_ACT \in 1..2 /\ ACT = PRE_ACT + 1 /\ PRE_RD \in ACT .. ACT + 1
      /\ READ = PRE_RD + 1 /\ Last(b) \in Nat /\ bank[b].st \in Nat /\ STW(Geo(b)) \in Nat
      /\ bank[b].st < STW(Geo(b))
  BY Clocks64, Known
<1>1. Advances(b) /\ SlotMove(b) /\ AnswerInv(b)
  BY BankMoves, SlotMoves DEF IInv, Clock
<1>2. ~ Free(b) /\ (bank[b].st # READ => slots[b].st = "WAIT")
  <2>1. CASE bank[b].st = READ
    <3>1. Within(b, 1, READ)
      BY <1>0, <2>1 DEF Within
    <3> QED BY <2>1, <3>1, Works
  <2>2. CASE bank[b].st # READ
    BY <1>0, <1>1, <2>2 DEF AnswerInv, Within, Free
  <2> QED BY <2>1, <2>2
<1>3. ~ Busies(b)
  BY <1>0, <1>1 DEF Advances, Busies
<1>4. bank'[b].st = IF /\ ~ (bank[b].st = READ /\ wrl[b] /\ ~ (b \in auto))
                       /\ bank[b].st + 1 < STW(Geo(b))
                    THEN bank[b].st + 1 ELSE IDLE
  BY <1>0, <1>1, <1>3 DEF Advances, Busies
<1> QED BY <1>1, <1>2, <1>3, <1>4 DEF SlotMove

(* What is on the data pins, from the SDRAM and to it.                     *)
LEMMA SimData ==
  ASSUME IInv
  PROVE  /\ ~ Reads64(out.pins) /\ ~ Writes64(out.pins) /\ sim.burst # S!None
            /\ sim.burst.wait = 0 /\ ~ sim.dqm[1]
            => S!SimOut(out.pins) = S!CellOf(sim.burst)
         /\ S!SimStores(out.pins) =
              IF Writes64(out.pins) THEN S!CellOf(S!Start(out.pins)) ELSE S!Nothing
<1> DEFINE p == out.pins
           c == S!AfterCommand(p)
<1>1. /\ c = S!Stage(c.row, c.burst)
      /\ Reads64(p) \/ Writes64(p) => c.burst = S!Start(p)
      /\ ~ Reads64(p) /\ ~ Writes64(p) => c.burst = sim.burst
  BY Commanded
<1> HIDE DEF c
<1>2. ASSUME ~ Reads64(p), ~ Writes64(p), sim.burst # S!None, sim.burst.wait = 0, ~ sim.dqm[1]
      PROVE  S!SimOut(p) = S!CellOf(sim.burst)
  <2>1. c.burst = sim.burst /\ sim.burst.kind = "READ"
    BY <1>1, <1>2, BurstFacts
  <2>2. S!AfterWrite(c) = c
    BY <2>1 DEF S!AfterWrite, S!Does
  <2> QED BY <1>2, <2>1, <2>2 DEF S!SimOut, S!Does, c
<1>3. Writes64(p) => S!SimStores(p) = S!CellOf(S!Start(p))
  <2>1. Writes64(p) => c.burst = S!Start(p) /\ S!Start(p).kind = "WRITE"
    BY <1>1, Started
  <2>2. Writes64(p) => S!Does(c, "WRITE")
    BY <2>1 DEF S!Does, S!None
  <2> QED BY <2>1, <2>2 DEF S!SimStores, c
<1>4. ~ Writes64(p) => S!SimStores(p) = S!Nothing
  <2>1. Reads64(p) => c.burst.kind = "READ"
    BY <1>1, Started, BurstFields
  <2>2. ~ Reads64(p) /\ ~ Writes64(p) => c.burst = S!None \/ c.burst.kind = "READ"
    BY <1>1, BurstFacts
  <2>3. ~ Writes64(p) => ~ S!Does(c, "WRITE")
    BY <2>1, <2>2 DEF S!Does
  <2> QED BY <2>3 DEF S!SimStores, c
<1> QED BY <1>2, <1>3, <1>4

(* While the data of a bank come, no command starts another burst.         *)
LEMMA Undisturbed ==
  ASSUME NEW b \in Banks, IInv, bank[b].st \in READ + 1 .. Last(b)
  PROVE  ~ Reads64(out.pins) /\ ~ Writes64(out.pins)
<1>1. SUFFICES ASSUME Reads64(out.pins) \/ Writes64(out.pins) PROVE FALSE
  OBVIOUS
<1>2. out.pins.ba \in Banks /\ bank[out.pins.ba].st = READ
  BY <1>1 DEF Reads64, Writes64, IInv, PinsInv
<1>3. READ \in Nat /\ Last(b) \in Nat
  BY Clocks64, Known
<1>4. bank[b].st # READ /\ bank[b].st \in READ .. Last(b)
  BY <1>3
<1>5. out.pins.ba # b
  BY <1>2, <1>4
<1> QED BY <1>2, <1>4, <1>5 DEF IInv, BusyInv, Within

(* The burst that a read on the pins starts.                               *)
LEMMA BurstStarts ==
  ASSUME NEW b \in Banks, IInv, Clock, SimNext, bank[b].st = READ, ~ slots[b].wr
  PROVE  /\ bank'[b].st = READ + 1
         /\ sim'.burst = ReadBurst(b, RowOf(slots[b].a), slots[b].a % Page, 0, 1)
<1>0. /\ IDLE = 0 /\ PRE_ACT \in 1..2 /\ ACT = PRE_ACT + 1 /\ PRE_RD \in ACT .. ACT + 1
      /\ READ = PRE_RD + 1 /\ READ + 2 <= Last(b) /\ Last(b) \in Nat
      /\ READ + 2 < STW(Geo(b)) /\ STW(Geo(b)) \in Nat
  BY Clocks64, Known
<1>1. out.pins = [op |-> TransferOp(b, slots[b].wr), ba |-> b, a |-> slots[b].a]
  BY DEF IInv, PinsInv
<1>2. /\ out.pins.ba = b /\ out.pins.a = slots[b].a /\ Reads64(out.pins)
      /\ out.pins.op # "ACTIVE"
  BY <1>1 DEF TransferOp, Reads64
<1>3. Within(b, 1, READ) /\ Within(b, ACT, READ) /\ bank[b].st \in READ .. Last(b)
  BY <1>0 DEF Within
<1>4. ~ wrl[b]
  BY <1>3, Works
<1>5. bank'[b].st = READ + 1
  BY <1>0, <1>3, <1>4, RequestKept
<1>6. sim.row[b] = <<bank[b].row>> /\ bank[b].row = RowOf(slots[b].a)
  BY <1>2, <1>3 DEF IInv, RowInv, RowReg, OnPins
<1>7. S!RowOf(b) = RowOf(slots[b].a)
  BY <1>6 DEF S!RowOf, S!Nothing
<1>8. sim'.burst = ReadBurst(b, S!RowOf(b), slots[b].a % Page, 0, 1)
  BY <1>2, SimStep64
<1> QED BY <1>5, <1>7, <1>8

(* The burst that goes on follows the states of its bank.                  *)
LEMMA BurstGoesOn ==
  ASSUME IInv, Clock, SimNext, sim.burst # S!None,
         ~ Reads64(out.pins), ~ Writes64(out.pins)
  PROVE  LET b == sim.burst.ba IN
         IF bank[b].st = BUSY THEN sim'.burst = S!None
         ELSE /\ bank'[b].st = bank[b].st + 1 /\ bank[b].st \in READ + 1 .. BUSY - 1
              /\ sim'.burst = ReadBurst(b, sim.burst.row, sim.burst.col,
                                        IF bank'[b].st <= DST THEN 0 ELSE bank'[b].st - DST,
                                        0)
<1> DEFINE b == sim.burst.ba
           s == bank[b].st
           i == IF s <= DST THEN 0 ELSE s - DST
           w == IF s = READ + 1 THEN 1 ELSE 0
<1>1. /\ b \in Banks /\ s \in READ + 1 .. BUSY
      /\ sim.burst = ReadBurst(b, sim.burst.row, sim.burst.col, i, w)
  BY BurstFacts
<1>2. sim'.burst = GoesOn(sim.burst)
  BY SimStep64
<1>3. /\ IDLE = 0 /\ PRE_ACT \in 1..2 /\ ACT = PRE_ACT + 1 /\ PRE_RD \in ACT .. ACT + 1
      /\ READ = PRE_RD + 1 /\ DST = READ + 2 /\ BUSY = DST + BurstLen - 1
      /\ BurstLen \in {1, 2, 4} /\ STW(Geo(b)) \in Nat /\ BUSY < STW(Geo(b))
  BY <1>1, Clocks64, Known
<1>4. i \in Nat /\ w \in Nat
  BY <1>1, <1>3
<1>5. /\ w > 0 => sim'.burst = ReadBurst(b, sim.burst.row, sim.burst.col, i, w - 1)
      /\ w = 0 /\ i + 1 < BurstLen =>
           sim'.burst = ReadBurst(b, sim.burst.row, sim.burst.col, i + 1, w)
      /\ w = 0 /\ i + 1 >= BurstLen => sim'.burst = S!None
  <2> HIDE DEF i, w
  <2>1. LET r == ReadBurst(b, sim.burst.row, sim.burst.col, i, w) IN
        /\ w > 0 => GoesOn(r) = ReadBurst(b, sim.burst.row, sim.burst.col, i, w - 1)
        /\ w = 0 /\ i + 1 < BurstLen =>
             GoesOn(r) = ReadBurst(b, sim.burst.row, sim.burst.col, i + 1, w)
        /\ w = 0 /\ i + 1 >= BurstLen => GoesOn(r) = S!None
    BY <1>4, BurstGoes
  <2> QED BY <2>1, <1>1, <1>2
<1>6. CASE s = BUSY
  <2>1. w = 0 /\ i + 1 >= BurstLen
    BY <1>3, <1>6
  <2> QED BY <1>5, <1>6, <2>1
<1>7. CASE s # BUSY
  <2>1. s \in READ + 1 .. BUSY - 1
    BY <1>1, <1>3, <1>7
  <2>2. bank'[b].st = s + 1
    <3>1. Advances(b)
      BY <1>1, BankMoves DEF IInv, Clock
    <3> QED BY <3>1, <2>1, <1>3 DEF Advances
  <2>3. \/ w = 1 /\ w - 1 = 0 /\ i = (IF bank'[b].st <= DST THEN 0 ELSE bank'[b].st - DST)
        \/ w = 0 /\ i + 1 < BurstLen
           /\ i + 1 = (IF bank'[b].st <= DST THEN 0 ELSE bank'[b].st - DST)
    BY <1>3, <2>1, <2>2
  <2> HIDE DEF i, w
  <2>4. sim'.burst = ReadBurst(b, sim.burst.row, sim.burst.col,
                               IF bank'[b].st <= DST THEN 0 ELSE bank'[b].st - DST,
                               0)
    BY <1>5, <2>3
  <2> QED BY <1>7, <2>1, <2>2, <2>4
<1> QED BY <1>6, <1>7

LEMMA NextBurst ==
  ASSUME IInv, Clock, SimNext
  PROVE  BurstInv'
<1> DEFINE p == out.pins
<1>0. /\ READ' = READ /\ BUSY' = BUSY /\ DST' = DST /\ \A b \in Banks : Last(b)' = Last(b)
  BY DEF READ, BUSY, DST, Last, RDY, Geo, LenOf, PRE_RD, PRE_ACT, Clock
<1>1. ASSUME NEW b \in Banks
      PROVE  /\ IDLE = 0 /\ PRE_ACT \in 1..2 /\ ACT = PRE_ACT + 1 /\ PRE_RD \in ACT .. ACT + 1
             /\ READ = PRE_RD + 1 /\ DST = READ + 2 /\ BUSY = DST + BurstLen - 1
             /\ Last(b) \in Nat /\ DST <= Last(b) /\ Last(b) <= BUSY /\ BurstLen \in {1, 2, 4}
             /\ STW(Geo(b)) \in Nat /\ BUSY < STW(Geo(b)) /\ bank[b].st \in Nat
  BY Clocks64, Known
<1>2. /\ Reads64(p) => sim'.burst = ReadBurst(p.ba, S!RowOf(p.ba), p.a % Page, 0, 1)
      /\ Writes64(p) => sim'.burst = S!None
      /\ ~ Reads64(p) /\ ~ Writes64(p) /\ sim.burst = S!None => sim'.burst = S!None
      /\ sim'.dqm[2] = Masks(p) /\ sim'.dqm[1] = sim.dqm[2]
  BY SimStep64
(* The bank that puts a read on the pins.                                  *)
<1>3. ASSUME Reads64(p)
      PROVE  p.ba \in Banks /\ bank[p.ba].st = READ /\ ~ slots[p.ba].wr /\ p.a = slots[p.ba].a
  <2>1. p.ba \in Banks /\ bank[p.ba].st = READ
    BY <1>3 DEF Reads64, IInv, PinsInv
  <2>2. p = [op |-> TransferOp(p.ba, slots[p.ba].wr), ba |-> p.ba, a |-> slots[p.ba].a]
    BY <2>1 DEF IInv, PinsInv
  <2>3. p.op = TransferOp(p.ba, slots[p.ba].wr) /\ p.a = slots[p.ba].a
    BY <2>2
  <2> QED BY <1>3, <2>1, <2>3 DEF Reads64, TransferOp
<1>4. ASSUME sim'.burst # S!None
      PROVE  LET b == sim'.burst.ba IN
             /\ b \in Banks /\ bank'[b].st \in READ + 1 .. BUSY
             /\ sim'.burst = ReadBurst(b, sim'.burst.row, sim'.burst.col,
                                       IF bank'[b].st <= DST THEN 0 ELSE bank'[b].st - DST,
                                       IF bank'[b].st = READ + 1 THEN 1 ELSE 0)
             /\ sim'.burst.row \in Nat /\ sim'.burst.col \in Nat
             /\ sim'.burst.col % BurstLen = 0
  <2>1. CASE Reads64(p)
    <3> DEFINE c == p.ba
    <3>1. c \in Banks /\ bank[c].st = READ /\ ~ slots[c].wr /\ p.a = slots[c].a
      BY <1>3, <2>1
    <3>2. /\ bank'[c].st = READ + 1
          /\ sim'.burst = ReadBurst(c, RowOf(slots[c].a), slots[c].a % Page, 0, 1)
      BY <3>1, BurstStarts
    <3>3. /\ sim'.burst.ba = c /\ sim'.burst.row = RowOf(slots[c].a)
          /\ sim'.burst.col = slots[c].a % Page
      BY <3>2, BurstFields
    <3>4. /\ RowOf(slots[c].a) \in Nat /\ slots[c].a % Page \in Nat
          /\ (slots[c].a % Page) % BurstLen = 0
      BY <3>1, Known, SplitAddr, BurstAligned
    <3>5. /\ (IF bank'[c].st <= DST THEN 0 ELSE bank'[c].st - DST) = 0
          /\ (IF bank'[c].st = READ + 1 THEN 1 ELSE 0) = 1
          /\ bank'[c].st \in READ + 1 .. BUSY
      BY <1>1, <3>1, <3>2
    <3> QED BY <3>1, <3>2, <3>3, <3>4, <3>5
  <2>2. CASE ~ Reads64(p)
    <3> DEFINE c == sim.burst.ba
               i == IF bank'[c].st <= DST THEN 0 ELSE bank'[c].st - DST
    <3>1. ~ Writes64(p) /\ sim.burst # S!None
      BY <1>2, <1>4, <2>2
    <3>2. /\ c \in Banks
          /\ sim.burst.row \in Nat /\ sim.burst.col \in Nat /\ sim.burst.col % BurstLen = 0
      BY <3>1, BurstFacts
    <3>3. /\ bank'[c].st = bank[c].st + 1 /\ bank[c].st \in READ + 1 .. BUSY - 1
          /\ sim'.burst = ReadBurst(c, sim.burst.row, sim.burst.col, i, 0)
      BY <1>4, <2>2, <3>1, BurstGoesOn
    <3>4. /\ sim'.burst.ba = c /\ sim'.burst.row = sim.burst.row
          /\ sim'.burst.col = sim.burst.col
      BY <3>3, BurstFields
    <3>5. bank'[c].st \in READ + 1 .. BUSY /\ (IF bank'[c].st = READ + 1 THEN 1 ELSE 0) = 0
      BY <1>1, <3>2, <3>3
    <3> QED BY <3>2, <3>3, <3>4, <3>5
  <2> QED BY <2>1, <2>2
<1>5. ASSUME NEW b \in Banks, bank'[b].st \in READ + 1 .. Last(b), ~ slots'[b].wr
      PROVE  /\ bank[b].st \in READ .. Last(b) - 1 /\ bank'[b].st = bank[b].st + 1
             /\ ~ slots[b].wr /\ slots'[b].a = slots[b].a
  <2>1. Advances(b)
    BY BankMoves DEF IInv, Clock
  <2>2. bank[b].st \in READ .. Last(b) - 1 /\ bank'[b].st = bank[b].st + 1
    BY <1>1, <1>5, <2>1 DEF Advances
  <2>3. bank[b].st \in READ .. Last(b)
    BY <1>1, <2>2
  <2>4. slots'[b].wr = slots[b].wr /\ slots'[b].a = slots[b].a
    BY <2>3, RequestKept
  <2> QED BY <1>5, <2>2, <2>4
<1>6. ASSUME NEW b \in Banks, bank[b].st \in READ + 1 .. Last(b), ~ slots[b].wr
      PROVE  /\ sim.burst # S!None /\ sim.burst.ba = b /\ ~ Reads64(p) /\ ~ Writes64(p)
             /\ (sim.burst.row * Page) + sim.burst.col = slots[b].a
  <2>1. Reading(b, READ + 1, Last(b))
    BY <1>6 DEF Reading, Within
  <2> QED BY <1>6, <2>1, Undisturbed DEF IInv, BurstInv, DataInv
<1>7. ASSUME NEW b \in Banks, bank'[b].st \in READ + 1 .. Last(b), ~ slots'[b].wr
      PROVE  /\ sim'.burst # S!None /\ sim'.burst.ba = b
             /\ (sim'.burst.row * Page) + sim'.burst.col = slots'[b].a
  <2>1. /\ bank[b].st \in READ .. Last(b) - 1 /\ bank'[b].st = bank[b].st + 1
        /\ ~ slots[b].wr /\ slots'[b].a = slots[b].a
    BY <1>5, <1>7
  <2>2. CASE bank[b].st = READ
    <3>1. sim'.burst = ReadBurst(b, RowOf(slots[b].a), slots[b].a % Page, 0, 1)
      BY <2>1, <2>2, BurstStarts
    <3>2. /\ sim'.burst # S!None /\ sim'.burst.ba = b /\ sim'.burst.row = RowOf(slots[b].a)
          /\ sim'.burst.col = slots[b].a % Page
      BY <3>1, BurstFields
    <3>3. (RowOf(slots[b].a) * Page) + (slots[b].a % Page) = slots[b].a
      BY Known, SplitAddr
    <3> QED BY <2>1, <3>2, <3>3
  <2>3. CASE bank[b].st # READ
    <3>1. bank[b].st \in READ + 1 .. Last(b) /\ bank[b].st # BUSY
      BY <1>1, <2>1, <2>3
    <3>2. /\ sim.burst # S!None /\ sim.burst.ba = b /\ ~ Reads64(p) /\ ~ Writes64(p)
          /\ (sim.burst.row * Page) + sim.burst.col = slots[b].a
      BY <1>6, <2>1, <3>1
    <3>3. sim'.burst = ReadBurst(b, sim.burst.row, sim.burst.col,
                                 IF bank'[b].st <= DST THEN 0 ELSE bank'[b].st - DST, 0)
      BY <3>1, <3>2, BurstGoesOn
    <3>4. /\ sim'.burst # S!None /\ sim'.burst.ba = b /\ sim'.burst.row = sim.burst.row
          /\ sim'.burst.col = sim.burst.col
      BY <3>3, BurstFields
    <3> QED BY <2>1, <3>2, <3>4
  <2> QED BY <2>2, <2>3
(* A row that opens, or a write, raises the masks two clocks later.        *)
<1>8. ASSUME NEW b \in Banks, bank'[b].st \in READ .. Last(b) - 2, ~ slots'[b].wr
      PROVE  ~ Masks(out'.pins)
  <2>1. CASE bank'[b].st = READ
    <3>1. PinsInv'
      BY NextPinsInv
    <3>2. out'.pins = [op |-> TransferOp(b, slots[b].wr)', ba |-> b, a |-> slots'[b].a]
      BY <1>0, <2>1, <3>1 DEF PinsInv
    <3>3. out'.pins.op = TransferOp(b, slots[b].wr)'
      BY <3>2
    <3> QED BY <3>3, <1>8 DEF TransferOp, Masks
  <2>2. CASE bank'[b].st # READ
    <3>1. bank'[b].st \in READ + 1 .. Last(b) /\ bank'[b].st \in READ + 1 .. BUSY
      BY <1>1, <1>8, <2>2
    <3>2. bank[b].st \in READ .. Last(b) - 2
      BY <1>1, <1>5, <1>8, <3>1
    <3>3. Masking
      BY <3>2 DEF Masking, IInv, BusyInv, Within
    <3>4. out'.pins.op # "ACTIVE"
      <4>1. SUFFICES ASSUME out'.pins.op = "ACTIVE" PROVE FALSE
        OBVIOUS
      <4>2. PICK c \in Banks : out'.pins.ba = c
        <5>1. PinsInv'
          BY NextPinsInv
        <5> QED BY <4>1, <5>1 DEF PinsInv
      <4>3. Opens(c)
        BY <4>1, <4>2, OpensOnly DEF OnPins
      <4> QED BY <3>3, <4>3, Forms
    <3>5. out'.pins.op \notin {"WRITE", "WRITEA"}
      <4>1. BusyInv'
        BY NextBusy
      <4> QED BY <3>1, <4>1, <1>0 DEF BusyInv, Within
    <3> QED BY <3>4, <3>5 DEF Masks
  <2> QED BY <2>1, <2>2
<1>9. ASSUME NEW b \in Banks, bank'[b].st \in READ + 1 .. Last(b) - 1, ~ slots'[b].wr
      PROVE  ~ sim'.dqm[2]
  <2>1. bank'[b].st \in READ + 1 .. Last(b)
    BY <1>1, <1>9
  <2>2. bank[b].st \in READ .. Last(b) - 2 /\ ~ slots[b].wr
    BY <1>1, <1>5, <1>9, <2>1
  <2> QED BY <2>2, <1>2 DEF IInv, BurstInv, DataInv, Reading, Within
<1>10. ASSUME NEW b \in Banks, bank'[b].st \in READ + 2 .. Last(b), ~ slots'[b].wr
       PROVE  ~ sim'.dqm[1]
  <2>1. bank'[b].st \in READ + 1 .. Last(b)
    BY <1>1, <1>10
  <2>2. bank[b].st \in READ + 1 .. Last(b) - 1 /\ ~ slots[b].wr
    BY <1>1, <1>5, <1>10, <2>1
  <2> QED BY <2>2, <1>2 DEF IInv, BurstInv, DataInv, Reading, Within
<1>11. ASSUME NEW b \in Banks, out'.dok[b], ~ slots'[b].wr
       PROVE  out'.dout = <<b, slots'[b].a + slots'[b].n>>
  <2> DEFINE s == bank[b].st
  <2>1. s \in DST .. Last(b) /\ (out.dok[b] <=> s \in DST + 1 .. Last(b) + 1)
    <3>1. out'.dok[b] = bank[b].dok
      BY Signals DEF Clock
    <3>2. s \in DST .. Last(b)
      BY <1>11, <3>1 DEF IInv, AnswerInv, Within
    <3> QED BY <3>2, <1>1 DEF IInv, AnswerInv, Within
  <2>2. /\ slots'[b].wr = slots[b].wr /\ slots'[b].a = slots[b].a
        /\ slots'[b].n = IF Moves(b) THEN slots[b].n + 1 ELSE slots[b].n
    <3>1. s \in READ .. Last(b)
      BY <1>1, <2>1
    <3> QED BY <3>1, RequestKept
  <2>3. slots[b].n = IF s <= DST + 1 THEN 0 ELSE s - DST - 1
    <3>1. s \in READ + 1 .. Last(b) + 1
      BY <1>1, <2>1
    <3> QED BY <3>1, <1>11, <2>2 DEF IInv, AnswerInv, Within, Count
  <2>4. slots'[b].n = s - DST
    BY <1>1, <1>11, <2>1, <2>2, <2>3 DEF Moves
  <2>5. /\ sim.burst # S!None /\ sim.burst.ba = b /\ ~ Reads64(p) /\ ~ Writes64(p)
        /\ (sim.burst.row * Page) + sim.burst.col = slots[b].a
    <3>1. s \in READ + 1 .. Last(b)
      BY <1>1, <2>1
    <3> QED BY <3>1, <1>6, <1>11, <2>2
  <2>6. /\ sim.burst.wait = 0 /\ sim.burst.beat = s - DST /\ sim.burst.len = BurstLen
        /\ sim.burst.row \in Nat /\ sim.burst.col \in Nat /\ sim.burst.col % BurstLen = 0
    BY <1>1, <2>1, <2>5, BurstFacts
  <2>7. ~ sim.dqm[1]
    <3>1. s \in READ + 2 .. Last(b)
      BY <1>1, <2>1
    <3> QED BY <3>1, <1>11, <2>2 DEF IInv, BurstInv, DataInv, Reading, Within
  <2>8. out'.dout = S!CellOf(sim.burst)
    <3>1. out'.dout = S!SimOut(p)
      BY DEF Clock, OutStep
    <3> QED BY <3>1, <2>5, <2>6, <2>7, SimData
  <2> DEFINE col == sim.burst.col
             i == s - DST
             x == sim.burst.row * Page
  <2>9. ((col \div BurstLen) * BurstLen) + ((col + i) % BurstLen) = col + i
    <3>1. i \in 0 .. BurstLen - 1
      BY <1>1, <2>1
    <3> QED BY <3>1, <2>6, BeatCell
  <2>10. S!CellOf(sim.burst) =
           <<b, x + ((col \div BurstLen) * BurstLen) + ((col + i) % BurstLen)>>
    BY <2>5, <2>6 DEF S!CellOf
  <2>11. x \in Nat /\ (col \div BurstLen) * BurstLen \in Nat /\ (col + i) % BurstLen \in Nat
         /\ i \in Nat /\ col \in Nat
    BY <1>1, <2>1, <2>6, Sdram64Assumption
  <2>12. slots'[b].a + slots'[b].n =
           x + ((col \div BurstLen) * BurstLen) + ((col + i) % BurstLen)
    <3> DEFINE y == (col \div BurstLen) * BurstLen
               z == (col + i) % BurstLen
    <3>1. x + col = slots'[b].a /\ slots'[b].n = i
      BY <2>2, <2>4, <2>5
    <3>2. y + z = col + i /\ x \in Nat /\ y \in Nat /\ z \in Nat /\ i \in Nat /\ col \in Nat
      BY <2>9, <2>11
    <3> HIDE DEF x, y, z, i, col
    <3>3. slots'[b].a + slots'[b].n = x + y + z
      BY <3>1, <3>2
    <3> QED BY <3>3 DEF y, z
  <2> QED BY <2>8, <2>10, <2>12
<1>12. BurstAt'
  <2>1. SUFFICES ASSUME sim'.burst # S!None PROVE BurstAt'
    BY DEF BurstAt, S!None
  <2> DEFINE b == sim'.burst.ba
             i == IF bank'[b].st <= DST THEN 0 ELSE bank'[b].st - DST
             w == IF bank'[b].st = READ + 1 THEN 1 ELSE 0
  <2>2. /\ b \in Banks /\ bank'[b].st \in READ + 1 .. BUSY
        /\ sim'.burst = ReadBurst(b, sim'.burst.row, sim'.burst.col, i, w)
        /\ sim'.burst.row \in Nat /\ sim'.burst.col \in Nat
        /\ sim'.burst.col % BurstLen = 0
    BY <1>4, <2>1
  <2>3. sim'.burst = [kind |-> "READ", ba |-> b, row |-> sim'.burst.row, col |-> sim'.burst.col,
                      beat |-> i, len |-> BurstLen, wait |-> w, stop |-> 0, full |-> FALSE,
                      auto |-> b \in auto']
    BY <2>2 DEF ReadBurst, Clock
  <2> QED BY <1>0, <2>2, <2>3 DEF BurstAt, ReadBurst, Within
<1>13. \A b \in Banks : DataInv(b)'
  BY <1>0, <1>7, <1>8, <1>9, <1>10, <1>11 DEF DataInv, Reading, Within, S!None
<1> QED BY <1>12, <1>13 DEF BurstInv

-----------------------------------------------------------------------------
(* The refresh engine gets the chip when no bank wants it.  At 96 MHz the  *)
(* refreshes that one line adds have been paid when the next one comes,    *)
(* and twice as many fit in the count: help is never raised.               *)
Unhurried == TRUE \notin Overload /\ 2 * Batch <= MaxDebt

RfshNext == \E start \in BOOLEAN : (start => MayStart) /\ RfshStep(start, RfshBg, SeenQuiet)

LEMMA Quiet ==
  ASSUME IInv, RfshBg
  PROVE  \A b \in Banks : ~ Busies(b)
<1> SUFFICES ASSUME NEW b \in Banks, Busies(b) PROVE FALSE
  OBVIOUS
<1>1. bank[b].st = IDLE /\ (SeenQuiet \/ rfsh.help)
  BY DEF RfshBg, AllIdle
<1>2. IDLE = 0 /\ PRE_ACT \in 1..2 /\ ACT = PRE_ACT + 1 /\ PRE_RD \in ACT .. ACT + 1
      /\ READ = PRE_RD + 1
  BY Clocks64, Known
<1>3. Granted(b) /\ Wanted(b)
  BY <1>1, <1>2, Forms DEF Busies
<1>4. SeenQuiet
  BY <1>1, <1>3, Grants DEF IInv
<1>5. ~ Seen(b).rd /\ ~ Seen(b).wr
  <2>1. CASE fast
    BY <1>4, <2>1 DEF SeenQuiet, Seen, IInv, LatchInv
  <2>2. CASE ~ fast
    BY <1>4, <2>2 DEF SeenQuiet, NoReq, Seen, Asked
  <2> QED BY <2>1, <2>2
<1>6. ~ wrl[b]
  <2>1. ~ Within(b, READ + 1, IF fast THEN READ + 2 ELSE READ + 1)
    BY <1>1, <1>2, Known DEF Within
  <2> QED BY <1>5, <2>1 DEF IInv, LatchInv
<1> QED BY <1>3, <1>5, <1>6 DEF Wanted

(* The registers of the engine.                                            *)
LEMMA RfshTyped ==
  ASSUME RefreshInv, NEW start \in BOOLEAN, NEW bg \in BOOLEAN, NEW noreq \in BOOLEAN,
         RfshStep(start, bg, noreq)
  PROVE  /\ (rfsh \in RfshRegs)' /\ fast' = fast
         /\ ~ rfsh'.rfshing => rfsh'.st = 0
         /\ rfsh'.rfshing /\ Ends' => rfsh'.cmd = "NOP"
         /\ rfsh'.rfshing <=> Runs(bg, noreq)
         /\ rfsh'.cnt = CntNext(start) /\ rfsh'.help = HelpNext
<1>1. /\ MaxDebt \in Nat /\ Batch \in 1 .. MaxDebt - 1 /\ fast \in BOOLEAN
      /\ rfsh \in RfshRegs /\ (~ rfsh.rfshing => rfsh.st = 0) /\ fast' = fast
  BY RefreshAssumption DEF RefreshInv, RfshStep
<1>2. /\ Steps \in 6..10 /\ First \in 1..2 /\ Steps' = Steps
      /\ rfsh.cnt \in 0..MaxDebt /\ rfsh.st \in 0 .. Steps - 1 /\ rfsh.rfshing \in BOOLEAN
      /\ rfsh.br \in BOOLEAN /\ rfsh.help \in BOOLEAN /\ rfsh.last \in BOOLEAN
  BY <1>1 DEF Steps, First, RfshRegs
<1>3. rfsh' = [cnt |-> rfsh'.cnt, st |-> rfsh'.st, br |-> rfsh'.br, rfshing |-> rfsh'.rfshing,
               help |-> rfsh'.help, last |-> rfsh'.last, cmd |-> rfsh'.cmd]
      /\ rfsh'.cnt = CntNext(start) /\ rfsh'.st = StNext(bg, noreq)
      /\ rfsh'.br = (~ bg /\ (rfsh.br \/ (rfsh.cnt # 0 /\ ~ rfsh.rfshing)))
      /\ rfsh'.rfshing = Runs(bg, noreq) /\ rfsh'.help = HelpNext /\ rfsh'.last = start
      /\ rfsh'.cmd = CASE rfsh.st = 0 -> "PRECHARGE_ALL"
                       [] rfsh.st = First -> "REFRESH"
                       [] OTHER -> "NOP"
  BY DEF RfshStep
<1>4. CntNext(start) \in 0..MaxDebt
  BY <1>1, <1>2 DEF CntNext, NextCnt
<1>5. /\ StNext(bg, noreq) \in 0 .. Steps - 1
      /\ ~ Runs(bg, noreq) => StNext(bg, noreq) = 0
      /\ StNext(bg, noreq) = Steps - 1 => rfsh.st = Steps - 2
  <2>1. (rfsh.st + 1) % Steps = IF rfsh.st = Steps - 1 THEN 0 ELSE rfsh.st + 1
    BY <1>2
  <2>2. CASE Again(noreq)
    BY <1>1, <1>2, <2>2 DEF StNext, Again, Runs, Ends
  <2>3. CASE ~ Again(noreq) /\ (rfsh.rfshing \/ bg)
    <3>1. StNext(bg, noreq) = (rfsh.st + 1) % Steps
      BY <2>3 DEF StNext
    <3>2. Runs(bg, noreq) <=> rfsh.st # Steps - 1
      BY <2>3 DEF Runs, Ends
    <3> QED BY <1>2, <2>1, <3>1, <3>2
  <2>4. CASE ~ Again(noreq) /\ ~ rfsh.rfshing /\ ~ bg
    BY <1>1, <1>2, <2>4 DEF StNext, Again, Runs, Ends
  <2> QED BY <2>2, <2>3, <2>4
<1>6. rfsh'.cmd \in {"NOP", "PRECHARGE_ALL", "REFRESH"}
      /\ (rfsh'.st = Steps - 1 => rfsh'.cmd = "NOP")
  BY <1>2, <1>3, <1>5
<1>7. rfsh'.br \in BOOLEAN /\ rfsh'.rfshing \in BOOLEAN /\ rfsh'.help \in BOOLEAN
      /\ rfsh'.last \in BOOLEAN
  BY <1>3 DEF Runs, HelpNext
<1>8. (rfsh \in RfshRegs)'
  BY <1>2, <1>3, <1>4, <1>5, <1>6, <1>7 DEF RfshRegs
<1> QED BY <1>1, <1>2, <1>3, <1>5, <1>6, <1>8 DEF Ends

LEMMA NextRefresh ==
  ASSUME Unhurried, IInv, Clock, RfshNext
  PROVE  RefreshInv'
<1>1. PICK start \in BOOLEAN : (start => MayStart) /\ RfshStep(start, RfshBg, SeenQuiet)
  BY DEF RfshNext
<1>2. RefreshInv /\ RfshBg \in BOOLEAN /\ SeenQuiet \in BOOLEAN /\ fast \in BOOLEAN
  BY RefreshAssumption DEF IInv, RefreshInv, RfshBg, SeenQuiet, NoReq, Typed
<1>3. /\ (rfsh \in RfshRegs)' /\ fast' = fast
      /\ ~ rfsh'.rfshing => rfsh'.st = 0
      /\ rfsh'.rfshing /\ Ends' => rfsh'.cmd = "NOP"
      /\ rfsh'.rfshing <=> Runs(RfshBg, SeenQuiet)
      /\ rfsh'.cnt = CntNext(start) /\ rfsh'.help = HelpNext
  BY <1>1, <1>2, RfshTyped
<1>4. fast => rfsh'.cnt <= Batch /\ ~ rfsh'.help
  <2>1. SUFFICES ASSUME fast PROVE rfsh'.cnt <= Batch /\ ~ rfsh'.help
    OBVIOUS
  <2>2. /\ rfsh.cnt \in 0..MaxDebt /\ rfsh.cnt <= Batch /\ ~ rfsh.help
        /\ MaxDebt \in Nat /\ Batch \in 1 .. MaxDebt - 1 /\ 2 * Batch <= MaxDebt
    BY <2>1, <1>2, RefreshAssumption DEF RefreshInv, RfshRegs, Unhurried
  <2>3. start => rfsh.cnt = 0
    BY <1>1, <1>2, <2>1 DEF MayStart, Unhurried
  <2>4. ~ HelpNext
    BY <2>2 DEF HelpNext, NextCnt
  <2>5. CntNext(start) <= Batch
    <3>1. Batch % (MaxDebt + 1) = Batch
      BY <2>2
    <3> QED BY <2>2, <2>3, <3>1 DEF CntNext, Rises, NextCnt
  <2> QED BY <1>3, <2>4, <2>5
<1>5. rfsh'.rfshing => rfsh.rfshing \/ RfshBg
  BY <1>3 DEF Runs
<1>6. rfsh.rfshing \/ RfshBg => \A b \in Banks : ~ Busies(b) /\ bank[b].st = IDLE
  BY <1>2, Quiet, Alone DEF RefreshInv, RfshBg, AllIdle
<1>7. ASSUME rfsh.rfshing \/ RfshBg, NEW b \in Banks
      PROVE  bank'[b].st = IDLE /\ ~ bank'[b].actd
  <2>1. ~ Opens(b) /\ ~ Closes(b) /\ ~ Transfers(b) /\ bank[b].st = IDLE
    BY <1>6, <1>7 DEF Busies
  <2>2. Advances(b) /\ READ # IDLE
    BY BankMoves, Clocks64, Known DEF IInv, Clock
  <2>3. bank'[b].st = IDLE
    BY <2>1, <2>2 DEF Advances
  <2>4. bank'[b].actd = (~ (Closes(b) \/ RfshBg \/ (Transfers(b) /\ Geo(b).auto))
                         /\ (bank[b].actd \/ Opens(b)))
    BY Registers DEF Clock
  <2>5. ~ bank'[b].actd
    BY <1>2, <1>7, <2>1, <2>4 DEF RefreshInv
  <2> QED BY <2>3, <2>5
<1>8. out'.pins.op \in {"PRECHARGE_ALL", "REFRESH"} => rfsh'.rfshing
  <2>1. SUFFICES ASSUME out'.pins.op \in {"PRECHARGE_ALL", "REFRESH"} PROVE rfsh'.rfshing
    OBVIOUS
  <2>2. rfsh.rfshing
    <3>1. SUFFICES ASSUME ~ rfsh.rfshing PROVE FALSE
      OBVIOUS
    <3>2. CASE \A b \in Banks : ~ Busies(b)
      BY <2>1, <3>1, <3>2, PinsStep DEF Nop
    <3>3. ASSUME NEW b \in Banks, Busies(b) PROVE FALSE
      <4>1. \/ out'.pins = [op |-> TransferOp(b, slots[b].wr), ba |-> b, a |-> slots[b].a]
            \/ out'.pins = [op |-> "ACTIVE", ba |-> b, a |-> RowOf(slots[b].a)]
            \/ out'.pins = [op |-> "PRECHARGE", ba |-> b, a |-> slots[b].a]
        BY <3>3, PinsStep DEF Busies
      <4>2. out'.pins.op \in {TransferOp(b, slots[b].wr), "ACTIVE", "PRECHARGE"}
        BY <4>1
      <4> QED BY <2>1, <4>2 DEF TransferOp
    <3> QED BY <3>2, <3>3
  <2>3. out'.pins.op = rfsh.cmd
    BY <2>2, PinsStep DEF RfshCmd
  <2>4. ~ Ends
    BY <1>2, <2>1, <2>2, <2>3 DEF RefreshInv
  <2> QED BY <1>3, <2>2, <2>4 DEF Runs
<1>9. IDLE' = IDLE /\ fast' \in Clocks
  BY <1>2, <1>3 DEF IDLE, RefreshInv
<1> QED BY <1>3, <1>4, <1>5, <1>7, <1>8, <1>9 DEF RefreshInv

-----------------------------------------------------------------------------
(* The registers keep their types.                                         *)
LEMMA NextBankRegs ==
  ASSUME NEW b \in Banks, IInv, Clock
  PROVE  bank'[b] \in BankRegs /\ bank'[b].st < STW(Geo(b))
<1>1. /\ bank[b] \in BankRegs /\ wrl[b] \in BOOLEAN /\ Seen(b).a \in Nat /\ fast \in BOOLEAN
      /\ bank[b].st < STW(Geo(b))
  BY Known
<1>2. bank'[b].st \in Nat /\ bank'[b].st < STW(Geo(b))
  <2>1. Advances(b)
    BY BankMoves DEF IInv, Clock
  <2>2. /\ IDLE = 0 /\ PRE_ACT \in 1..2 /\ ACT = PRE_ACT + 1 /\ PRE_RD \in ACT .. ACT + 1
        /\ READ = PRE_RD + 1 /\ READ + 2 < STW(Geo(b)) /\ STW(Geo(b)) \in Nat
        /\ bank[b].st \in Nat
    BY Clocks64, Known
  <2> QED BY <1>1, <2>1, <2>2 DEF Advances
<1>3. bank'[b].row \in Nat
  <2>1. bank'[b].row = IF Opens(b) THEN RowOf(Seen(b).a) ELSE bank[b].row
    BY Registers DEF Clock
  <2>2. RowOf(Seen(b).a) \in Nat /\ bank[b].row \in Nat
    BY <1>1, SplitAddr DEF BankRegs
  <2> QED BY <2>1, <2>2
<1>4. /\ bank'[b].prechd \in BOOLEAN /\ bank'[b].actd \in BOOLEAN
      /\ bank'[b].last_act \in BOOLEAN /\ bank'[b].post_act \in BOOLEAN
      /\ bank'[b].written \in BOOLEAN /\ bank'[b].in_busy \in BOOLEAN
      /\ bank'[b].in_busy64 \in BOOLEAN /\ bank'[b].dqm_busy \in BOOLEAN
      /\ bank'[b].dok \in BOOLEAN /\ bank'[b].br \in BOOLEAN
  <2>1. bank[b].last_act \in BOOLEAN
    BY <1>1 DEF BankRegs
  <2>2. Opens(b) \in BOOLEAN
    BY DEF Opens, DoAct
  <2> QED BY <1>1, <2>1, <2>2, Registers DEF Clock
<1>5. bank'[b] = [st |-> bank'[b].st, row |-> bank'[b].row, prechd |-> bank'[b].prechd,
                  actd |-> bank'[b].actd, last_act |-> bank'[b].last_act,
                  post_act |-> bank'[b].post_act, written |-> bank'[b].written,
                  in_busy |-> bank'[b].in_busy, in_busy64 |-> bank'[b].in_busy64,
                  dqm_busy |-> bank'[b].dqm_busy, dok |-> bank'[b].dok, br |-> bank'[b].br]
  <2>1. bank'[b] = BankStep(Geo(b), bank[b], In(b), RowOf(Seen(b).a))
    BY DEF Clock, BanksStep
  <2> QED BY <2>1 DEF BankStep
<1>6. bank'[b] \in BankRegs
  BY <1>2, <1>3, <1>4, <1>5 DEF BankRegs
<1> QED BY <1>2, <1>6

LEMMA NextTyped ==
  ASSUME IInv, Clock, SimNext
  PROVE  Typed'
<1>1. auto' \in AutoCases
  BY DEF IInv, Typed, Clock
<1>2. bank' \in [Banks -> BankRegs] /\ \A b \in Banks : bank'[b].st < STW(Geo(b))
  <2>1. bank' = [b \in Banks |-> bank'[b]]
    BY DEF Clock, BanksStep
  <2> QED BY <2>1, NextBankRegs
<1>3. \A b \in Banks : STW(Geo(b))' = STW(Geo(b))
  BY DEF STW, BUSY, DST, READ, PRE_RD, PRE_ACT, Geo, LenOf, Clock
<1>4. latch' \in [Banks -> [rd : BOOLEAN, wr : BOOLEAN, a : Nat, match : BOOLEAN]]
  <2>1. CASE fast
    <3>1. latch' = [b \in Banks |-> [Asked(b) EXCEPT !.wr = @ /\ ~ Rdy(Geo(b), bank[b])]]
      BY <2>1 DEF Clock, LatchStep
    <3>2. ASSUME NEW b \in Banks
          PROVE  [Asked(b) EXCEPT !.wr = @ /\ ~ Rdy(Geo(b), bank[b])]
                   \in [rd : BOOLEAN, wr : BOOLEAN, a : Nat, match : BOOLEAN]
      BY Known DEF Asked, Rd, Wr
    <3> QED BY <3>1, <3>2
  <2>2. CASE ~ fast
    BY <2>2 DEF Clock, LatchStep, IInv, Typed
  <2> QED BY <2>1, <2>2
<1>5. wrl' \in [Banks -> BOOLEAN] /\ quiet' \in BOOLEAN
  BY Known DEF Clock, LatchStep
<1>6. slots' \in [Banks -> [st : {"IDLE", "ASK", "WAIT"}, wr : BOOLEAN,
                            a : Addrs \cup {0}, n : Nat]]
  BY SlotMoves DEF IInv, Clock
<1>7. /\ {out'.dbusy, out'.dbusy64} \subseteq BOOLEAN
      /\ {out'.dok, out'.rdy} \subseteq [Banks -> BOOLEAN]
  <2>1. /\ out'.dbusy = (\E b \in Banks : bank[b].in_busy \/ Transfers(b))
        /\ out'.dbusy64 = (\E b \in Banks : bank[b].in_busy64 \/ Transfers(b))
    BY Pins64 DEF Clock
  <2>2. /\ out'.dok = [b \in Banks |-> bank[b].dok]
        /\ out'.rdy = [b \in Banks |-> Rdy(Geo(b), bank[b])]
    BY DEF Clock, OutStep
  <2>3. \A b \in Banks : bank[b].dok \in BOOLEAN /\ Rdy(Geo(b), bank[b]) \in BOOLEAN
    BY Known DEF BankRegs, Rdy
  <2> QED BY <2>1, <2>2, <2>3
<1>8. sim'.mode = Mode /\ DOMAIN sim'.row = Banks /\ DOMAIN sim'.dqm = {1, 2}
  <2>1. sim'.dqm = <<sim.dqm[2], Masks(out.pins)>>
    BY SimStep64
  <2>2. DOMAIN sim'.dqm = {1, 2}
    BY <2>1
  <2> QED BY <2>2, SimStep64
<1>9. Mode' = Mode
  BY DEF Mode
<1> QED BY <1>1, <1>2, <1>3, <1>4, <1>5, <1>6, <1>7, <1>8, <1>9 DEF Typed

-----------------------------------------------------------------------------

-----------------------------------------------------------------------------
(* The invariant is inductive.                                             *)
LEMMA InvInit == Init => IInv
<1> SUFFICES ASSUME Init PROVE IInv
  OBVIOUS
<1>1. /\ rfsh = [cnt |-> 0, st |-> 0, br |-> FALSE, rfshing |-> FALSE, help |-> FALSE,
                 last |-> FALSE, cmd |-> "NOP"]
      /\ fast \in Clocks /\ fast \in BOOLEAN
  BY RefreshAssumption DEF Init, RfshInit
<1>2. /\ auto \in AutoCases /\ wrl = NoOne /\ quiet = TRUE
      /\ bank = [b \in Banks |-> BankReset] /\ latch = [b \in Banks |-> NoLatch]
      /\ slots = [b \in Banks |-> [st |-> "IDLE", wr |-> FALSE, a |-> 0, n |-> 0]]
  BY DEF Init
<1>3. /\ out.pins = Nop /\ out.din = S!Nothing /\ ~ out.dbusy /\ ~ out.dbusy64
      /\ out.dbusy \in BOOLEAN /\ out.dbusy64 \in BOOLEAN
      /\ out.dok = NoOne /\ out.rdy = NoOne
  BY DEF Init
<1>4. /\ sim.mode = Mode /\ sim.row = [b \in Banks |-> S!Nothing] /\ sim.burst = S!None
      /\ sim.dqm = <<FALSE, FALSE>>
  BY DEF Init, S!SimInit
<1>5. ASSUME NEW b \in Banks
      PROVE  /\ bank[b] = BankReset /\ bank[b].st = 0 /\ ~ bank[b].actd /\ ~ bank[b].in_busy
             /\ ~ bank[b].in_busy64 /\ ~ bank[b].dqm_busy /\ ~ bank[b].dok /\ ~ bank[b].br
             /\ slots[b].st = "IDLE" /\ slots[b].n = 0 /\ ~ wrl[b] /\ ~ out.dok[b] /\ ~ out.rdy[b]
             /\ latch[b] = NoLatch /\ ~ latch[b].rd /\ ~ latch[b].wr /\ ~ latch[b].match
  BY <1>2, <1>3 DEF BankReset, NoOne, NoLatch, IDLE
<1>6. ASSUME NEW b \in Banks
      PROVE  /\ IDLE = 0 /\ PRE_ACT \in 1..2 /\ ACT = PRE_ACT + 1 /\ PRE_RD \in ACT .. ACT + 1
             /\ READ = PRE_RD + 1 /\ DST = READ + 2 /\ BUSY \in Nat /\ Last(b) \in Nat
             /\ Last(b) >= DST /\ STW(Geo(b)) \in Nat /\ READ + 2 < STW(Geo(b))
  BY <1>1, Clocks64
<1>7. Typed
  <2>1. BankReset \in BankRegs
    BY DEF BankReset, BankRegs, IDLE
  <2>2. NoLatch \in [rd : BOOLEAN, wr : BOOLEAN, a : Nat, match : BOOLEAN]
    BY DEF NoLatch
  <2>3. bank \in [Banks -> BankRegs] /\ \A b \in Banks : bank[b].st < STW(Geo(b))
    BY <1>2, <1>5, <1>6, <2>1
  <2>4. /\ latch \in [Banks -> [rd : BOOLEAN, wr : BOOLEAN, a : Nat, match : BOOLEAN]]
        /\ slots \in [Banks -> [st : {"IDLE", "ASK", "WAIT"}, wr : BOOLEAN,
                                a : Addrs \cup {0}, n : Nat]]
    BY <1>2, <2>2
  <2>5. DOMAIN sim.row = Banks /\ DOMAIN sim.dqm = {1, 2}
    BY <1>4
  <2> QED BY <1>2, <1>3, <1>4, <2>3, <2>4, <2>5 DEF Typed, NoOne
<1>8. RefreshInv
  <2>1. rfsh \in RfshRegs
    BY <1>1, RefreshAssumption DEF RfshRegs, Steps
  <2> QED BY <1>1, <1>3, <2>1, RefreshAssumption DEF RefreshInv, Nop
<1>9. PinsInv
  BY <1>3, <1>5, <1>6 DEF PinsInv, OnPins, Nop
<1>10. BusyInv
  BY <1>3, <1>5, <1>6 DEF BusyInv, Within, Nop
<1>11. BurstInv
  BY <1>3, <1>4, <1>5, <1>6 DEF BurstInv, BurstAt, DataInv, Reading, Within
<1>12. ASSUME NEW b \in Banks
       PROVE  GrantInv(b) /\ LatchInv(b) /\ WorkInv(b) /\ AnswerInv(b) /\ RowInv(b)
  <2>1. /\ ~ Within(b, 1, READ) /\ ~ Within(b, ACT, READ) /\ ~ Within(b, 1, ACT - 1)
        /\ ~ Within(b, READ + 1, Last(b) + 1) /\ ~ Within(b, READ + 1, Last(b))
        /\ ~ Within(b, DST, Last(b)) /\ ~ (Last(b) + 1 < bank[b].st) /\ bank[b].st # READ
    BY <1>5, <1>6 DEF Within
  <2>2. GrantInv(b)
    BY <1>5 DEF GrantInv
  <2>3. LatchInv(b)
    BY <1>5 DEF LatchInv
  <2>4. WorkInv(b) /\ RowInv(b)
    BY <1>5, <2>1 DEF WorkInv, RowInv
  <2>5. AnswerInv(b)
    BY <1>5, <1>6, <2>1 DEF AnswerInv
  <2> QED BY <2>2, <2>3, <2>4, <2>5
<1> QED BY <1>7, <1>8, <1>9, <1>10, <1>11, <1>12 DEF IInv

LEMMA Stutters ==
  ASSUME IInv, UNCHANGED vars
  PROVE  IInv'
<1>1. /\ auto' = auto /\ bank' = bank /\ latch' = latch /\ wrl' = wrl /\ quiet' = quiet
      /\ out' = out /\ slots' = slots /\ rfsh' = rfsh /\ fast' = fast /\ sim' = sim
  BY DEF vars
<1>2. /\ ACT' = ACT /\ PRE_RD' = PRE_RD /\ READ' = READ /\ DST' = DST /\ BUSY' = BUSY
      /\ \A b \in Banks : Last(b)' = Last(b) /\ STW(Geo(b))' = STW(Geo(b)) /\ LenOf(b)' = LenOf(b)
      /\ Steps' = Steps /\ IDLE' = IDLE /\ Mode' = Mode
  BY <1>1 DEF IDLE, ACT, PRE_RD, READ, DST, BUSY, PRE_ACT, Last, RDY, STW, Geo, LenOf, Steps, Mode
<1>3. Typed'
  BY <1>1, <1>2 DEF IInv, Typed
<1>4. RefreshInv'
  BY <1>1, <1>2 DEF IInv, RefreshInv, RfshRegs, Ends
<1>5. PinsInv'
  <2>1. \A b \in Banks : TransferOp(b, slots[b].wr)' = TransferOp(b, slots[b].wr)
    BY <1>1 DEF TransferOp
  <2> QED BY <1>1, <1>2, <2>1 DEF IInv, PinsInv, OnPins
<1>6. BusyInv'
  BY <1>1, <1>2 DEF IInv, BusyInv, Within
<1>7. BurstAt'
  BY <1>1, <1>2 DEF IInv, BurstInv, BurstAt, Within, ReadBurst, S!None
<1>8. \A b \in Banks : DataInv(b)'
  BY <1>1, <1>2 DEF IInv, BurstInv, DataInv, Reading, Within, S!None
<1>9. ASSUME NEW b \in Banks
      PROVE  GrantInv(b)' /\ LatchInv(b)' /\ WorkInv(b)' /\ AnswerInv(b)' /\ RowInv(b)'
  <2>1. Seen(b)' = Seen(b)
    BY <1>1 DEF Seen, Asked, Rd, Wr, RowOf
  <2>2. GrantInv(b)' /\ WorkInv(b)'
    BY <1>1, <1>2, <2>1 DEF IInv, GrantInv, WorkInv, Within
  <2>3. LatchInv(b)'
    BY <1>1, <1>2, <2>1 DEF IInv, LatchInv, Within, Asking, RowReg, RowOf
  <2>4. AnswerInv(b)'
    BY <1>1, <1>2, <2>1 DEF IInv, AnswerInv, Within, Count
  <2>5. RowInv(b)'
    BY <1>1, <1>2 DEF IInv, RowInv, Within, OnPins, RowReg, RowOf
  <2> QED BY <2>2, <2>3, <2>4, <2>5
<1> QED BY <1>3, <1>4, <1>5, <1>6, <1>7, <1>8, <1>9 DEF IInv, BurstInv

LEMMA InvNext ==
  ASSUME Unhurried, IInv, [Next]_vars
  PROVE  IInv'
<1>1. CASE Next
  <2>1. RfshNext
    BY <1>1 DEF Next, RfshNext
  <2>2. fast' = fast
    BY <2>1 DEF RfshNext, RfshStep
  <2>3. Clock /\ SimNext
    BY <1>1, <2>2 DEF Next, Clock, SlotsNext, SimNext
  <2>4. Typed' /\ RefreshInv' /\ PinsInv' /\ BusyInv' /\ BurstInv'
    BY <2>1, <2>3, NextTyped, NextRefresh, NextPinsInv, NextBusy, NextBurst
  <2>5. ASSUME NEW b \in Banks
        PROVE  GrantInv(b)' /\ LatchInv(b)' /\ WorkInv(b)' /\ AnswerInv(b)' /\ RowInv(b)'
    BY <2>3, NextGrant, NextLatch, NextWork, NextAnswer, NextRow
  <2> QED BY <2>4, <2>5 DEF IInv
<1>2. CASE UNCHANGED vars
  BY <1>2, Stutters
<1> QED BY <1>1, <1>2

LEMMA InvHolds ==
  ASSUME Unhurried
  PROVE  Spec => []IInv
<1>1. Init => IInv
  BY InvInit
<1>2. IInv /\ [Next]_vars => IInv'
  BY InvNext
<1> QED BY <1>1, <1>2, PTL DEF Spec

-----------------------------------------------------------------------------
(* What the invariant says of the answers and of the data pins.            *)
LEMMA InvAnswers == IInv => AnswersRight
<1> SUFFICES ASSUME IInv, NEW b \in Banks
             PROVE  /\ Ack(bank[b]) => slots[b].st = "ASK"
                    /\ out.rdy[b] => /\ slots[b].st = "WAIT"
                                     /\ IF slots[b].wr THEN slots[b].n = 1
                                        ELSE out.dok[b] /\ slots[b].n = LenOf(b) - 1
  BY DEF AnswersRight
<1>1. /\ IDLE = 0 /\ READ \in Nat /\ READ >= 3 /\ DST = READ + 2
      /\ Last(b) = DST + LenOf(b) - 1 /\ LenOf(b) \in {1, 2, 4}
      /\ bank[b].st \in Nat
  BY Clocks64, Known
<1>2. WorkInv(b) /\ AnswerInv(b)
  BY DEF IInv
<1>3. Ack(bank[b]) => slots[b].st = "ASK"
  BY <1>1, <1>2 DEF Ack, WorkInv, Within
<1>4. CASE bank[b].st = IDLE
  BY <1>2, <1>3, <1>4 DEF AnswerInv
<1>5. CASE Within(b, 1, READ)
  BY <1>2, <1>3, <1>5 DEF WorkInv
<1>6. CASE Within(b, READ + 1, Last(b) + 1)
  BY <1>1, <1>2, <1>3, <1>6 DEF AnswerInv, Within, Count
<1>7. CASE Last(b) + 1 < bank[b].st
  BY <1>2, <1>3, <1>7 DEF AnswerInv
<1> QED BY <1>1, <1>4, <1>5, <1>6, <1>7 DEF Within

LEMMA InvWrites == IInv => WriteRight
<1> SUFFICES ASSUME IInv PROVE WriteRight
  OBVIOUS
<1> DEFINE p == out.pins
           w == S!Start(p)
<1>1. /\ S!SimStores(p) = IF Writes64(p) THEN S!CellOf(w) ELSE S!Nothing
      /\ out.din = IF Writes64(p) THEN <<p.ba, p.a>> ELSE S!Nothing
  BY SimData DEF IInv, PinsInv, Writes64
<1>2. ASSUME Writes64(p)
      PROVE  S!CellOf(w) = <<p.ba, p.a>>
  <2>1. PICK b \in Banks : p.ba = b /\ bank[b].st = READ
    BY <1>2 DEF Writes64, IInv, PinsInv
  <2>2. p = [op |-> TransferOp(b, slots[b].wr), ba |-> b, a |-> slots[b].a]
    BY <2>1 DEF IInv, PinsInv
  <2>3. p.a = slots[b].a /\ p.op # "ACTIVE"
    BY <1>2, <2>2 DEF Writes64
  <2>4. sim.row[b] = <<bank[b].row>> /\ bank[b].row = RowOf(slots[b].a)
    <3>1. Within(b, ACT, READ)
      BY <2>1, Clocks64, Known DEF Within
    <3> QED BY <2>3, <3>1 DEF IInv, RowInv, RowReg, OnPins
  <2>5. S!RowOf(b) = RowOf(slots[b].a)
    BY <2>4 DEF S!RowOf, S!Nothing
  <2>6. /\ w.ba = b /\ w.row = RowOf(slots[b].a) /\ w.col = slots[b].a % Page
        /\ w.beat = 0 /\ w.len = 1
    BY <1>2, <2>1, <2>3, <2>5, Started
  <2>7. S!CellOf(w) =
          <<b, (RowOf(slots[b].a) * Page) + (((slots[b].a % Page) \div 1) * 1)
                + (((slots[b].a % Page) + 0) % 1)>>
    BY <2>6 DEF S!CellOf
  <2>8. /\ RowOf(slots[b].a) \in Nat /\ slots[b].a % Page \in Nat
        /\ (RowOf(slots[b].a) * Page) + (slots[b].a % Page) = slots[b].a
    BY Known, SplitAddr
  <2>9. ((slots[b].a % Page) \div 1) * 1 = slots[b].a % Page
        /\ ((slots[b].a % Page) + 0) % 1 = 0
    BY <2>8
  <2> QED BY <2>1, <2>3, <2>7, <2>8, <2>9, Sdram64Assumption
<1> QED BY <1>1, <1>2 DEF WriteRight

LEMMA InvContention == IInv => NoContention
<1> SUFFICES ASSUME IInv, out.pins.op \in {"WRITE", "WRITEA"}, sim.burst # S!None PROVE FALSE
  BY DEF NoContention
<1>1. sim.burst.ba \in Banks /\ bank[sim.burst.ba].st \in READ + 1 .. BUSY
  BY BurstFacts
<1> QED BY <1>1 DEF IInv, BusyInv, Within

LEMMA InvReads == IInv => ReadRight
BY DEF IInv, BurstInv, DataInv, ReadRight

(* A bank acknowledges only a request that is asked, and its rdy comes     *)
(* once, when all half-words of the request have come or its own write has *)
(* been put on the pins (ack and rdy of jtframe_sdram64_bank.v).           *)
THEOREM AnswersTheirOwn ==
  ASSUME Unhurried
  PROVE  Spec => []AnswersRight
BY InvHolds, InvAnswers, PTL

(* The half-words that come with dok are, in order, those that the bank's  *)
(* requester asked for (dok, dst and dout of jtframe_sdram64).             *)
THEOREM ReadsTheirOwn ==
  ASSUME Unhurried
  PROVE  Spec => []ReadRight
BY InvHolds, InvReads, PTL

(* A write command stores its requester's data in the requester's cell:    *)
(* the row that the bank believes open is open.                            *)
THEOREM WritesTheirOwn ==
  ASSUME Unhurried
  PROVE  Spec => []WriteRight
BY InvHolds, InvWrites, PTL

(* The controller never drives the data pins during a read's burst, even   *)
(* the part of it that no requester takes (dbusy64).                       *)
THEOREM NeverContends ==
  ASSUME Unhurried
  PROVE  Spec => []NoContention
BY InvHolds, InvContention, PTL

-----------------------------------------------------------------------------
(***************************************************************************)
(* The rules and the times of the chip, at both clocks: the state of a     *)
(* bank's machine, and the step of the refresh engine, bound from below    *)
(* how long ago the bank's row was opened and closed, and the last refresh *)
(* was.                                                                    *)
(***************************************************************************)

(* The times of the chip, and the states of the machines, in clocks: all   *)
(* of them are multiples of the clocks from ACTIVE to READ.                *)
LEMMA Units ==
  ASSUME NEW b \in Banks, fast \in BOOLEAN
  PROVE  LET u == T!tRCD IN
         /\ u \in 1..2 /\ T!tRAS = 2 * u /\ T!tRC = 3 * u /\ T!tRP = u /\ T!tWR = u /\ T!tRRD = u
         /\ T!tRFC = 3 * u + 1 /\ First = u /\ Steps = 4 * u + 2
         /\ IDLE = 0 /\ PRE_ACT = u /\ ACT = u + 1 /\ PRE_RD = 2 * u /\ READ = 2 * u + 1
         /\ BurstLen \in {1, 2, 4}
         /\ STW(Geo(b)) = READ + BurstLen + 2 + (IF b \in auto THEN 1 ELSE 0)
<1>1. BurstLen \in {1, 2, 4} /\ (Geo(b).auto <=> b \in auto)
  BY Sdram64Assumption DEF Geo
<1> QED BY <1>1 DEF T!tRCD, T!tRAS, T!tRC, T!tRP, T!tWR, T!tRRD, T!tRFC, First, Steps, IDLE,
                    PRE_ACT, ACT, PRE_RD, READ, STW, BUSY, DST

TimingNext == T!TimingStep(out.pins)

Precharged(b) == OnPins(b, {"PRECHARGE"}) \/ out.pins.op = "PRECHARGE_ALL"

(* What a clock makes of the ages of a bank.                               *)
LEMMA AgeStep ==
  ASSUME NEW b \in Banks, TimingNext
  PROVE  LET t == Age(b)
             n == Age(b)'
             p == out.pins
             done == T!SelfCloses(t)
         IN /\ n.row = IF OnPins(b, {"ACTIVE"}) THEN <<p.a>>
                       ELSE IF Precharged(b) \/ done THEN S!Nothing ELSE t.row
            /\ n.act = IF OnPins(b, {"ACTIVE"}) THEN 1 ELSE T!Grow(t.act, T!tRC)
            /\ n.pre = IF Precharged(b) /\ t.row # S!Nothing THEN 1
                       ELSE IF done THEN IF t.auto.late THEN 0 ELSE 1
                       ELSE T!Grow(t.pre, T!tRP)
            /\ n.wr = IF OnPins(b, {"WRITE", "WRITEA"}) THEN 1 ELSE T!Grow(t.wr, T!tWR)
            /\ n.auto = IF done THEN S!Nothing
                        ELSE IF OnPins(b, {"READA"}) THEN [left |-> BurstLen, late |-> FALSE]
                        ELSE IF OnPins(b, {"WRITEA"}) THEN [left |-> 1, late |-> TRUE]
                        ELSE IF t.auto = S!Nothing THEN S!Nothing
                        ELSE [t.auto EXCEPT !.left = IF @ = 1 THEN 1 ELSE @ - 1]
<1>1. Age(b)' = T!BankAge(Age(b), b, out.pins)
  BY DEF TimingNext, T!TimingStep, Age
<1>2. Precharged(b) = T!Precharges(out.pins, b)
  BY DEF Precharged, OnPins, T!Precharges
<1>3. S!Nothing = T!Nothing
  BY DEF S!Nothing, T!Nothing
<1> QED BY <1>1, <1>2, <1>3 DEF T!BankAge, OnPins, T!Writes

LEMMA Grows ==
  ASSUME NEW k \in Nat, NEW m \in Nat
  PROVE  LET g == T!Grow(k, m) IN g \in Nat /\ g >= k /\ (g >= k + 1 \/ g >= m)
BY DEF T!Grow

(* A bank that has not a row to close by itself.                           *)
LEMMA AgeKeeps ==
  ASSUME NEW b \in Banks, TimingNext, fast \in BOOLEAN, Age(b).auto = S!Nothing,
         {Age(b).act, Age(b).pre, Age(b).wr} \subseteq Nat,
         ~ OnPins(b, {"READA", "WRITEA"})
  PROVE  LET t == Age(b)
             n == Age(b)'
         IN /\ {n.act, n.pre, n.wr} \subseteq Nat /\ n.auto = S!Nothing
            /\ n.row = IF OnPins(b, {"ACTIVE"}) THEN <<out.pins.a>>
                       ELSE IF Precharged(b) THEN S!Nothing ELSE t.row
            /\ IF OnPins(b, {"ACTIVE"}) THEN n.act = 1 ELSE n.act >= t.act + 1 \/ n.act >= T!tRC
            /\ IF Precharged(b) /\ t.row # S!Nothing THEN n.pre = 1
               ELSE n.pre >= t.pre + 1 \/ n.pre >= T!tRP
            /\ t.wr >= 1 => n.wr >= 1
            /\ OnPins(b, {"WRITE", "WRITEA"}) \/ n.wr >= t.wr + 1 \/ n.wr >= T!tWR
<1>1. ~ T!SelfCloses(Age(b))
  BY DEF T!SelfCloses, S!Nothing, T!Nothing
<1>2. T!tRC \in Nat /\ T!tRP \in Nat /\ T!tWR \in Nat
  BY Units
<1>4. ~ OnPins(b, {"READA"}) /\ ~ OnPins(b, {"WRITEA"})
  BY DEF OnPins
<1>5. /\ Age(b).act \in Nat /\ Age(b).pre \in Nat /\ Age(b).wr \in Nat
  OBVIOUS
<1>6. Age(b)'.act \in Nat /\ IF OnPins(b, {"ACTIVE"}) THEN Age(b)'.act = 1
      ELSE Age(b)'.act >= Age(b).act + 1 \/ Age(b)'.act >= T!tRC
  <2>1. Age(b)'.act = IF OnPins(b, {"ACTIVE"}) THEN 1 ELSE T!Grow(Age(b).act, T!tRC)
    BY AgeStep
  <2>2. LET g == T!Grow(Age(b).act, T!tRC)
        IN  g \in Nat /\ g >= Age(b).act /\ (g >= Age(b).act + 1 \/ g >= T!tRC)
    BY <1>2, <1>5, Grows
  <2> QED BY <1>2, <1>5, <2>1, <2>2
<1>7. Age(b)'.pre \in Nat /\ IF Precharged(b) /\ Age(b).row # S!Nothing THEN Age(b)'.pre = 1
      ELSE Age(b)'.pre >= Age(b).pre + 1 \/ Age(b)'.pre >= T!tRP
  <2>1. Age(b)'.pre = IF Precharged(b) /\ Age(b).row # S!Nothing THEN 1
                      ELSE T!Grow(Age(b).pre, T!tRP)
    BY <1>1, AgeStep
  <2>2. LET g == T!Grow(Age(b).pre, T!tRP)
        IN  g \in Nat /\ g >= Age(b).pre /\ (g >= Age(b).pre + 1 \/ g >= T!tRP)
    BY <1>2, <1>5, Grows
  <2> QED BY <1>2, <1>5, <2>1, <2>2
<1>8. /\ Age(b)'.wr \in Nat /\ (Age(b).wr >= 1 => Age(b)'.wr >= 1)
      /\ OnPins(b, {"WRITE", "WRITEA"}) \/ Age(b)'.wr >= Age(b).wr + 1 \/ Age(b)'.wr >= T!tWR
  <2>1. Age(b)'.wr = IF OnPins(b, {"WRITE", "WRITEA"}) THEN 1 ELSE T!Grow(Age(b).wr, T!tWR)
    BY AgeStep
  <2>2. LET g == T!Grow(Age(b).wr, T!tWR)
        IN  g \in Nat /\ g >= Age(b).wr /\ (g >= Age(b).wr + 1 \/ g >= T!tWR)
    BY <1>2, <1>5, Grows
  <2> QED BY <1>2, <1>5, <2>1, <2>2
<1>9. /\ Age(b)'.auto = S!Nothing
      /\ Age(b)'.row = IF OnPins(b, {"ACTIVE"}) THEN <<out.pins.a>>
                       ELSE IF Precharged(b) THEN S!Nothing ELSE Age(b).row
  BY <1>1, <1>4, AgeStep
<1> QED BY <1>6, <1>7, <1>8, <1>9

-----------------------------------------------------------------------------
(* The rows that the simulator's SDRAM closes.                             *)
LEMMA CommandRows ==
  ASSUME IInv, NEW b \in Banks
  PROVE  LET c == S!AfterCommand(out.pins)
             p == out.pins
         IN /\ ~ OnPins(b, {"ACTIVE"}) => c.row[b] \in {sim.row[b], S!Nothing}
            /\ Precharged(b) => c.row[b] = S!Nothing
            /\ /\ Reads64(p) \/ Writes64(p)
               /\ sim.burst # S!None /\ sim.burst.ba = b /\ sim.burst.auto
               => c.row[b] = S!Nothing
<1> DEFINE p == out.pins
           c == S!AfterCommand(out.pins)
           now == S!Stage(sim.row, sim.burst)
<1>1. p.op \in {"NOP", "PRECHARGE", "PRECHARGE_ALL", "REFRESH", "ACTIVE",
                "READ", "READA", "WRITE", "WRITEA"}
      /\ DOMAIN sim.row = Banks
  BY DEF IInv, PinsInv, Typed
<1>2. now.row = sim.row /\ now.burst = sim.burst
  BY DEF S!Stage
<1>3. CASE p.op = "ACTIVE"
  <2>1. c = S!Stage([sim.row EXCEPT ![p.ba] = <<p.a>>], S!Cut(now, p.ba))
    BY <1>3 DEF S!AfterCommand, S!Reads, S!Writes
  <2>2. c.row = [sim.row EXCEPT ![p.ba] = <<p.a>>]
    BY <2>1 DEF S!Stage
  <2> QED BY <2>2, <1>1, <1>3 DEF OnPins, Precharged, Reads64, Writes64
<1>4. CASE p.op = "PRECHARGE"
  <2>1. c = S!Stage([sim.row EXCEPT ![p.ba] = S!Nothing], S!Cut(now, p.ba))
    BY <1>4 DEF S!AfterCommand, S!Close, S!Reads, S!Writes
  <2>2. c.row = [sim.row EXCEPT ![p.ba] = S!Nothing]
    BY <2>1 DEF S!Stage
  <2> QED BY <2>2, <1>1, <1>4 DEF OnPins, Precharged, Reads64, Writes64
<1>5. CASE p.op = "PRECHARGE_ALL"
  <2>1. c = S!Stage([d \in Banks |-> S!Nothing], S!None)
    BY <1>5 DEF S!AfterCommand, S!Reads, S!Writes
  <2>2. c.row = [d \in Banks |-> S!Nothing]
    BY <2>1 DEF S!Stage
  <2> QED BY <2>2, <1>5 DEF Reads64, Writes64
<1>6. CASE Reads64(p) \/ Writes64(p)
  <2>1. c = S!Stage(S!Terminate(now).row, S!Start(p))
    BY <1>6 DEF S!AfterCommand, S!Reads, S!Writes, Reads64, Writes64
  <2>2. S!Terminate(now).row = IF sim.burst # S!None /\ sim.burst.auto
                               THEN [sim.row EXCEPT ![sim.burst.ba] = S!Nothing] ELSE sim.row
    BY <1>2 DEF S!Terminate, S!Close, S!Stage
  <2>3. c.row = S!Terminate(now).row
    BY <2>1 DEF S!Stage
  <2>4. ~ Precharged(b)
    BY <1>6 DEF Precharged, OnPins, Reads64, Writes64
  <2> QED BY <2>2, <2>3, <2>4, <1>1
<1>7. CASE p.op \in {"NOP", "REFRESH"}
  <2>1. c = now
    BY <1>7 DEF S!AfterCommand, S!Reads, S!Writes
  <2> QED BY <2>1, <1>2, <1>7 DEF OnPins, Precharged, Reads64, Writes64
<1> QED BY <1>1, <1>3, <1>4, <1>5, <1>6, <1>7 DEF Reads64, Writes64

(* The last beat of a read burst with auto-precharge closes its row.       *)
LEMMA BeatRows ==
  ASSUME NEW s, NEW row, NEW burst, s = S!Stage(row, burst), burst # S!None,
         burst.kind = "READ", burst.stop = 0, ~ burst.full, burst.len = BurstLen,
         burst.wait \in Nat, NEW b \in DOMAIN row
  PROVE  LET r == S!AfterRead(S!AfterWrite(s)).row IN
         /\ r[b] \in {row[b], S!Nothing}
         /\ burst.auto /\ burst.ba = b /\ burst.wait = 0 /\ burst.beat + 1 >= BurstLen =>
              r[b] = S!Nothing
<1>1. s.row = row /\ s.burst = burst
  BY DEF S!Stage
<1>2. S!Does(s, "READ") /\ ~ S!Does(s, "WRITE")
  BY <1>1 DEF S!Does
<1>3. S!AfterWrite(s) = s
  BY <1>2 DEF S!AfterWrite
<1>4. CASE burst.wait > 0
  <2>1. S!AfterRead(s) = S!Stage(row, [burst EXCEPT !.wait = @ - 1])
    BY <1>1, <1>2, <1>4 DEF S!AfterRead
  <2> QED BY <2>1, <1>3, <1>4 DEF S!Stage
<1>5. CASE burst.wait = 0
  <2> DEFINE t == S!Beat(s)
  <2>1. S!AfterRead(s) = t
    BY <1>1, <1>2, <1>5 DEF S!AfterRead
  <2>2. CASE burst.beat + 1 >= BurstLen
    <3>1. t = S!Terminate(s)
      BY <1>1, <2>2 DEF S!Beat
    <3>2. t = S!Stage(IF burst.auto THEN S!Close(row, burst.ba) ELSE row, S!None)
      BY <3>1, <1>1 DEF S!Terminate
    <3>3. t.row = IF burst.auto THEN [row EXCEPT ![burst.ba] = S!Nothing] ELSE row
      BY <3>2 DEF S!Stage, S!Close
    <3> QED BY <3>3, <2>1, <1>3
  <2>3. CASE ~ (burst.beat + 1 >= BurstLen)
    <3>1. t = S!Stage(row, [burst EXCEPT !.beat = (@ + 1) % BurstLen])
      BY <1>1, <2>3 DEF S!Beat
    <3>2. t.row = row
      BY <3>1 DEF S!Stage
    <3> QED BY <3>2, <2>1, <2>3, <1>3
  <2> QED BY <2>2, <2>3
<1> QED BY <1>4, <1>5

(* What a clock makes of the rows that the simulator's SDRAM has open.     *)
LEMMA RowStep ==
  ASSUME IInv, SimNext, NEW b \in Banks
  PROVE  LET ends == sim.burst # S!None /\ sim.burst.ba = b /\ sim.burst.auto
                     /\ sim.burst.wait = 0 /\ sim.burst.beat + 1 >= BurstLen
             cut  == sim.burst # S!None /\ sim.burst.ba = b /\ sim.burst.auto
                     /\ (Reads64(out.pins) \/ Writes64(out.pins))
         IN /\ ~ OnPins(b, {"ACTIVE"}) => sim'.row[b] \in {sim.row[b], S!Nothing}
            /\ Precharged(b) \/ OnPins(b, {"WRITEA"}) \/ ends \/ cut => sim'.row[b] = S!Nothing
<1> DEFINE p == out.pins
           c == S!AfterCommand(p)
           s == S!AfterRead(S!AfterWrite(c))
           ends == sim.burst # S!None /\ sim.burst.ba = b /\ sim.burst.auto
                   /\ sim.burst.wait = 0 /\ sim.burst.beat + 1 >= BurstLen
           cut  == sim.burst # S!None /\ sim.burst.ba = b /\ sim.burst.auto
                   /\ (Reads64(p) \/ Writes64(p))
<1>1. sim'.row = s.row
  BY DEF SimNext, S!SimStep
<1>2. /\ c = S!Stage(c.row, c.burst)
      /\ Reads64(p) \/ Writes64(p) => c.burst = S!Start(p)
      /\ ~ Reads64(p) /\ ~ Writes64(p) => c.burst = sim.burst
      /\ DOMAIN c.row = Banks
  BY Commanded
<1>3. /\ ~ OnPins(b, {"ACTIVE"}) => c.row[b] \in {sim.row[b], S!Nothing}
      /\ Precharged(b) \/ cut => c.row[b] = S!Nothing
  BY CommandRows
<1> HIDE DEF c
<1>4. sim.burst # S!None => /\ sim.burst.kind = "READ" /\ sim.burst.stop = 0 /\ ~ sim.burst.full
                            /\ sim.burst.len = BurstLen /\ sim.burst.wait \in Nat
  BY BurstFacts
<1>5. CASE Reads64(p)
  <2> DEFINE burst == ReadBurst(p.ba, S!RowOf(p.ba), p.a % Page, 0, 2)
  <2>1. c.burst = burst
    BY <1>2, <1>5, Started
  <2>2. /\ burst # S!None /\ burst.kind = "READ" /\ burst.stop = 0 /\ ~ burst.full
        /\ burst.len = BurstLen /\ burst.wait = 2
    BY BurstFields
  <2> HIDE DEF burst
  <2>3. s.row[b] \in {c.row[b], S!Nothing}
    BY <1>2, <2>1, <2>2, BeatRows
  <2>4. ~ OnPins(b, {"WRITEA"})
    BY <1>5 DEF OnPins, Reads64
  <2>5. ends => cut
    BY <1>5
  <2> QED BY <1>1, <1>3, <2>3, <2>4, <2>5
<1>6. CASE Writes64(p)
  <2> DEFINE burst == [kind |-> "WRITE", ba |-> p.ba, row |-> S!RowOf(p.ba),
                       col |-> p.a % Page, beat |-> 0, len |-> 1, wait |-> 0,
                       stop |-> 0, full |-> FALSE, auto |-> p.op = "WRITEA"]
             w == S!AfterWrite(c)
  <2>1. c.burst = burst
    BY <1>2, <1>6, Started
  <2>2. S!Does(c, "WRITE")
    BY <2>1 DEF S!Does, S!None
  <2>3. w = S!Terminate(c)
    BY <2>1, <2>2 DEF S!AfterWrite, S!Beat
  <2>4. w = S!Stage(IF p.op = "WRITEA" THEN [c.row EXCEPT ![p.ba] = S!Nothing] ELSE c.row, S!None)
    <3>1. c.burst.kind = "WRITE" /\ c.burst.ba = p.ba
      BY <2>1
    <3>2. c.burst.auto = (p.op = "WRITEA")
      BY <2>1
    <3>3. c.burst # S!None
      BY <3>1 DEF S!None
    <3> QED BY <2>3, <3>1, <3>2, <3>3 DEF S!Terminate, S!Close
  <2>5. w.burst = S!None
        /\ w.row = IF p.op = "WRITEA" THEN [c.row EXCEPT ![p.ba] = S!Nothing] ELSE c.row
    BY <2>4 DEF S!Stage
  <2>6. s = w
    BY <2>5 DEF S!AfterRead, S!Does
  <2>7. s.row[b] \in {c.row[b], S!Nothing} /\ (OnPins(b, {"WRITEA"}) => s.row[b] = S!Nothing)
    BY <1>2, <2>5, <2>6 DEF OnPins
  <2>8. ends => cut
    BY <1>6
  <2> QED BY <1>1, <1>3, <2>7, <2>8
<1>7. CASE ~ Reads64(p) /\ ~ Writes64(p)
  <2>1. s.row[b] \in {c.row[b], S!Nothing} /\ (ends => s.row[b] = S!Nothing)
    <3>1. CASE sim.burst = S!None
      <4>1. s = c
        BY <1>2, <1>7, <3>1 DEF S!AfterRead, S!AfterWrite, S!Does
      <4> QED BY <4>1, <3>1
    <3>2. CASE sim.burst # S!None
      BY <1>2, <1>4, <1>7, <3>2, BeatRows
    <3> QED BY <3>1, <3>2
  <2>2. ~ OnPins(b, {"WRITEA"}) /\ ~ cut
    BY <1>7 DEF OnPins, Writes64
  <2> QED BY <1>1, <1>3, <2>1, <2>2
<1> QED BY <1>5, <1>6, <1>7

-----------------------------------------------------------------------------
(* What a clock keeps of a closed row, and of one that is to be closed.    *)
TimesClock == Clock /\ SimNext /\ TimingNext

LEMMA ShutGrows ==
  ASSUME NEW b \in Banks, IInv, TimesClock, Ages(b), Shut(b),
         ~ OnPins(b, {"ACTIVE", "READA", "WRITEA"})
  PROVE  Shut(b)' /\ Age(b)'.act >= T!tRC /\ Age(b)'.pre >= T!tRP
<1>1. /\ Age(b).act >= T!tRC - 1 /\ Age(b).pre >= T!tRP - 1 /\ Age(b).auto = S!Nothing
      /\ Age(b).row = S!Nothing /\ sim.row[b] = S!Nothing
  BY DEF Shut, Old
<1>2. ~ OnPins(b, {"ACTIVE"}) /\ ~ OnPins(b, {"READA", "WRITEA"})
  BY DEF OnPins
<1>3. fast \in BOOLEAN /\ fast' = fast
  BY Known DEF TimesClock, Clock
<1>4. /\ {Age(b)'.act, Age(b)'.pre, Age(b)'.wr} \subseteq Nat /\ Age(b)'.auto = S!Nothing
      /\ Age(b)'.row = S!Nothing
      /\ Age(b)'.act >= Age(b).act + 1 \/ Age(b)'.act >= T!tRC
      /\ Age(b)'.pre >= Age(b).pre + 1 \/ Age(b)'.pre >= T!tRP
  BY <1>1, <1>2, <1>3, AgeKeeps DEF TimesClock, Ages
<1>5. sim'.row[b] = S!Nothing
  BY <1>1, <1>2, RowStep DEF TimesClock
<1>6. T!tRC \in Nat /\ T!tRP \in Nat
  BY <1>3, Units
<1>7. Age(b).act \in Nat /\ Age(b).pre \in Nat /\ Age(b)'.act \in Nat /\ Age(b)'.pre \in Nat
  BY <1>4 DEF Ages
<1>8. Age(b)'.act >= T!tRC /\ Age(b)'.pre >= T!tRP
  BY <1>1, <1>4, <1>6, <1>7
<1>9. (T!tRC)' = T!tRC /\ (T!tRP)' = T!tRP /\ (S!Nothing)' = S!Nothing
  BY <1>3 DEF T!tRC, T!tRP, S!Nothing
<1> QED BY <1>4, <1>5, <1>6, <1>7, <1>8, <1>9 DEF Shut, Old

LEMMA PrechargeShuts ==
  ASSUME NEW b \in Banks, IInv, TimesClock, Ages(b), Closable(b, 0), Precharged(b)
  PROVE  Shut(b)' /\ (~ fast => Age(b)'.act >= T!tRC /\ Age(b)'.pre >= T!tRP)
<1>2. ~ OnPins(b, {"ACTIVE"}) /\ ~ OnPins(b, {"READA", "WRITEA"})
  BY DEF OnPins, Precharged
<1>3. fast \in BOOLEAN /\ fast' = fast
  BY Known DEF TimesClock, Clock
<1>5. sim'.row[b] = S!Nothing
  BY RowStep DEF TimesClock
<1>6. /\ T!tRCD \in 1..2 /\ T!tRC = 3 * T!tRCD /\ T!tRAS = 2 * T!tRCD /\ T!tRP = T!tRCD
      /\ (~ fast => T!tRCD = 1)
  BY <1>3, Units DEF T!tRCD
<1>7. Age(b).auto = S!Nothing
  BY DEF Closable, Old
<1>4. /\ {Age(b)'.act, Age(b)'.pre, Age(b)'.wr} \subseteq Nat /\ Age(b)'.auto = S!Nothing
      /\ Age(b)'.row = S!Nothing
      /\ Age(b)'.act >= Age(b).act + 1 \/ Age(b)'.act >= T!tRC
      /\ IF Age(b).row # S!Nothing THEN Age(b)'.pre = 1
         ELSE Age(b)'.pre >= Age(b).pre + 1 \/ Age(b)'.pre >= T!tRP
  BY <1>2, <1>3, <1>7, AgeKeeps DEF TimesClock, Ages
<1>8. Age(b).act \in Nat /\ Age(b).pre \in Nat /\ Age(b)'.act \in Nat /\ Age(b)'.pre \in Nat
  BY <1>4 DEF Ages
<1>9. /\ Age(b)'.act >= T!tRC - 1 /\ Age(b)'.pre >= T!tRP - 1
      /\ ~ fast => Age(b)'.act >= T!tRC /\ Age(b)'.pre >= T!tRP
  <2>1. CASE Age(b).row = S!Nothing
    <3>1. Age(b).act >= T!tRC - 1 /\ Age(b).pre >= T!tRP - 1
      BY <2>1 DEF Closable, Old
    <3> QED BY <3>1, <2>1, <1>4, <1>6, <1>8
  <2>2. CASE Age(b).row # S!Nothing
    <3>1. Age(b).act >= T!tRAS - 0
      BY <2>2 DEF Closable
    <3> QED BY <3>1, <2>2, <1>4, <1>6, <1>8
  <2> QED BY <2>1, <2>2
<1>10. (T!tRC)' = T!tRC /\ (T!tRP)' = T!tRP /\ (S!Nothing)' = S!Nothing
  BY <1>3 DEF T!tRC, T!tRP, S!Nothing
<1> QED BY <1>4, <1>5, <1>9, <1>10 DEF Shut, Old

LEMMA ClosableGrows ==
  ASSUME NEW b \in Banks, IInv, TimesClock, Ages(b), NEW wait \in 0..1, Closable(b, wait),
         ~ OnPins(b, {"ACTIVE", "READA", "WRITEA", "READ", "WRITE"}), ~ Precharged(b)
  PROVE  Closable(b, 0)'
<1>2. ~ OnPins(b, {"ACTIVE"}) /\ ~ OnPins(b, {"READA", "WRITEA"}) /\ ~ OnPins(b, {"WRITE", "WRITEA"})
  BY DEF OnPins
<1>3. fast \in BOOLEAN /\ fast' = fast
  BY Known DEF TimesClock, Clock
<1>6. /\ T!tRCD \in 1..2 /\ T!tRC = 3 * T!tRCD /\ T!tRAS = 2 * T!tRCD /\ T!tRP = T!tRCD
      /\ T!tWR = T!tRCD
  BY <1>3, Units
<1>7. Age(b).auto = S!Nothing
  BY DEF Closable, Old
<1>4. /\ {Age(b)'.act, Age(b)'.pre, Age(b)'.wr} \subseteq Nat /\ Age(b)'.auto = S!Nothing
      /\ Age(b)'.row = Age(b).row
      /\ Age(b)'.act >= Age(b).act + 1 \/ Age(b)'.act >= T!tRC
      /\ Age(b)'.pre >= Age(b).pre + 1 \/ Age(b)'.pre >= T!tRP
      /\ Age(b)'.wr >= Age(b).wr + 1 \/ Age(b)'.wr >= T!tWR
  BY <1>2, <1>3, <1>7, AgeKeeps DEF TimesClock, Ages
<1>8. /\ Age(b).act \in Nat /\ Age(b).pre \in Nat /\ Age(b).wr \in Nat
      /\ Age(b)'.act \in Nat /\ Age(b)'.pre \in Nat /\ Age(b)'.wr \in Nat
  BY <1>4 DEF Ages
<1>10. /\ (T!tRC)' = T!tRC /\ (T!tRP)' = T!tRP /\ (T!tWR)' = T!tWR /\ (T!tRAS)' = T!tRAS
       /\ (S!Nothing)' = S!Nothing
  BY <1>3 DEF T!tRC, T!tRP, T!tWR, T!tRAS, S!Nothing
<1>11. CASE Age(b).row = S!Nothing
  <2>1. Age(b).act >= T!tRC - 1 /\ Age(b).pre >= T!tRP - 1
    BY <1>11 DEF Closable, Old
  <2>2. Age(b)'.act >= T!tRC - 1 /\ Age(b)'.pre >= T!tRP - 1
    BY <2>1, <1>4, <1>6, <1>8
  <2> QED BY <2>2, <1>4, <1>10, <1>11 DEF Closable, Old
<1>12. CASE Age(b).row # S!Nothing
  <2>1. Age(b).act >= T!tRAS - wait /\ Age(b).wr >= T!tWR - wait
    BY <1>12 DEF Closable
  <2>2. Age(b)'.act >= T!tRAS - 0 /\ Age(b)'.wr >= T!tWR - 0
    BY <2>1, <1>4, <1>6, <1>8
  <2> QED BY <2>2, <1>4, <1>10, <1>12 DEF Closable
<1> QED BY <1>11, <1>12

-----------------------------------------------------------------------------
(* The state of a bank whose command is on the pins, and the command that  *)
(* takes a bank to its state.                                              *)
LEMMA PinsNow ==
  ASSUME NEW b \in Banks, IInv
  PROVE  /\ OnPins(b, {"ACTIVE"}) => bank[b].st = ACT
         /\ OnPins(b, {"PRECHARGE"}) => bank[b].st = 1 /\ ~ bank[b].actd
         /\ OnPins(b, {"READ", "READA", "WRITE", "WRITEA"}) => bank[b].st = READ
         /\ OnPins(b, {"READA", "WRITEA"}) => b \in auto
         /\ out.pins.op = "PRECHARGE_ALL" => rfsh.rfshing
         /\ rfsh.rfshing => bank[b].st = IDLE /\ ~ bank[b].actd
         /\ rfsh.rfshing => ~ Opens(b) /\ ~ Closes(b) /\ ~ Transfers(b)
<1>1. PinsInv /\ RefreshInv
  BY DEF IInv
<1>2. OnPins(b, {"READ", "READA", "WRITE", "WRITEA"}) => bank[b].st = READ
  BY <1>1 DEF PinsInv, OnPins
<1>3. OnPins(b, {"READA", "WRITEA"}) => b \in auto
  <2>1. SUFFICES ASSUME OnPins(b, {"READA", "WRITEA"}) PROVE b \in auto
    OBVIOUS
  <2>2. bank[b].st = READ /\ out.pins.op \in {"READA", "WRITEA"}
    BY <1>2, <2>1 DEF OnPins
  <2>3. out.pins = [op |-> TransferOp(b, slots[b].wr), ba |-> b, a |-> slots[b].a]
    BY <1>1, <2>2 DEF PinsInv
  <2> QED BY <2>2, <2>3 DEF TransferOp
<1>4. rfsh.rfshing => ~ Opens(b) /\ ~ Closes(b) /\ ~ Transfers(b)
  BY Alone DEF Busies
<1> QED BY <1>1, <1>2, <1>3, <1>4 DEF PinsInv, RefreshInv

LEMMA PinsCome ==
  ASSUME NEW b \in Banks, IInv, Clock
  PROVE  /\ OnPins(b, {"ACTIVE"})' <=> Opens(b)
         /\ OnPins(b, {"PRECHARGE"})' <=> Closes(b)
         /\ Opens(b) => out'.pins = [op |-> "ACTIVE", ba |-> b, a |-> RowOf(slots[b].a)]
<1> DEFINE p == out'.pins
<1>1. /\ Opens(b) => p = [op |-> "ACTIVE", ba |-> b, a |-> RowOf(slots[b].a)]
      /\ Closes(b) => p = [op |-> "PRECHARGE", ba |-> b, a |-> slots[b].a]
  BY PinsStep
<1>2. ASSUME OnPins(b, {"PRECHARGE"})' PROVE Closes(b)
  <2>1. p.op = "PRECHARGE" /\ p.ba = b
    BY <1>2 DEF OnPins
  <2>2. PICK c \in Banks : Busies(c)
    <3>1. rfsh.cmd \in {"NOP", "PRECHARGE_ALL", "REFRESH"}
      BY DEF IInv, RefreshInv, RfshRegs
    <3> QED BY <2>1, <3>1, PinsStep DEF RfshCmd, Nop
  <2>3. ~ Transfers(c)
    <3>1. Transfers(c) =>
            p = [op |-> TransferOp(c, slots[c].wr), ba |-> c, a |-> slots[c].a]
      BY PinsStep
    <3> QED BY <2>1, <3>1 DEF TransferOp
  <2>4. ~ Opens(c)
    <3>1. Opens(c) => p = [op |-> "ACTIVE", ba |-> c, a |-> RowOf(slots[c].a)]
      BY PinsStep
    <3> QED BY <2>1, <3>1
  <2>5. Closes(c)
    BY <2>2, <2>3, <2>4 DEF Busies
  <2>6. p = [op |-> "PRECHARGE", ba |-> c, a |-> slots[c].a]
    BY <2>5, PinsStep
  <2> QED BY <2>1, <2>5, <2>6
<1> QED BY <1>1, <1>2, OpensOnly DEF OnPins

(* The states of the machine in clocks, before and after the step.         *)
LEMMA Machine ==
  ASSUME NEW b \in Banks, IInv, Clock
  PROVE  /\ fast \in BOOLEAN /\ fast' = fast /\ auto' = auto /\ Advances(b)
         /\ bank[b].st \in Nat /\ bank'[b].st \in Nat
         /\ IDLE' = IDLE /\ PRE_ACT' = PRE_ACT /\ ACT' = ACT /\ READ' = READ
         /\ (T!tRC)' = T!tRC /\ (T!tRP)' = T!tRP /\ (T!tWR)' = T!tWR /\ (T!tRAS)' = T!tRAS
         /\ (T!tRCD)' = T!tRCD /\ (S!Nothing)' = S!Nothing
         /\ bank'[b].row = (IF Opens(b) THEN RowOf(slots[b].a) ELSE bank[b].row)
         /\ bank'[b].actd <=>
              (/\ ~ (Closes(b) \/ RfshBg \/ (Transfers(b) /\ b \in auto))
               /\ bank[b].actd \/ Opens(b))
         /\ RfshBg => bank[b].st = IDLE /\ ~ Opens(b) /\ ~ Closes(b) /\ ~ Transfers(b)
         /\ Closes(b) \/ Opens(b) \/ Transfers(b) => ~ rfsh.rfshing
<1>1. fast \in BOOLEAN /\ fast' = fast /\ auto' = auto /\ Advances(b)
  BY Known, BankMoves DEF IInv, Clock
<1>2. bank[b].st \in Nat /\ bank'[b].st \in Nat
  <2>1. bank[b].st \in Nat
    BY Known
  <2> QED BY <1>1, <2>1, Clocks64 DEF Advances
<1>3. bank'[b].row = IF Opens(b) THEN RowOf(slots[b].a) ELSE bank[b].row
  <2>1. bank'[b].row = IF Opens(b) THEN RowOf(Seen(b).a) ELSE bank[b].row
    BY Registers DEF Clock
  <2> QED BY <2>1, Served DEF Busies
<1>4. bank'[b].actd = (/\ ~ (Closes(b) \/ RfshBg \/ (Transfers(b) /\ b \in auto))
                       /\ bank[b].actd \/ Opens(b))
  BY Registers DEF Clock, Geo
<1>5. RfshBg => bank[b].st = IDLE /\ ~ Opens(b) /\ ~ Closes(b) /\ ~ Transfers(b)
  BY Quiet DEF RfshBg, AllIdle, Busies
<1>6. Closes(b) \/ Opens(b) \/ Transfers(b) => ~ rfsh.rfshing
  BY Alone DEF Busies
<1>7. /\ IDLE' = IDLE /\ PRE_ACT' = PRE_ACT /\ ACT' = ACT /\ READ' = READ
      /\ (T!tRC)' = T!tRC /\ (T!tRP)' = T!tRP /\ (T!tWR)' = T!tWR /\ (T!tRAS)' = T!tRAS
      /\ (T!tRCD)' = T!tRCD /\ (S!Nothing)' = S!Nothing
  BY <1>1 DEF IDLE, PRE_ACT, ACT, READ, PRE_RD, T!tRC, T!tRP, T!tWR, T!tRAS, T!tRCD, S!Nothing
<1> QED BY <1>1, <1>2, <1>3, <1>4, <1>5, <1>6, <1>7

-----------------------------------------------------------------------------
(* A clock keeps the bounds on the ages of a bank.                         *)
LEMMA NextAges ==
  ASSUME NEW b \in Banks, IInv, TimesClock, AgeInv(b)
  PROVE  Ages(b)'
<1> DEFINE t == Age(b)
           n == Age(b)'
           done == T!SelfCloses(t)
<1>1. /\ t.act \in Nat /\ t.pre \in Nat /\ t.wr \in Nat /\ t.wr >= 1
  BY DEF AgeInv, Ages
<1>2. T!tRC \in Nat /\ T!tRP \in Nat /\ T!tWR \in Nat
  BY Units, Known
<1>3. /\ n.act = IF OnPins(b, {"ACTIVE"}) THEN 1 ELSE T!Grow(t.act, T!tRC)
      /\ n.pre = IF Precharged(b) /\ t.row # S!Nothing THEN 1
                 ELSE IF done THEN IF t.auto.late THEN 0 ELSE 1
                 ELSE T!Grow(t.pre, T!tRP)
      /\ n.wr = IF OnPins(b, {"WRITE", "WRITEA"}) THEN 1 ELSE T!Grow(t.wr, T!tWR)
  BY AgeStep DEF TimesClock
<1>4. T!Grow(t.act, T!tRC) \in Nat /\ T!Grow(t.pre, T!tRP) \in Nat
  BY <1>1, <1>2, Grows
<1>5. T!Grow(t.wr, T!tWR) \in Nat /\ T!Grow(t.wr, T!tWR) >= t.wr
  BY <1>1, <1>2, Grows
<1>6. T!Grow(t.wr, T!tWR) >= 1
  BY <1>1, <1>5
<1> HIDE DEF done
<1>7. n.act \in Nat /\ n.pre \in Nat /\ n.wr \in Nat /\ n.wr >= 1
  BY <1>3, <1>4, <1>5, <1>6
<1> QED BY <1>7 DEF Ages

(* The row of a bank that keeps one open.                                  *)
LEMMA RowKept ==
  ASSUME NEW b \in Banks, IInv, TimesClock, AgeInv(b),
         bank[b].actd \/ bank[b].st \in ACT .. READ - 1
  PROVE  /\ Age(b)'.row = <<RowReg(b)>> /\ ~ Precharged(b) /\ Age(b).auto = S!Nothing
         /\ ~ OnPins(b, {"ACTIVE"}) => Age(b).row = <<RowReg(b)>>
<1>1. IDLE = 0 /\ PRE_ACT \in Nat /\ ACT = PRE_ACT + 1 /\ READ \in Nat /\ bank[b].st \in Nat
      /\ PRE_ACT >= 1
  BY Units, Machine DEF TimesClock
<1>2. ~ Precharged(b)
  BY <1>1, PinsNow DEF Precharged
<1>3. ~ After(b)
  BY <1>1 DEF After, IInv, RowInv, Within
<1>4. Age(b).auto = S!Nothing
  BY <1>3 DEF AgeInv, ClosesItself
<1>5. ~ T!SelfCloses(Age(b))
  BY <1>4 DEF T!SelfCloses, S!Nothing, T!Nothing
<1>6. bank[b].actd \/ Within(b, ACT, READ)
  BY <1>1 DEF Within
<1>7. ~ OnPins(b, {"ACTIVE"}) => Age(b).row = <<RowReg(b)>>
  BY <1>6 DEF AgeInv, OpenRow
<1>8. OnPins(b, {"ACTIVE"}) => out.pins.a = RowReg(b)
  BY <1>6 DEF IInv, RowInv
<1>9. Age(b)'.row = IF OnPins(b, {"ACTIVE"}) THEN <<out.pins.a>> ELSE Age(b).row
  BY <1>2, <1>5, AgeStep DEF TimesClock
<1> QED BY <1>2, <1>4, <1>7, <1>8, <1>9

LEMMA NextOpenRow ==
  ASSUME NEW b \in Banks, IInv, TimesClock, AgeInv(b)
  PROVE  OpenRow(b)'
<1> DEFINE s == bank[b].st
           t == bank'[b].st
<1>1. /\ IDLE = 0 /\ PRE_ACT \in 1..2 /\ ACT = PRE_ACT + 1 /\ READ \in Nat /\ READ > ACT
      /\ (~ fast => PRE_ACT = 1) /\ (fast => PRE_ACT = 2) /\ T!tRC \in Nat /\ T!tRP \in Nat
  BY Units, Machine DEF TimesClock, PRE_ACT
<1>2. /\ fast \in BOOLEAN /\ Advances(b) /\ s \in Nat /\ t \in Nat
      /\ bank'[b].actd <=> (/\ ~ (Closes(b) \/ RfshBg \/ (Transfers(b) /\ b \in auto))
                            /\ bank[b].actd \/ Opens(b))
      /\ bank'[b].row = IF Opens(b) THEN RowOf(slots[b].a) ELSE bank[b].row
      /\ ACT' = ACT /\ READ' = READ /\ (T!tRC)' = T!tRC /\ (T!tRP)' = T!tRP
  BY Machine DEF TimesClock
<1>3. OnPins(b, {"ACTIVE"})' <=> Opens(b)
  BY PinsCome DEF TimesClock
<1>4. ASSUME Opens(b)
      PROVE  Shut(b)' /\ Age(b)'.act >= T!tRC /\ Age(b)'.pre >= T!tRP
  <2>1. (s = IDLE \/ s = PRE_ACT) /\ ~ rfsh.rfshing
    BY <1>2, <1>4, Machine DEF Advances, TimesClock
  <2>2. out.pins.op # "PRECHARGE_ALL" /\ ~ Closing
    BY <2>1, PinsNow DEF Closing
  <2>3. s = IDLE => ~ bank[b].actd
    BY <1>1, <1>4, Forms
  <2>4. ~ OnPins(b, {"ACTIVE", "READA", "WRITEA"})
    BY <1>1, <2>1, PinsNow DEF OnPins
  <2>5. CASE OnPins(b, {"PRECHARGE"})
    <3>1. s = 1 /\ PRE_ACT = 1 /\ ~ fast
      BY <2>1, <2>5, <1>1, <1>2, PinsNow
    <3>2. Closable(b, 0)
      BY <2>5 DEF AgeInv, MayClose
    <3> QED BY <3>1, <3>2, <2>5, PrechargeShuts DEF AgeInv, Precharged
  <2>6. CASE ~ OnPins(b, {"PRECHARGE"})
    <3>1. Shut(b)
      BY <2>1, <2>2, <2>3, <2>6, <1>1 DEF AgeInv, MayClose, Within
    <3> QED BY <3>1, <2>4, ShutGrows DEF AgeInv
  <2> QED BY <2>5, <2>6
<1>5. ASSUME ~ Opens(b), bank'[b].actd \/ t \in ACT .. READ
      PROVE  Age(b)'.row = <<bank'[b].row>>
  <2>1. PRE_RD \in ACT .. READ - 1
    BY <1>2 DEF PRE_RD, ACT, READ, PRE_ACT
  <2>2. Transfers(b) /\ s = IDLE => bank[b].actd
    BY <2>1, <1>1, Forms
  <2>3. bank[b].actd \/ s \in ACT .. READ - 1
    BY <1>1, <1>2, <1>5, <2>1, <2>2 DEF Advances
  <2> QED BY <2>3, <1>2, <1>5, RowKept DEF RowReg
<1> QED BY <1>2, <1>3, <1>4, <1>5 DEF OpenRow, Within, RowReg

LEMMA NextOpenFor ==
  ASSUME NEW b \in Banks, IInv, TimesClock, AgeInv(b)
  PROVE  OpenFor(b)'
<1> DEFINE s == bank[b].st
           t == bank'[b].st
           u == T!tRCD
           k == Age(b).act
           n == Age(b)'.act
<1>1. /\ u \in 1..2 /\ T!tRAS = 2 * u /\ T!tRC = 3 * u /\ IDLE = 0 /\ PRE_ACT = u /\ ACT = u + 1
      /\ PRE_RD = 2 * u /\ READ = 2 * u + 1 /\ BurstLen \in {1, 2, 4}
      /\ STW(Geo(b)) = READ + BurstLen + 2 + (IF b \in auto THEN 1 ELSE 0)
  BY Units, Machine DEF TimesClock
<1>2. /\ fast \in BOOLEAN /\ Advances(b) /\ s \in Nat /\ t \in Nat
      /\ bank'[b].actd <=> (/\ ~ (Closes(b) \/ RfshBg \/ (Transfers(b) /\ b \in auto))
                            /\ bank[b].actd \/ Opens(b))
      /\ ACT' = ACT /\ READ' = READ /\ (T!tRC)' = T!tRC /\ (T!tRCD)' = T!tRCD /\ auto' = auto
      /\ RfshBg => s = IDLE /\ ~ Opens(b) /\ ~ Closes(b) /\ ~ Transfers(b)
  BY Machine DEF TimesClock
<1>3. OnPins(b, {"ACTIVE"})' <=> Opens(b)
  BY PinsCome DEF TimesClock
<1>4. Transfers(b) /\ s = IDLE => bank[b].actd /\ ~ (b \in auto)
  BY <1>1, Forms
<1>5. /\ s \in ACT .. READ - 1 \/ (READ <= s /\ ~ (b \in auto)) => bank[b].actd
      /\ s \in ACT .. READ - 1 /\ ~ OnPins(b, {"ACTIVE"}) => k >= 1
      /\ READ <= s => k >= u + (s - READ) \/ k >= T!tRC
      /\ k \in Nat
  BY DEF AgeInv, OpenFor, Within, Ages
<1>6. /\ OnPins(b, {"ACTIVE"}) => n = 1 /\ s = ACT
      /\ ~ OnPins(b, {"ACTIVE"}) => n >= k + 1 \/ n >= T!tRC
      /\ n \in Nat
  <2>1. n = IF OnPins(b, {"ACTIVE"}) THEN 1 ELSE T!Grow(k, T!tRC)
    BY AgeStep DEF TimesClock
  <2>2. LET g == T!Grow(k, T!tRC)
        IN  g \in Nat /\ (g >= k + 1 \/ g >= T!tRC)
    <3>1. k \in Nat /\ T!tRC \in Nat
      BY <1>1, <1>5
    <3> QED BY <3>1, Grows
  <2> QED BY <2>1, <2>2, PinsNow
<1> HIDE DEF u, k, n
<1>7. t \in ACT .. READ - 1 \/ (READ <= t /\ ~ (b \in auto)) => bank'[b].actd
  BY <1>1, <1>2, <1>4, <1>5 DEF Advances
<1>8. t \in ACT .. READ - 1 /\ ~ Opens(b) => n >= 1
  <2>1. SUFFICES ASSUME t \in ACT .. READ - 1, ~ Opens(b) PROVE n >= 1
    OBVIOUS
  <2>2. s \in ACT .. READ - 1
    BY <1>1, <1>2, <2>1 DEF Advances
  <2> QED BY <1>1, <1>5, <1>6, <2>2
<1>9. READ <= t => n >= u + (t - READ) \/ n >= T!tRC
  <2>1. SUFFICES ASSUME READ <= t PROVE n >= u + (t - READ) \/ n >= T!tRC
    OBVIOUS
  <2>2. CASE s = IDLE
    <3>1. Transfers(b) /\ t = READ
      BY <1>1, <1>2, <2>1, <2>2 DEF Advances
    <3>2. bank[b].actd
      BY <1>4, <2>2, <3>1
    <3>3. ~ OnPins(b, {"ACTIVE"}) /\ Age(b).row # S!Nothing
      <4>1. ~ OnPins(b, {"ACTIVE"})
        BY <1>1, <2>2, PinsNow
      <4>2. Age(b).row = <<RowReg(b)>>
        BY <3>2, <4>1 DEF AgeInv, OpenRow
      <4> QED BY <4>1, <4>2 DEF S!Nothing
    <3>4. k >= T!tRAS - 1
      BY <2>2, <3>2, <3>3 DEF AgeInv, MayClose, Closable, k
    <3> QED BY <1>1, <1>5, <1>6, <3>1, <3>3, <3>4
  <2>3. CASE s = PRE_RD
    <3>1. Transfers(b) /\ t = READ
      BY <1>1, <1>2, <2>1, <2>3 DEF Advances
    <3>2. CASE OnPins(b, {"ACTIVE"})
      BY <1>1, <1>6, <2>3, <3>1, <3>2
    <3>3. CASE ~ OnPins(b, {"ACTIVE"})
      BY <1>1, <1>5, <1>6, <2>3, <3>1, <3>3
    <3> QED BY <3>2, <3>3
  <2>4. CASE s >= READ
    <3>1. t = s + 1
      BY <1>1, <1>2, <2>1, <2>4 DEF Advances
    <3> QED BY <1>1, <1>5, <1>6, <2>4, <3>1, <1>2
  <2> QED BY <1>1, <1>2, <2>1, <2>2, <2>3, <2>4 DEF Advances
<1>10. /\ n = Age(b)'.act /\ u = T!tRCD
  BY DEF n, u
<1> QED BY <1>2, <1>3, <1>7, <1>8, <1>9, <1>10 DEF OpenFor, Within

(* The steps of the refresh engine while it closes the rows.               *)
LEMMA ClosingStep ==
  ASSUME IInv, PauseInv, Clock, RfshNext
  PROVE  /\ out'.pins.op = "PRECHARGE_ALL" => rfsh.rfshing /\ rfsh.cmd = "PRECHARGE_ALL"
         /\ rfsh.rfshing /\ rfsh.cmd = "PRECHARGE_ALL" => out'.pins.op = "PRECHARGE_ALL"
         /\ rfsh.rfshing /\ rfsh.cmd = "PRECHARGE_ALL" => out.pins.op # "PRECHARGE_ALL"
         /\ RfshBg /\ ~ rfsh.rfshing => rfsh'.rfshing /\ rfsh'.cmd = "PRECHARGE_ALL"
         /\ rfsh'.rfshing /\ rfsh'.cmd = "PRECHARGE_ALL" => ~ rfsh.rfshing /\ RfshBg
<1>1. PICK start \in BOOLEAN : RfshStep(start, RfshBg, SeenQuiet)
  BY DEF RfshNext
<1>2. /\ fast \in BOOLEAN /\ RefreshInv /\ PinsInv
      /\ rfsh.st \in 0 .. Steps - 1 /\ rfsh.rfshing \in BOOLEAN
  BY Known, RefreshAssumption DEF IInv, RefreshInv, RfshRegs
<1>3. /\ rfsh'.rfshing <=> Runs(RfshBg, SeenQuiet)
      /\ rfsh'.cmd = CASE rfsh.st = 0 -> "PRECHARGE_ALL"
                       [] rfsh.st = First -> "REFRESH"
                       [] OTHER -> "NOP"
  BY <1>1 DEF RfshStep
<1>4. Steps \in 6..10 /\ First \in 1..2
  BY <1>2 DEF Steps, First
<1>5. rfsh'.cmd = "PRECHARGE_ALL" <=> rfsh.st = 0
  BY <1>3, <1>4
<1>6. /\ rfsh.rfshing => rfsh.st >= 1
      /\ ~ rfsh.rfshing => rfsh.st = 0
      /\ rfsh.rfshing /\ rfsh.cmd = "PRECHARGE_ALL" => rfsh.st = 1
      /\ out.pins.op = "PRECHARGE_ALL" => rfsh.st = 2
  BY <1>2 DEF PauseInv, RefreshInv
<1>7. rfsh.rfshing => out'.pins.op = rfsh.cmd
  BY PinsStep DEF RfshCmd
<1>8. ~ rfsh.rfshing => out'.pins.op # "PRECHARGE_ALL"
  <2>1. SUFFICES ASSUME ~ rfsh.rfshing PROVE out'.pins.op # "PRECHARGE_ALL"
    OBVIOUS
  <2>2. CASE \A b \in Banks : ~ Busies(b)
    BY <2>1, <2>2, PinsStep DEF Nop
  <2>3. ASSUME NEW b \in Banks, Busies(b) PROVE out'.pins.op # "PRECHARGE_ALL"
    <3>1. \/ out'.pins = [op |-> TransferOp(b, slots[b].wr), ba |-> b, a |-> slots[b].a]
          \/ out'.pins = [op |-> "ACTIVE", ba |-> b, a |-> RowOf(slots[b].a)]
          \/ out'.pins = [op |-> "PRECHARGE", ba |-> b, a |-> slots[b].a]
      BY <2>3, PinsStep DEF Busies
    <3>2. out'.pins.op \in {TransferOp(b, slots[b].wr), "ACTIVE", "PRECHARGE"}
      BY <3>1
    <3> QED BY <3>2 DEF TransferOp
  <2> QED BY <2>2, <2>3
<1>9. RfshBg /\ ~ rfsh.rfshing => rfsh'.rfshing /\ rfsh'.cmd = "PRECHARGE_ALL"
  BY <1>3, <1>4, <1>5, <1>6 DEF Runs, Ends
<1>10. rfsh'.rfshing /\ rfsh'.cmd = "PRECHARGE_ALL" => ~ rfsh.rfshing /\ RfshBg
  BY <1>3, <1>5, <1>6 DEF Runs
<1> QED BY <1>6, <1>7, <1>8, <1>9, <1>10

LEMMA NextMayClose ==
  ASSUME NEW b \in Banks, IInv, TimesClock, RfshNext, PauseInv, AgeInv(b)
  PROVE  MayClose(b)'
<1> DEFINE s == bank[b].st
           t == bank'[b].st
           u == T!tRCD
           n == Age(b)'
<1>1. /\ u \in 1..2 /\ T!tRAS = 2 * u /\ T!tRC = 3 * u /\ T!tRP = u /\ T!tWR = u
      /\ IDLE = 0 /\ PRE_ACT = u /\ ACT = u + 1
      /\ PRE_RD = 2 * u /\ READ = 2 * u + 1 /\ BurstLen \in {1, 2, 4}
      /\ STW(Geo(b)) = READ + BurstLen + 2 + (IF b \in auto THEN 1 ELSE 0)
  BY Units, Machine DEF TimesClock
<1>2. /\ fast \in BOOLEAN /\ Advances(b) /\ s \in Nat /\ t \in Nat
      /\ bank'[b].actd <=> (/\ ~ (Closes(b) \/ RfshBg \/ (Transfers(b) /\ b \in auto))
                            /\ bank[b].actd \/ Opens(b))
      /\ RfshBg => s = IDLE /\ ~ Opens(b) /\ ~ Closes(b) /\ ~ Transfers(b)
      /\ Closes(b) \/ Opens(b) \/ Transfers(b) => ~ rfsh.rfshing
  BY Machine DEF TimesClock
<1>3. /\ IDLE' = IDLE /\ PRE_ACT' = PRE_ACT /\ READ' = READ /\ (S!Nothing)' = S!Nothing
      /\ (T!tRC)' = T!tRC /\ (T!tRP)' = T!tRP /\ (T!tWR)' = T!tWR /\ (T!tRAS)' = T!tRAS
  BY Machine DEF TimesClock
<1>4. OnPins(b, {"PRECHARGE"})' <=> Closes(b)
  BY PinsCome DEF TimesClock
<1>5. /\ Age(b).act \in Nat /\ Age(b).pre \in Nat /\ Age(b).wr \in Nat
      /\ n.act \in Nat /\ n.pre \in Nat /\ n.wr \in Nat /\ n.wr >= 1
  <2>1. Ages(b)'
    BY NextAges
  <2> QED BY <2>1 DEF AgeInv, Ages
<1>6. Shut(b)' => Closable(b, 0)'
  BY DEF Shut, Closable
<1>7. ASSUME s = IDLE
      PROVE  /\ ~ OnPins(b, {"ACTIVE", "READA", "WRITEA", "READ", "WRITE"})
             /\ ~ OnPins(b, {"ACTIVE", "READA", "WRITEA"}) /\ ~ OnPins(b, {"PRECHARGE"})
             /\ ~ OnPins(b, {"ACTIVE"})
  BY <1>1, <1>7, PinsNow DEF OnPins
<1>8. ASSUME s = IDLE, bank[b].actd
      PROVE  Closable(b, 0)'
  <2>1. Closable(b, 1)
    BY <1>8 DEF AgeInv, MayClose
  <2>2. ~ Precharged(b)
    BY <1>8, RowKept
  <2> QED BY <2>1, <2>2, <1>7, <1>8, ClosableGrows DEF AgeInv
<1>9. ASSUME s = IDLE, ~ bank[b].actd
      PROVE  /\ Closable(b, 0)'
             /\ ~ (rfsh.rfshing /\ rfsh.cmd = "PRECHARGE_ALL") => Shut(b)'
  <2>1. CASE ~ Closing
    <3>1. Shut(b)
      BY <1>9, <2>1 DEF AgeInv, MayClose
    <3>2. Shut(b)'
      BY <3>1, <1>7, <1>9, ShutGrows DEF AgeInv
    <3> QED BY <3>2, <1>6
  <2>2. CASE rfsh.rfshing /\ rfsh.cmd = "PRECHARGE_ALL"
    <3>1. Closable(b, 0)
      BY <1>9, <2>2 DEF AgeInv, MayClose, Closing
    <3>2. ~ Precharged(b)
      BY <1>7, <1>9, <2>2, ClosingStep DEF Precharged, TimesClock
    <3> QED BY <3>1, <3>2, <2>2, <1>7, <1>9, ClosableGrows DEF AgeInv
  <2>3. CASE out.pins.op = "PRECHARGE_ALL"
    <3>1. Closable(b, 0)
      BY <1>9, <2>3 DEF AgeInv, MayClose, Closing
    <3>2. Shut(b)'
      BY <3>1, <2>3, PrechargeShuts DEF AgeInv, Precharged
    <3> QED BY <3>2, <1>6
  <2> QED BY <2>1, <2>2, <2>3 DEF Closing
<1>10. ASSUME t = IDLE, bank'[b].actd PROVE Closable(b, 1)'
  <2>1. bank[b].actd /\ (s = IDLE \/ s >= READ)
    BY <1>1, <1>2, <1>10 DEF Advances
  <2>2. CASE s = IDLE
    <3>1. Closable(b, 0)'
      BY <1>8, <2>1, <2>2
    <3>2. (T!tRAS)' \in Nat /\ (T!tWR)' \in Nat
      BY <1>1, <1>3
    <3> QED BY <3>1, <3>2, <1>5 DEF Closable
  <2>3. CASE s >= READ
    <3>1. ~ (b \in auto)
      BY <2>1, <2>3, <1>1 DEF IInv, RowInv, Within
    <3>2. n.row = <<RowReg(b)>> /\ ~ Precharged(b) /\ Age(b).auto = S!Nothing
      BY <2>1, RowKept
    <3>3. ~ OnPins(b, {"ACTIVE"}) /\ ~ OnPins(b, {"READA", "WRITEA"})
      BY <1>1, <2>3, <3>1, PinsNow
    <3>4. n.auto = S!Nothing /\ (n.act >= Age(b).act + 1 \/ n.act >= T!tRC)
      BY <3>2, <3>3, <1>2, <1>5, AgeKeeps DEF TimesClock
    <3>5. Age(b).act >= u + (s - READ) \/ Age(b).act >= T!tRC
      BY <2>3 DEF AgeInv, OpenFor
    <3>6. n.act >= T!tRAS - 1 /\ n.wr >= T!tWR - 1
      BY <3>4, <3>5, <2>3, <1>1, <1>2, <1>5
    <3>7. n.row # S!Nothing
      BY <3>2 DEF S!Nothing
    <3> QED BY <3>4, <3>6, <3>7, <1>3 DEF Closable
  <2> QED BY <2>1, <2>2, <2>3
<1>11. Closes(b) => Closable(b, 0)'
  BY <1>8, <1>9, <1>2 DEF Advances
<1>12. ASSUME t = IDLE, ~ bank'[b].actd
       PROVE  IF Closing' THEN Closable(b, 0)' ELSE Shut(b)'
  <2>1. s = IDLE \/ s >= READ
    BY <1>1, <1>2, <1>12 DEF Advances
  <2>2. CASE s = IDLE /\ bank[b].actd
    <3>1. RfshBg /\ ~ rfsh.rfshing
      BY <2>2, <1>1, <1>2, <1>12, PinsNow DEF Advances
    <3>2. Closing'
      BY <3>1, ClosingStep DEF TimesClock, Closing
    <3> QED BY <3>2, <2>2, <1>8
  <2>3. CASE s = IDLE /\ ~ bank[b].actd
    <3>1. rfsh.rfshing /\ rfsh.cmd = "PRECHARGE_ALL" => Closing'
      BY ClosingStep DEF TimesClock, Closing
    <3> QED BY <3>1, <2>3, <1>9
  <2>4. CASE s >= READ
    <3>1. b \in auto
      <4>1. ~ RfshBg /\ ~ Closes(b) /\ ~ Transfers(b)
        BY <2>4, <1>1, <1>2, <1>12 DEF Advances
      <4>2. ~ bank[b].actd
        BY <4>1, <1>2, <1>12
      <4> QED BY <4>2, <2>4 DEF AgeInv, OpenFor
    <3>2. s = READ + BurstLen + 2
      BY <2>4, <3>1, <1>1, <1>2, <1>12 DEF Advances
    <3>3. SelfClosing(b)
      BY <3>1, <3>2, <1>1 DEF AgeInv, ClosesItself, After
    <3>4. Age(b).row = S!Nothing /\ Age(b).auto = S!Nothing
      BY <3>2, <3>3, <1>1 DEF SelfClosing
    <3>5. sim.row[b] = S!Nothing
      <4>1. BUSY = READ + BurstLen + 1
        BY <1>1 DEF BUSY, DST
      <4>2. sim.burst # S!None => sim.burst.ba # b
        BY <4>1, <3>2, <1>1, BurstFacts
      <4> QED BY <4>2, <3>3 DEF SelfClosing
    <3>6. ~ OnPins(b, {"ACTIVE"}) /\ ~ OnPins(b, {"READA", "WRITEA"})
      <4>1. s # ACT /\ s # READ
        BY <3>2, <1>1
      <4> QED BY <4>1, PinsNow DEF OnPins
    <3>7. /\ n.row = S!Nothing /\ n.auto = S!Nothing
          /\ n.act >= Age(b).act + 1 \/ n.act >= T!tRC
          /\ n.pre >= Age(b).pre + 1 \/ n.pre >= T!tRP
      BY <3>4, <3>6, <1>2, <1>5, AgeKeeps DEF TimesClock
    <3>8. Age(b).act >= u + (s - READ) \/ Age(b).act >= T!tRC
      BY <2>4 DEF AgeInv, OpenFor
    <3>9. n.act >= T!tRC - 1 /\ n.pre >= T!tRP - 1
      BY <3>2, <3>7, <3>8, <1>1, <1>2, <1>5
    <3>10. sim'.row[b] = S!Nothing
      BY <3>5, <3>6, RowStep DEF TimesClock
    <3>11. Shut(b)'
      BY <3>7, <3>9, <3>10, <1>3 DEF Shut, Old
    <3> QED BY <3>11, <1>6
  <2> QED BY <2>1, <2>2, <2>3, <2>4
<1>13. t \in 1 .. PRE_ACT /\ ~ Closes(b) => Shut(b)'
  <2>1. SUFFICES ASSUME t \in 1 .. PRE_ACT, ~ Closes(b) PROVE Shut(b)'
    OBVIOUS
  <2>2. s \in 1 .. PRE_ACT
    BY <1>1, <1>2, <2>1 DEF Advances
  <2>3. CASE OnPins(b, {"PRECHARGE"})
    <3>1. Closable(b, 0)
      BY <2>3 DEF AgeInv, MayClose
    <3> QED BY <3>1, <2>3, PrechargeShuts DEF AgeInv, Precharged
  <2>4. CASE ~ OnPins(b, {"PRECHARGE"})
    <3>1. Shut(b)
      BY <2>2, <2>4 DEF AgeInv, MayClose, Within
    <3>2. ~ OnPins(b, {"ACTIVE", "READA", "WRITEA"})
      BY <1>1, <2>2, PinsNow DEF OnPins
    <3> QED BY <3>1, <3>2, ShutGrows DEF AgeInv
  <2> QED BY <2>3, <2>4
<1> QED BY <1>3, <1>4, <1>10, <1>11, <1>12, <1>13 DEF MayClose, Within

LEMMA NextClosesItself ==
  ASSUME NEW b \in Banks, IInv, TimesClock, AgeInv(b)
  PROVE  ClosesItself(b)'
<1> DEFINE s == bank[b].st
           t == bank'[b].st
           u == T!tRCD
           n == Age(b)'
           done == T!SelfCloses(Age(b))
<1>1. /\ u \in 1..2 /\ T!tRAS = 2 * u /\ T!tRC = 3 * u /\ IDLE = 0 /\ ACT = u + 1
      /\ PRE_ACT = u /\ PRE_RD = 2 * u /\ READ = 2 * u + 1 /\ BurstLen \in {1, 2, 4}
      /\ STW(Geo(b)) = READ + BurstLen + 2 + (IF b \in auto THEN 1 ELSE 0)
  BY Units, Machine DEF TimesClock
<1>2. /\ fast \in BOOLEAN /\ Advances(b) /\ s \in Nat /\ t \in Nat /\ s < STW(Geo(b))
      /\ READ' = READ /\ (S!Nothing)' = S!Nothing /\ auto' = auto
  BY Machine, Known DEF TimesClock
<1>3. /\ n.row = IF OnPins(b, {"ACTIVE"}) THEN <<out.pins.a>>
                 ELSE IF Precharged(b) \/ done THEN S!Nothing ELSE Age(b).row
      /\ n.auto = IF done THEN S!Nothing
                  ELSE IF OnPins(b, {"READA"}) THEN [left |-> BurstLen, late |-> FALSE]
                  ELSE IF OnPins(b, {"WRITEA"}) THEN [left |-> 1, late |-> TRUE]
                  ELSE IF Age(b).auto = S!Nothing THEN S!Nothing
                  ELSE [Age(b).auto EXCEPT !.left = IF @ = 1 THEN 1 ELSE @ - 1]
  BY AgeStep DEF TimesClock
<1>4. Age(b).auto = S!Nothing => ~ done
  BY DEF T!SelfCloses, S!Nothing, T!Nothing
<1>5. ASSUME s # ACT, s # READ, s # 1, s # IDLE
      PROVE  ~ OnPins(b, {"ACTIVE"}) /\ ~ OnPins(b, {"READA"}) /\ ~ OnPins(b, {"WRITEA"})
             /\ ~ OnPins(b, {"READA", "WRITEA"})
             /\ ~ Precharged(b)
  BY <1>5, PinsNow DEF OnPins, Precharged
<1>6. CASE ~ (b \in auto) \/ s < READ
  <2>1. Age(b).auto = S!Nothing
    BY <1>1, <1>2, <1>6 DEF AgeInv, ClosesItself, After
  <2>2. ~ OnPins(b, {"READA"}) /\ ~ OnPins(b, {"WRITEA"})
    BY <1>1, <1>2, <1>6, PinsNow DEF OnPins
  <2>3. n.auto = S!Nothing
    BY <2>1, <2>2, <1>3, <1>4
  <2>4. ~ (b \in auto /\ READ < t)
    BY <1>1, <1>2, <1>6 DEF Advances
  <2> QED BY <2>3, <2>4, <1>2 DEF ClosesItself, After
<1>7. CASE b \in auto /\ s = READ
  <2>1. t = READ + 1
    BY <1>1, <1>2, <1>7 DEF Advances
  <2>2. Age(b).auto = S!Nothing /\ ~ done
    BY <1>2, <1>4, <1>7 DEF AgeInv, ClosesItself, After
  <2>3. out.pins.op \in {"READA", "WRITEA"} /\ out.pins.ba = b
    <3>1. out.pins = [op |-> TransferOp(b, slots[b].wr), ba |-> b, a |-> slots[b].a]
      BY <1>7 DEF IInv, PinsInv
    <3> QED BY <3>1, <1>7 DEF TransferOp
  <2>4. ~ Precharged(b) /\ ~ OnPins(b, {"ACTIVE"})
    BY <2>3 DEF Precharged, OnPins
  <2>5. n.row # S!Nothing
    <3>1. Age(b).row = <<RowReg(b)>>
      BY <2>4, <1>1, <1>7 DEF AgeInv, OpenRow, Within
    <3>2. n.row = <<RowReg(b)>>
      BY <3>1, <2>2, <2>4, <1>3
    <3> QED BY <3>2 DEF S!Nothing
  <2>6. \E left \in 1 .. BurstLen, late \in BOOLEAN :
          n.auto = [left |-> left, late |-> late] /\ (left = 1 \/ left + 1 <= BurstLen + 1)
    <3>1. CASE out.pins.op = "READA"
      <4>1. n.auto = [left |-> BurstLen, late |-> FALSE]
        BY <3>1, <2>2, <2>3, <1>3 DEF OnPins
      <4>2. BurstLen \in 1 .. BurstLen /\ FALSE \in BOOLEAN /\ BurstLen + 1 <= BurstLen + 1
        BY <1>1
      <4> HIDE DEF n
      <4> QED BY <4>1, <4>2
    <3>2. CASE out.pins.op = "WRITEA"
      <4>1. n.auto = [left |-> 1, late |-> TRUE]
        BY <3>2, <2>2, <2>3, <1>3 DEF OnPins
      <4>2. 1 \in 1 .. BurstLen /\ TRUE \in BOOLEAN
        BY <1>1
      <4> HIDE DEF n
      <4> QED BY <4>1, <4>2
    <3> QED BY <2>3, <3>1, <3>2
  <2>7. sim'.row[b] = S!Nothing \/ (sim'.burst # S!None /\ sim'.burst.ba = b)
    <3>1. CASE out.pins.op = "READA"
      <4>1. sim'.burst = ReadBurst(b, S!RowOf(b), out.pins.a % Page, 0, 1)
        BY <3>1, <2>3, SimStep64 DEF TimesClock, Reads64
      <4> QED BY <4>1, BurstFields
    <3>2. CASE out.pins.op = "WRITEA"
      <4>1. OnPins(b, {"WRITEA"})
        BY <3>2, <2>3 DEF OnPins
      <4> QED BY <4>1, RowStep DEF TimesClock
    <3> QED BY <2>3, <3>1, <3>2
  <2>8. t - READ = 1 /\ 1 <= BurstLen + 1
    BY <2>1, <1>1
  <2>9. SelfClosing(b)'
    BY <2>5, <2>6, <2>7, <2>8, <1>2 DEF SelfClosing, S!None
  <2>10. READ < t
    BY <2>1, <1>1
  <2> QED BY <2>9, <2>10, <1>2, <1>7 DEF ClosesItself, After
<1>8. CASE b \in auto /\ s > READ
  <2> DEFINE past == s - READ
  <2>1. SelfClosing(b)
    BY <1>8 DEF AgeInv, ClosesItself, After
  <2>2. /\ ~ OnPins(b, {"ACTIVE"}) /\ ~ OnPins(b, {"READA"}) /\ ~ OnPins(b, {"WRITEA"})
        /\ ~ OnPins(b, {"READA", "WRITEA"}) /\ ~ Precharged(b)
    BY <1>1, <1>5, <1>8
  <2>3. \/ t = IDLE /\ past = BurstLen + 2
        \/ t = s + 1 /\ past \in 1 .. BurstLen + 1
    BY <1>1, <1>2, <1>8 DEF Advances
  <2>4. n.row # S!Nothing \/ n.auto = S!Nothing
    <3>1. CASE done
      BY <3>1, <1>3, <2>2
    <3>2. CASE ~ done
      <4>1. n.row = Age(b).row
        BY <3>2, <1>3, <2>2
      <4>2. Age(b).row = S!Nothing => Age(b).auto = S!Nothing
        BY <2>1 DEF SelfClosing
      <4> QED BY <4>1, <4>2, <3>2, <1>3, <2>2
    <3> QED BY <3>1, <3>2
  <2>5. ASSUME n.row # S!Nothing
        PROVE  /\ past <= BurstLen /\ t = s + 1
               /\ \E left \in 1 .. BurstLen, late \in BOOLEAN :
                    /\ n.auto = [left |-> left, late |-> late]
                    /\ left = 1 \/ left + (past + 1) <= BurstLen + 1
    <3>1. ~ done /\ n.row = Age(b).row /\ Age(b).row # S!Nothing
      BY <2>2, <2>5, <1>3
    <3>2. past <= BurstLen + 1
      BY <2>1, <3>1 DEF SelfClosing
    <3>3. PICK left \in 1 .. BurstLen, late \in BOOLEAN :
            /\ Age(b).auto = [left |-> left, late |-> late]
            /\ left = 1 \/ left + past <= BurstLen + 1
      BY <2>1, <3>1 DEF SelfClosing
    <3>4. Age(b).auto # S!Nothing /\ Age(b).auto.left = left
      <4>1. Age(b).auto.left = left
        BY <3>3
      <4>2. DOMAIN Age(b).auto = {"left", "late"} /\ DOMAIN S!Nothing = {}
        BY <3>3 DEF S!Nothing
      <4> QED BY <4>1, <4>2
    <3>5. left > 1 \/ Age(b).act < T!tRAS
      <4>1. ~ (left <= 1 /\ Age(b).act >= T!tRAS)
        BY <3>1, <3>4 DEF T!SelfCloses, S!Nothing, T!Nothing
      <4>2. Age(b).act \in Nat
        BY DEF AgeInv, Ages
      <4> QED BY <4>1, <4>2, <1>1
    <3>6. Age(b).act >= u + past \/ Age(b).act >= T!tRC
      BY <1>1, <1>2, <1>8 DEF AgeInv, OpenFor
    <3>7. past \in Nat /\ Age(b).act \in Nat
      BY <1>1, <1>2, <1>8 DEF AgeInv, Ages
    <3>8. past <= BurstLen /\ t = s + 1
      <4>1. past # BurstLen + 1
        BY <1>1, <3>3, <3>5, <3>6, <3>7
      <4> QED BY <1>1, <2>3, <3>2, <3>7, <4>1
    <3> DEFINE l == IF left = 1 THEN 1 ELSE left - 1
    <3>9. n.auto = [left |-> l, late |-> late]
      BY <2>2, <3>1, <3>3, <3>4, <1>3
    <3>10. l \in 1 .. BurstLen /\ (l = 1 \/ l + (past + 1) <= BurstLen + 1)
      BY <1>1, <3>3, <3>7
    <3> HIDE DEF l, n, past
    <3> QED BY <3>8, <3>9, <3>10
  <2>6. sim'.row[b] = S!Nothing \/ (sim'.burst # S!None /\ sim'.burst.ba = b)
    <3>1. CASE sim.row[b] = S!Nothing
      BY <3>1, <2>2, RowStep DEF TimesClock
    <3>2. CASE sim.burst # S!None /\ sim.burst.ba = b
      <4>1. sim.burst.auto /\ s \in READ + 1 .. BUSY
        BY <3>2, <1>8, BurstFacts
      <4>2. CASE Reads64(out.pins) \/ Writes64(out.pins)
        BY <3>2, <4>1, <4>2, RowStep DEF TimesClock
      <4>3. CASE sim.burst.wait = 0 /\ sim.burst.beat + 1 >= BurstLen
        BY <3>2, <4>1, <4>3, RowStep DEF TimesClock
      <4>4. CASE /\ ~ (Reads64(out.pins) \/ Writes64(out.pins))
                 /\ ~ (sim.burst.wait = 0 /\ sim.burst.beat + 1 >= BurstLen)
        <5> DEFINE row == sim.burst.row
                   col == sim.burst.col
                   beat == IF s <= DST THEN 0 ELSE s - DST
                   wait == IF s = READ + 1 THEN 1 ELSE 0
        <5>1. sim'.burst = GoesOn(sim.burst)
          BY <3>2, <4>4, SimStep64 DEF TimesClock
        <5>2. /\ sim.burst = ReadBurst(b, row, col, beat, wait)
              /\ sim.burst.wait = wait /\ sim.burst.beat = beat
          BY <3>2, BurstFacts
        <5>3. DST \in Nat
          BY <1>1 DEF DST
        <5>4. beat \in Nat /\ wait \in 0..1
          BY <5>3, <1>2
        <5> HIDE DEF row, col, beat, wait
        <5>5. \/ GoesOn(ReadBurst(b, row, col, beat, wait)) = ReadBurst(b, row, col, beat, wait - 1)
              \/ GoesOn(ReadBurst(b, row, col, beat, wait)) = ReadBurst(b, row, col, beat + 1, wait)
          BY <1>1, <4>4, <5>2, <5>4, BurstGoes
        <5> QED BY <5>1, <5>2, <5>5, BurstFields
      <4> QED BY <4>2, <4>3, <4>4
    <3> QED BY <3>1, <3>2, <2>1 DEF SelfClosing
  <2>7. CASE t = IDLE
    <3>1. n.row = S!Nothing
      BY <2>7, <2>5, <1>2, <1>1
    <3>2. n.auto = S!Nothing
      BY <3>1, <2>4
    <3>3. ~ (READ < t)
      BY <2>7, <1>1
    <3> QED BY <3>2, <3>3, <1>2 DEF ClosesItself, After
  <2>8. CASE t = s + 1
    <3>1. t - READ = past + 1 /\ READ < t
      BY <2>8, <1>1, <1>2, <1>8
    <3>2. past <= BurstLen => past + 1 <= BurstLen + 1
      BY <1>1, <1>2
    <3> HIDE DEF past
    <3>3. SelfClosing(b)'
      BY <2>4, <2>5, <2>6, <3>1, <3>2, <1>2 DEF SelfClosing, S!None
    <3> QED BY <3>1, <3>3, <1>2, <1>8 DEF ClosesItself, After
  <2> QED BY <2>3, <2>7, <2>8
<1> QED BY <1>2, <1>1, <1>6, <1>7, <1>8

(* The clocks of the refresh engine bound the time since the last refresh. *)
LEMMA RefreshClock ==
  ASSUME IInv, PauseInv, Clock, TimingNext, RfshNext
  PROVE  LET s == rfsh.st
             t == rfsh'.st
         IN /\ timing'.ref \in Nat
            /\ rfsh'.rfshing =>
                 /\ t >= 1
                 /\ rfsh'.cmd = "PRECHARGE_ALL" => t = 1
                 /\ rfsh'.cmd = "REFRESH" => t = First + 1
            /\ rfsh.rfshing /\ rfsh.cmd = "PRECHARGE_ALL" => t = 2
            /\ rfsh.rfshing /\ rfsh.cmd = "REFRESH" => t = First + 2
            /\ timing'.ref >= IF ~ rfsh'.rfshing \/ t <= First THEN T!tRFC - 1
                              ELSE IF t <= First + 2 THEN T!tRFC ELSE t - First - 2
            /\ ~ rfsh.rfshing => timing'.ref >= T!tRFC
<1> DEFINE s == rfsh.st
           t == rfsh'.st
           u == T!tRCD
           r == timing.ref
           n == timing'.ref
<1>1. PICK start \in BOOLEAN : RfshStep(start, RfshBg, SeenQuiet)
  BY DEF RfshNext
<1>2. /\ fast \in BOOLEAN /\ RefreshInv /\ s \in 0 .. Steps - 1 /\ rfsh.rfshing \in BOOLEAN
      /\ r \in Nat
  BY Known, RefreshAssumption DEF IInv, RefreshInv, RfshRegs, PauseInv
<1>3. /\ rfsh'.rfshing <=> Runs(RfshBg, SeenQuiet)
      /\ t = StNext(RfshBg, SeenQuiet)
      /\ rfsh'.cmd = CASE s = 0 -> "PRECHARGE_ALL"
                       [] s = First -> "REFRESH"
                       [] OTHER -> "NOP"
  BY <1>1 DEF RfshStep
<1>4. u \in 1..2 /\ First = u /\ Steps = (4 * u) + 2 /\ T!tRFC = (3 * u) + 1
  <2>1. Banks # {}
    BY Sdram64Assumption
  <2> QED BY <1>2, <2>1, Units
<1>5. /\ rfsh.rfshing => s >= 1
      /\ ~ rfsh.rfshing => s = 0
      /\ rfsh.rfshing /\ rfsh.cmd = "PRECHARGE_ALL" => s = 1
      /\ rfsh.rfshing /\ rfsh.cmd = "REFRESH" => s = First + 1
      /\ out.pins.op = "REFRESH" => rfsh.rfshing /\ s = First + 2
      /\ r >= IF ~ rfsh.rfshing \/ s <= First THEN T!tRFC - 1
              ELSE IF s <= First + 2 THEN T!tRFC ELSE s - First - 2
  BY <1>2 DEF PauseInv, RefreshInv
<1>6. n = IF out.pins.op = "REFRESH" THEN 1 ELSE T!Grow(r, T!tRFC)
  BY DEF TimingNext, T!TimingStep
<1>7. /\ T!Grow(r, T!tRFC) \in Nat
      /\ T!Grow(r, T!tRFC) >= r + 1 \/ T!Grow(r, T!tRFC) >= T!tRFC
  <2>1. r \in Nat /\ T!tRFC \in Nat
    BY <1>2, <1>4
  <2> QED BY <2>1, Grows
<1>8. /\ rfsh'.cmd = "PRECHARGE_ALL" <=> s = 0
      /\ rfsh'.cmd = "REFRESH" <=> s = First
  BY <1>3, <1>4
<1>9. \/ ~ rfsh.rfshing /\ ~ rfsh'.rfshing /\ t = 0
      \/ ~ rfsh.rfshing /\ rfsh'.rfshing /\ t = 1
      \/ rfsh.rfshing /\ s < Steps - 1 /\ rfsh'.rfshing /\ t = s + 1
      \/ rfsh.rfshing /\ s = Steps - 1 /\ rfsh'.rfshing /\ t = First
      \/ rfsh.rfshing /\ s = Steps - 1 /\ ~ rfsh'.rfshing
  <2>1. (s + 1) % Steps = IF s = Steps - 1 THEN 0 ELSE s + 1
    BY <1>2, <1>4
  <2>2. CASE s = Steps - 1
    BY <1>3, <1>4, <1>5, <2>2 DEF Runs, StNext, Again, Ends
  <2>3. CASE s # Steps - 1
    <3>1. ~ Ends /\ ~ Again(SeenQuiet)
      BY <2>3 DEF Ends, Again
    <3>2. /\ rfsh'.rfshing <=> rfsh.rfshing \/ RfshBg
          /\ rfsh.rfshing \/ RfshBg => t = s + 1
      BY <1>3, <2>1, <2>3, <3>1 DEF Runs, StNext
    <3>3. ~ rfsh.rfshing /\ ~ RfshBg => t = 0
      BY <1>3, <1>5, <3>1 DEF StNext
    <3> QED BY <1>2, <1>4, <1>5, <2>3, <3>2, <3>3
  <2> QED BY <2>2, <2>3
<1> HIDE DEF s, t, u, r, n
<1>10. n \in Nat
  BY <1>6, <1>7
<1>11. /\ rfsh'.rfshing =>
            /\ t >= 1
            /\ rfsh'.cmd = "PRECHARGE_ALL" => t = 1
            /\ rfsh'.cmd = "REFRESH" => t = First + 1
       /\ rfsh.rfshing /\ rfsh.cmd = "PRECHARGE_ALL" => t = 2
       /\ rfsh.rfshing /\ rfsh.cmd = "REFRESH" => t = First + 2
  BY <1>2, <1>4, <1>5, <1>8, <1>9
<1>12. n >= IF ~ rfsh'.rfshing \/ t <= First THEN T!tRFC - 1
            ELSE IF t <= First + 2 THEN T!tRFC ELSE t - First - 2
  <2>1. CASE out.pins.op = "REFRESH"
    BY <2>1, <1>4, <1>5, <1>6, <1>9
  <2>2. CASE out.pins.op # "REFRESH"
    <3>1. n >= r + 1 \/ n >= T!tRFC
      BY <2>2, <1>6, <1>7
    <3> QED BY <3>1, <1>2, <1>4, <1>5, <1>9, <1>10
  <2> QED BY <2>1, <2>2
<1>13. ~ rfsh.rfshing => n >= T!tRFC
  BY <1>2, <1>4, <1>5, <1>6, <1>7, <1>10
<1> QED BY <1>10, <1>11, <1>12, <1>13 DEF s, t, n

LEMMA NextPause ==
  ASSUME IInv, TimesInv, TimesClock, RfshNext
  PROVE  PauseInv'
<1> DEFINE p == out'.pins
<1>1. /\ IInv /\ PauseInv /\ Clock /\ TimingNext /\ RefreshInv /\ fast \in BOOLEAN /\ fast' = fast
      /\ \A b \in Banks : AgeInv(b)
  BY RefreshAssumption DEF TimesInv, TimesClock, IInv, RefreshInv, Clock
<1>2. /\ First' = First /\ (T!tRFC)' = T!tRFC /\ (T!tRRD)' = T!tRRD /\ (T!tRP)' = T!tRP
  BY <1>1 DEF First, T!tRFC, T!tRRD, T!tRP
<1>3. T!tRRD \in 1..2 /\ First \in 1..2 /\ T!tRFC \in Nat
  BY <1>1 DEF T!tRRD, First, T!tRFC
<1>4. PinsInv'
  BY <1>1, NextPinsInv
<1>5. p.op \in {"PRECHARGE_ALL", "REFRESH"} => rfsh.rfshing /\ rfsh.cmd = p.op
  <2>1. SUFFICES ASSUME p.op \in {"PRECHARGE_ALL", "REFRESH"}
                 PROVE  rfsh.rfshing /\ rfsh.cmd = p.op
    OBVIOUS
  <2>2. rfsh.rfshing
    <3>1. SUFFICES ASSUME ~ rfsh.rfshing PROVE FALSE
      OBVIOUS
    <3>2. CASE \A b \in Banks : ~ Busies(b)
      BY <2>1, <3>1, <3>2, <1>1, PinsStep DEF Nop
    <3>3. ASSUME NEW b \in Banks, Busies(b) PROVE FALSE
      <4>1. \/ p = [op |-> TransferOp(b, slots[b].wr), ba |-> b, a |-> slots[b].a]
            \/ p = [op |-> "ACTIVE", ba |-> b, a |-> RowOf(slots[b].a)]
            \/ p = [op |-> "PRECHARGE", ba |-> b, a |-> slots[b].a]
        BY <3>3, <1>1, PinsStep DEF Busies
      <4>2. p.op \in {TransferOp(b, slots[b].wr), "ACTIVE", "PRECHARGE"}
        BY <4>1
      <4> QED BY <2>1, <4>2 DEF TransferOp
    <3> QED BY <3>2, <3>3
  <2> QED BY <2>2, <1>1, PinsStep DEF RfshCmd
<1>6. ASSUME p.op = "REFRESH", NEW b \in Banks
      PROVE  Shut(b)' /\ Age(b)'.pre >= T!tRP
  <2>1. rfsh.rfshing /\ rfsh.cmd = "REFRESH" /\ rfsh.st = First + 1
    BY <1>1, <1>5, <1>6 DEF PauseInv
  <2>2. bank[b].st = IDLE /\ ~ bank[b].actd
    BY <1>1, <2>1, PinsNow
  <2>3. AgeInv(b) /\ Ages(b)
    BY <1>1 DEF AgeInv
  <2>4. CASE out.pins.op = "PRECHARGE_ALL"
    <3>1. Closable(b, 0) /\ Precharged(b)
      BY <2>2, <2>3, <2>4 DEF AgeInv, MayClose, Closing, Precharged
    <3>2. ~ fast
      BY <1>1, <2>1, <2>4 DEF PauseInv, First
    <3> QED BY <1>1, <2>3, <3>1, <3>2, PrechargeShuts
  <2>5. CASE out.pins.op # "PRECHARGE_ALL"
    <3>1. Shut(b)
      BY <2>1, <2>2, <2>3, <2>5 DEF AgeInv, MayClose, Closing
    <3>2. ~ OnPins(b, {"ACTIVE", "READA", "WRITEA"})
      <4>1. IDLE # ACT /\ IDLE # READ
        BY <1>1, Units
      <4> QED BY <1>1, <2>2, <4>1, PinsNow DEF OnPins
    <3> QED BY <1>1, <2>3, <3>1, <3>2, ShutGrows
  <2> QED BY <2>4, <2>5
<1>7. /\ timing.rrd \in Nat /\ timing.rrd >= 1
      /\ timing'.rrd = IF out.pins.op = "ACTIVE" THEN 1 ELSE T!Grow(timing.rrd, T!tRRD)
  BY <1>1 DEF PauseInv, TimingNext, T!TimingStep
<1>8. /\ timing'.rrd \in Nat /\ timing'.rrd >= 1
      /\ out.pins.op # "ACTIVE" => timing'.rrd >= T!tRRD
  <2>1. LET g == T!Grow(timing.rrd, T!tRRD)
        IN  g \in Nat /\ g >= timing.rrd /\ (g >= timing.rrd + 1 \/ g >= T!tRRD)
    <3>1. timing.rrd \in Nat /\ T!tRRD \in Nat
      BY <1>3, <1>7
    <3> QED BY <3>1, Grows
  <2> QED BY <2>1, <1>3, <1>7
<1>9. ASSUME p.op = "ACTIVE"
      PROVE  timing'.ref >= T!tRFC /\ timing'.rrd >= T!tRRD /\ bank'[p.ba].post_act
  <2>1. PICK b \in Banks : p.ba = b
    BY <1>4, <1>9 DEF PinsInv
  <2>2. OnPins(b, {"ACTIVE"})'
    BY <1>9, <2>1 DEF OnPins
  <2>3. Opens(b)
    BY <1>1, <2>2, PinsCome
  <2>4. ~ (\E c \in Banks : bank[c].post_act) /\ ~ rfsh.rfshing
    BY <1>1, <2>3, Forms, Alone DEF Busies
  <2>5. out.pins.op # "ACTIVE"
    <3>1. out.pins.op = "ACTIVE" => out.pins.ba \in Banks
      BY <1>1 DEF IInv, PinsInv
    <3> QED BY <1>1, <2>4, <3>1 DEF PauseInv
  <2>6. bank'[b].post_act
    BY <1>1, <2>3, Registers DEF Clock
  <2> QED BY <1>1, <1>8, <2>1, <2>4, <2>5, <2>6, RefreshClock
<1>10. /\ timing'.ref \in Nat
       /\ rfsh'.rfshing =>
            /\ rfsh'.st >= 1
            /\ rfsh'.cmd = "PRECHARGE_ALL" => rfsh'.st = 1
            /\ rfsh'.cmd = "REFRESH" => rfsh'.st = First + 1
       /\ rfsh.rfshing /\ rfsh.cmd = "PRECHARGE_ALL" => rfsh'.st = 2
       /\ rfsh.rfshing /\ rfsh.cmd = "REFRESH" => rfsh'.st = First + 2
       /\ timing'.ref >= IF ~ rfsh'.rfshing \/ rfsh'.st <= First THEN T!tRFC - 1
                         ELSE IF rfsh'.st <= First + 2 THEN T!tRFC ELSE rfsh'.st - First - 2
  BY <1>1, RefreshClock
<1>11. p.op = "PRECHARGE_ALL" => rfsh'.st = 2
  BY <1>5, <1>10
<1>12. p.op = "REFRESH" => rfsh'.st = First + 2 /\ \A b \in Banks : Shut(b)' /\ Age(b)'.pre >= T!tRP
  BY <1>5, <1>6, <1>10
<1> QED BY <1>2, <1>8, <1>9, <1>10, <1>11, <1>12 DEF PauseInv

-----------------------------------------------------------------------------
(* The invariant, and the rules of the chip that follow from it.           *)
LEMMA TimesInit ==
  ASSUME Init
  PROVE  TimesInv
<1>1. IInv
  BY InvInit
<1>2. fast \in BOOLEAN /\ Banks # {}
  BY <1>1, RefreshAssumption, Sdram64Assumption DEF IInv, RefreshInv
<1>3. /\ rfsh.st = 0 /\ ~ rfsh.rfshing /\ out.pins = Nop
      /\ sim.row = [b \in Banks |-> S!Nothing]
      /\ bank = [b \in Banks |-> BankReset]
      /\ timing = [bank |-> [b \in Banks |-> T!Rested], ref |-> T!tRFC, prev |-> T!Nothing,
                   rrd |-> T!tRRD]
  BY DEF Init, RfshInit, S!SimInit, T!TimingInit
<1>4. out.pins.op = "NOP"
  BY <1>3 DEF Nop
<1>5. PauseInv
  <2>1. T!tRFC \in Nat /\ T!tRRD \in Nat /\ T!tRRD >= 1 /\ First >= 0
    BY <1>2 DEF T!tRFC, T!tRRD, First
  <2>2. timing.ref = T!tRFC /\ timing.rrd = T!tRRD
    BY <1>3
  <2> QED BY <1>3, <1>4, <2>1, <2>2 DEF PauseInv
<1>6. ASSUME NEW b \in Banks PROVE AgeInv(b)
  <2>1. /\ IDLE = 0 /\ PRE_ACT >= 1 /\ ACT >= 2 /\ READ >= 3 /\ READ \in Nat /\ ACT \in Nat
        /\ T!tRC \in Nat /\ T!tRP \in Nat /\ T!tWR \in Nat /\ T!tWR >= 1
    BY <1>2, Units
  <2>2. bank[b].st = 0 /\ ~ bank[b].actd
    BY <1>3 DEF BankReset, IDLE
  <2>3. /\ Age(b).act = T!tRC /\ Age(b).pre = T!tRP /\ Age(b).wr = T!tWR
        /\ Age(b).row = S!Nothing /\ Age(b).auto = S!Nothing /\ sim.row[b] = S!Nothing
    <3>1. Age(b) = T!Rested
      BY <1>3 DEF Age
    <3> QED BY <1>3, <3>1 DEF T!Rested, T!Nothing, S!Nothing
  <2>4. ~ OnPins(b, {"ACTIVE"}) /\ ~ OnPins(b, {"PRECHARGE"}) /\ ~ Closing
    BY <1>3, <1>4 DEF OnPins, Closing
  <2>5. Shut(b)
    BY <2>1, <2>3 DEF Shut, Old
  <2>6. Ages(b)
    BY <2>1, <2>3 DEF Ages
  <2>7. OpenRow(b) /\ OpenFor(b) /\ MayClose(b) /\ ClosesItself(b)
    BY <2>1, <2>2, <2>3, <2>4, <2>5
    DEF OpenRow, OpenFor, MayClose, ClosesItself, After, Within
  <2> QED BY <2>6, <2>7 DEF AgeInv
<1> QED BY <1>5, <1>6 DEF TimesInv

LEMMA TimesStutter ==
  ASSUME TimesInv, UNCHANGED vars
  PROVE  TimesInv'
<1>1. /\ auto' = auto /\ bank' = bank /\ out' = out /\ rfsh' = rfsh /\ fast' = fast
      /\ sim' = sim /\ timing' = timing
  BY DEF vars
<1>2. /\ IDLE' = IDLE /\ PRE_ACT' = PRE_ACT /\ ACT' = ACT /\ READ' = READ /\ First' = First
      /\ (S!Nothing)' = S!Nothing /\ (S!None)' = S!None
      /\ (T!tRC)' = T!tRC /\ (T!tRP)' = T!tRP /\ (T!tWR)' = T!tWR /\ (T!tRAS)' = T!tRAS
      /\ (T!tRCD)' = T!tRCD /\ (T!tRFC)' = T!tRFC /\ (T!tRRD)' = T!tRRD
  BY <1>1 DEF IDLE, PRE_ACT, ACT, READ, PRE_RD, First, S!Nothing, S!None, T!tRC, T!tRP, T!tWR,
              T!tRAS, T!tRCD, T!tRFC, T!tRRD
<1>3. \A b \in Banks : Age(b)' = Age(b) /\ Old(b)' = Old(b) /\ Shut(b)' = Shut(b)
  BY <1>1, <1>2 DEF Age, Old, Shut
<1>4. PauseInv'
  BY <1>1, <1>2, <1>3 DEF TimesInv, PauseInv
<1>5. ASSUME NEW b \in Banks PROVE AgeInv(b)'
  <2>1. /\ Age(b)' = Age(b) /\ Shut(b)' = Shut(b) /\ Closable(b, 0)' = Closable(b, 0)
        /\ Closable(b, 1)' = Closable(b, 1) /\ Closing' = Closing
    BY <1>1, <1>2, <1>3 DEF Closable, Closing
  <2>2. Ages(b)' /\ OpenFor(b)'
    BY <1>1, <1>2, <2>1 DEF TimesInv, AgeInv, Ages, OpenFor, Within, OnPins
  <2>3. OpenRow(b)' /\ MayClose(b)'
    BY <1>1, <1>2, <2>1 DEF TimesInv, AgeInv, OpenRow, MayClose, Within, OnPins, RowReg
  <2>4. ClosesItself(b)'
    BY <1>1, <1>2, <2>1 DEF TimesInv, AgeInv, ClosesItself, After, SelfClosing
  <2> QED BY <2>2, <2>3, <2>4 DEF AgeInv
<1> QED BY <1>4, <1>5 DEF TimesInv

LEMMA TimesHold ==
  ASSUME Unhurried
  PROVE  Spec => [](IInv /\ TimesInv)
<1>1. Init => IInv /\ TimesInv
  BY InvInit, TimesInit
<1>2. IInv /\ TimesInv /\ [Next]_vars => (IInv /\ TimesInv)'
  <2>1. SUFFICES ASSUME IInv, TimesInv, [Next]_vars PROVE (IInv /\ TimesInv)'
    OBVIOUS
  <2>2. IInv'
    BY <2>1, InvNext
  <2>3. CASE Next
    <3>1. RfshNext
      BY <2>3 DEF Next, RfshNext
    <3>2. fast' = fast
      BY <3>1 DEF RfshNext, RfshStep
    <3>3. TimesClock
      BY <2>3, <3>2 DEF Next, TimesClock, TimingNext, Clock, SlotsNext, SimNext
    <3>4. PauseInv'
      BY <2>1, <3>1, <3>3, NextPause
    <3>5. ASSUME NEW b \in Banks PROVE AgeInv(b)'
      <4>1. PauseInv /\ AgeInv(b)
        BY <2>1 DEF TimesInv
      <4>2. Ages(b)' /\ OpenRow(b)' /\ OpenFor(b)'
        BY <2>1, <3>3, <4>1, NextAges, NextOpenRow, NextOpenFor
      <4>3. MayClose(b)' /\ ClosesItself(b)'
        BY <2>1, <3>1, <3>3, <4>1, NextMayClose, NextClosesItself
      <4> QED BY <4>2, <4>3 DEF AgeInv
    <3> QED BY <2>2, <3>4, <3>5 DEF TimesInv
  <2>4. CASE UNCHANGED vars
    BY <2>1, <2>2, <2>4, TimesStutter
  <2> QED BY <2>1, <2>3, <2>4
<1> QED BY <1>1, <1>2, PTL DEF Spec

LEMMA TimesRules == IInv /\ TimesInv => ChipRules
<1> SUFFICES ASSUME IInv, TimesInv PROVE T!Legal(out.pins) /\ ~ S!Throws(out.pins)
  BY DEF ChipRules
<1> DEFINE p == out.pins
<1>1. /\ PinsInv /\ RefreshInv /\ PauseInv /\ fast \in BOOLEAN /\ S!Nothing = T!Nothing
      /\ \A b \in Banks : AgeInv(b) /\ RowInv(b)
  BY RefreshAssumption DEF IInv, RefreshInv, TimesInv, S!Nothing, T!Nothing
<1>2. /\ p.op \in {"NOP", "PRECHARGE", "PRECHARGE_ALL", "REFRESH",
                   "ACTIVE", "READ", "READA", "WRITE", "WRITEA"}
      /\ p.op \in {"ACTIVE", "READ", "READA", "WRITE", "WRITEA", "PRECHARGE"} => p.ba \in Banks
  BY <1>1 DEF PinsInv
<1>3. \A b \in Banks : Age(b) = timing.bank[b]
  BY DEF Age
<1>4. /\ T!tRC \in Nat /\ T!tRP \in Nat /\ T!tRAS \in Nat /\ T!tWR \in Nat /\ T!tRCD \in Nat
      /\ T!tRFC \in Nat
  BY <1>1 DEF T!tRC, T!tRP, T!tRAS, T!tWR, T!tRCD, T!tRFC
<1>5. ASSUME p.op = "ACTIVE"
      PROVE  T!MayActivate(p) /\ sim.row[p.ba] = S!Nothing
  <2>1. PICK b \in Banks : p.ba = b
    BY <1>2, <1>5
  <2>2. OnPins(b, {"ACTIVE"}) /\ Within(b, ACT, READ)
    <3>1. OnPins(b, {"ACTIVE"})
      BY <1>5, <2>1 DEF OnPins
    <3>2. bank[b].st = ACT /\ ACT \in ACT .. READ
      BY <1>1, <3>1, Units, PinsNow
    <3> QED BY <3>1, <3>2 DEF Within
  <2>3. Shut(b) /\ Age(b).act >= T!tRC /\ Age(b).pre >= T!tRP
    BY <1>1, <2>2 DEF AgeInv, OpenRow
  <2>4. timing.ref >= T!tRFC /\ timing.rrd >= T!tRRD
    BY <1>1, <1>5 DEF PauseInv
  <2> QED BY <1>1, <1>3, <2>1, <2>3, <2>4 DEF T!MayActivate, Shut
<1>6. ASSUME p.op \in {"READ", "READA", "WRITE", "WRITEA"}
      PROVE  T!MayTransfer(p) /\ sim.row[p.ba] # S!Nothing
  <2>1. PICK b \in Banks : p.ba = b
    BY <1>2, <1>6
  <2>2. bank[b].st = READ /\ ~ OnPins(b, {"ACTIVE"})
    BY <1>1, <1>6, <2>1 DEF PinsInv, OnPins
  <2>3. Within(b, ACT, READ) /\ ~ After(b) /\ READ \in Nat
    BY <1>1, <2>2, Units DEF Within, After
  <2>4. p.a = slots[b].a
    <3>1. p = [op |-> TransferOp(b, slots[b].wr), ba |-> b, a |-> slots[b].a]
      BY <1>1, <2>2 DEF PinsInv
    <3> QED BY <3>1
  <2>5. RowReg(b) = p.a \div Page /\ sim.row[b] = <<RowReg(b)>>
    BY <1>1, <2>2, <2>3, <2>4 DEF RowInv, RowOf
  <2>6. Age(b).row = <<RowReg(b)>>
    BY <1>1, <2>2, <2>3 DEF AgeInv, OpenRow
  <2>7. Age(b).auto = S!Nothing
    BY <1>1, <2>3 DEF AgeInv, ClosesItself
  <2>8. Age(b).act >= T!tRCD
    <3>1. Age(b).act >= T!tRCD + (READ - READ) \/ Age(b).act >= T!tRC
      BY <1>1, <2>2, <2>3 DEF AgeInv, OpenFor
    <3>2. T!tRC >= T!tRCD /\ Age(b).act \in Nat
      BY <1>1 DEF T!tRC, T!tRCD, AgeInv, Ages
    <3> QED BY <1>4, <2>3, <3>1, <3>2
  <2>9. sim.row[b] # S!Nothing
    BY <2>5 DEF S!Nothing
  <2> QED BY <1>1, <1>3, <2>1, <2>5, <2>6, <2>7, <2>8, <2>9 DEF T!MayTransfer
<1>7. ASSUME p.op \in {"PRECHARGE", "PRECHARGE_ALL"}
      PROVE  T!MayPrecharge(p)
  <2>1. SUFFICES ASSUME NEW b \in Banks, Precharged(b), Age(b).row # S!Nothing
                 PROVE  Age(b).act >= T!tRAS /\ Age(b).wr >= T!tWR
    BY <1>1, <1>3 DEF T!MayPrecharge, T!Precharges, Precharged, OnPins
  <2>2. Closable(b, 0)
    <3>1. CASE OnPins(b, {"PRECHARGE"})
      BY <1>1, <3>1 DEF AgeInv, MayClose
    <3>2. CASE p.op = "PRECHARGE_ALL"
      BY <1>1, <3>2, PinsNow DEF AgeInv, MayClose, Closing
    <3> QED BY <2>1, <3>1, <3>2 DEF Precharged
  <2>3. Age(b).act \in Nat /\ Age(b).wr \in Nat
    BY <1>1 DEF AgeInv, Ages
  <2> QED BY <1>4, <2>1, <2>2, <2>3 DEF Closable
<1>8. ASSUME p.op = "REFRESH"
      PROVE  T!MayRefresh /\ ~ S!AnyActive /\ sim.burst = S!None
  <2>1. \A b \in Banks : Shut(b) /\ Age(b).pre >= T!tRP
    BY <1>1, <1>8 DEF PauseInv
  <2>2. rfsh.rfshing /\ rfsh.st = First + 2 /\ First \in Nat
    BY <1>1, <1>8 DEF PauseInv, RefreshInv, First
  <2>3. timing.ref >= T!tRFC
    BY <1>1, <2>2 DEF PauseInv
  <2>4. sim.burst = S!None
    <3>1. SUFFICES ASSUME sim.burst # S!None PROVE FALSE
      OBVIOUS
    <3>2. PICK b \in Banks : bank[b].st \in READ + 1 .. BUSY
      BY <3>1, BurstFacts
    <3>3. bank[b].st = IDLE /\ IDLE = 0 /\ READ \in Nat
      BY <1>1, <2>2, PinsNow, Units
    <3> QED BY <3>2, <3>3
  <2> QED BY <1>1, <1>3, <2>1, <2>3, <2>4 DEF T!MayRefresh, S!AnyActive, Shut
<1>9. T!Legal(p)
  BY <1>5, <1>6, <1>7, <1>8 DEF T!Legal, T!Reads, T!Writes
<1>10. ~ S!Throws(p)
  BY <1>2, <1>5, <1>6, <1>8 DEF S!Throws, S!Reads, S!Writes
<1> QED BY <1>9, <1>10

(* Every command on the pins finds the rows of its bank as the chip wants  *)
(* them, and comes no earlier than the chip's times allow, at both clocks: *)
(* the one-hot steps of jtframe_sdram64_bank.v and jtframe_sdram64_rfsh.v, *)
(* which count the clocks, never cross.                                    *)
THEOREM KeepsTheChipsRules ==
  ASSUME Unhurried
  PROVE  Spec => []ChipRules
BY TimesHold, TimesRules, PTL

=============================================================================
