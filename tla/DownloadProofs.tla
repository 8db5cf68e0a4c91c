--------------------------- MODULE DownloadProofs ---------------------------
(***************************************************************************)
(* The registers of the download hold exactly the bytes that are under     *)
(* way, for every host and every controller that respect them.  Then the   *)
(* whole download, of a byte every 16 clocks or more: the host and the     *)
(* controller do respect them, the refreshes owed are made, the chip's     *)
(* rules are kept and each byte is in its place when the game starts.      *)
(***************************************************************************)
EXTENDS DownloadInvariant, TLAPS

(* What the bytes and the counters are, and that a byte for the SDRAM that *)
(* is about to be taken is the next one.                                   *)
Known ==
  /\ DwnType /\ came \in Nat /\ gone \in Nat
  /\ ForSdramNow => dwn.seen.byte = came

QInv == Known /\ Exact

(* The registers start empty, and so does what they owe. *)
LEMMA InitExact == QInit => QInv
BY DEF QInit, QInv, Known, DwnType, DwnInit, Exact, Lines, Kinds, Taken, ForSdramNow

(* The byte on the lines is the one to be taken next, whatever a step does *)
(* with the one seen before.                                               *)
LEMMA NextSeen ==
  ASSUME NEW line \in Lines, dwn'.seen = line, came' \in Nat,
         line.wr /\ line.rom /\ line.kind = "sdram" => line.byte = came'
  PROVE  (ForSdramNow => dwn.seen.byte = came)'
BY DEF ForSdramNow, Taken

(* A clock without a byte to take.                                         *)
LEMMA NoByteExact ==
  ASSUME DwnType, came \in Nat, gone \in Nat, Exact,
         NEW line \in Lines, NEW ack \in BOOLEAN,
         dwn' = [NoByte(ack) EXCEPT !.seen = line], ack => dwn.we,
         came' = came, gone' = IF ack THEN gone + 1 ELSE gone
  PROVE  DwnType' /\ dwn'.seen = line /\ Exact'
<1>1. CASE ack /\ dwn.pendwe
  <2>1. dwn' = [dwn EXCEPT !.prog = dwn.pend, !.we = TRUE, !.prom = FALSE,
                           !.pendwe = FALSE, !.seen = line]
    BY <1>1 DEF NoByte, Write, DwnType
  <2>2. DwnType' /\ dwn'.seen = line /\ dwn'.we = TRUE /\ dwn'.pendwe = FALSE
        /\ dwn'.prog = dwn.pend
    BY <2>1 DEF DwnType
  <2>3. dwn.we /\ dwn.pend = gone + 1 /\ came = gone + 2 /\ gone' = gone + 1
    BY <1>1 DEF Exact
  <2> QED BY <2>2, <2>3 DEF Exact
<1>2. CASE ack /\ ~ dwn.pendwe
  <2>1. dwn' = [dwn EXCEPT !.we = FALSE, !.prom = FALSE, !.seen = line]
    BY <1>2 DEF NoByte, DwnType
  <2>2. DwnType' /\ dwn'.seen = line /\ dwn'.we = FALSE /\ dwn'.pendwe = dwn.pendwe
    BY <2>1 DEF DwnType
  <2>3. came = gone + 1 /\ gone' = gone + 1
    BY <1>2 DEF Exact
  <2> QED BY <1>2, <2>2, <2>3 DEF Exact
<1>3. CASE ~ ack /\ ~ dwn.seen.rom
  <2>1. dwn' = [dwn EXCEPT !.prom = FALSE, !.pendwe = dwn.pendwe /\ dwn.we, !.seen = line]
    BY <1>3 DEF NoByte, DwnType
  <2>2. /\ DwnType' /\ dwn'.seen = line /\ dwn'.we = dwn.we
        /\ dwn'.pendwe = (dwn.pendwe /\ dwn.we)
        /\ dwn'.prog = dwn.prog /\ dwn'.pend = dwn.pend
    BY <2>1 DEF DwnType
  <2>3. came' = came /\ gone' = gone
    BY <1>3
  <2> QED BY <2>2, <2>3 DEF Exact
<1>4. CASE ~ ack /\ dwn.seen.rom
  <2>1. dwn' = [dwn EXCEPT !.seen = line]
    BY <1>4 DEF NoByte, DwnType
  <2>2. /\ DwnType' /\ dwn'.seen = line /\ dwn'.we = dwn.we /\ dwn'.pendwe = dwn.pendwe
        /\ dwn'.prog = dwn.prog /\ dwn'.pend = dwn.pend
    BY <2>1 DEF DwnType
  <2>3. came' = came /\ gone' = gone
    BY <1>4
  <2> QED BY <2>2, <2>3 DEF Exact
<1> QED BY <1>1, <1>2, <1>3, <1>4

(* A byte for a PROM, which comes when no write is left.                   *)
LEMMA ToPromExact ==
  ASSUME DwnType, came \in Nat, gone \in Nat, Exact,
         NEW line \in Lines, NEW ack \in BOOLEAN, NEW k \in Nat,
         dwn' = [ToProm(k) EXCEPT !.seen = line],
         ack => dwn.we, dwn.we => ack /\ ~ dwn.pendwe,
         came' = came, gone' = IF ack THEN gone + 1 ELSE gone
  PROVE  DwnType' /\ dwn'.seen = line /\ Exact'
<1>1. dwn' = [dwn EXCEPT !.prog = k, !.prom = TRUE, !.we = FALSE, !.seen = line]
  BY DEF ToProm, DwnType
<1>2. DwnType' /\ dwn'.seen = line /\ dwn'.we = FALSE /\ dwn'.pendwe = dwn.pendwe
  BY <1>1 DEF DwnType
<1>3. CASE dwn.we
  <2>1. ~ dwn.pendwe /\ came = gone + 1 /\ gone' = gone + 1
    BY <1>3 DEF Exact
  <2> QED BY <1>2, <2>1 DEF Exact
<1>4. CASE ~ dwn.we
  <2>1. ~ dwn.pendwe /\ came = gone /\ gone' = gone
    BY <1>4 DEF Exact
  <2> QED BY <1>2, <2>1 DEF Exact
<1> QED BY <1>3, <1>4

(* A byte for the SDRAM: it waits, it takes the place of the one that      *)
(* waited, or it is written at once.                                       *)
LEMMA ToSdramExact ==
  ASSUME DwnType, came \in Nat, gone \in Nat, Exact,
         NEW line \in Lines, NEW ack \in BOOLEAN,
         dwn' = [ToSdram(came, ack) EXCEPT !.seen = line],
         ack => dwn.we, dwn.we /\ dwn.pendwe => ack,
         came' = came + 1, gone' = IF ack THEN gone + 1 ELSE gone
  PROVE  DwnType' /\ dwn'.seen = line /\ Exact'
<1>1. CASE dwn.we /\ ~ ack
  <2>1. dwn' = [dwn EXCEPT !.pend = came, !.pendwe = TRUE, !.prom = FALSE, !.seen = line]
    BY <1>1 DEF ToSdram, Keep, DwnType
  <2>2. /\ DwnType' /\ dwn'.seen = line /\ dwn'.we /\ dwn'.pendwe
        /\ dwn'.prog = dwn.prog /\ dwn'.pend = came
    BY <1>1, <2>1 DEF DwnType
  <2>3. ~ dwn.pendwe /\ dwn.prog = gone /\ came = gone + 1 /\ gone' = gone
    BY <1>1 DEF Exact
  <2> QED BY <2>2, <2>3 DEF Exact
<1>2. CASE dwn.we /\ ack /\ dwn.pendwe
  <2>1. dwn' = [dwn EXCEPT !.prog = dwn.pend, !.we = TRUE, !.prom = FALSE,
                           !.pend = came, !.pendwe = TRUE, !.seen = line]
    BY <1>2 DEF ToSdram, Keep, Write, DwnType
  <2>2. /\ DwnType' /\ dwn'.seen = line /\ dwn'.we = TRUE /\ dwn'.pendwe = TRUE
        /\ dwn'.prog = dwn.pend /\ dwn'.pend = came
    BY <2>1 DEF DwnType
  <2>3. dwn.pend = gone + 1 /\ came = gone + 2 /\ gone' = gone + 1
    BY <1>2 DEF Exact
  <2> QED BY <2>2, <2>3 DEF Exact
<1>3. CASE ~ dwn.we \/ (ack /\ ~ dwn.pendwe)
  <2>1. dwn' = [dwn EXCEPT !.prog = came, !.we = TRUE, !.prom = FALSE, !.seen = line]
    BY <1>3 DEF ToSdram, Write, DwnType
  <2>2. /\ DwnType' /\ dwn'.seen = line /\ dwn'.we = TRUE /\ dwn'.pendwe = dwn.pendwe
        /\ dwn'.prog = came
    BY <2>1 DEF DwnType
  <2>3. ~ dwn.pendwe /\ came = gone'
    BY <1>3 DEF Exact
  <2> QED BY <2>2, <2>3 DEF Exact
<1> QED BY <1>1, <1>2, <1>3

(* Every clock of the queue keeps what the registers hold exact. *)
LEMMA StepExact ==
  ASSUME QInv, NEW line \in Lines, NEW ack \in BOOLEAN, QStep(line, ack)
  PROVE  QInv'
<1>1. DwnType /\ came \in Nat /\ gone \in Nat /\ Exact
  BY DEF QInv, Known
<1>2. /\ dwn' = [DwnRegs(ack) EXCEPT !.seen = line]
      /\ came' = IF ForSdramNow THEN came + 1 ELSE came
      /\ gone' = IF ack THEN gone + 1 ELSE gone
      /\ ack => dwn.we
      /\ line.wr /\ line.rom /\ line.kind = "sdram" => line.byte = came'
  BY DEF QStep, DwnStep, Respects
<1>3. DwnType' /\ dwn'.seen = line /\ Exact'
  <2>1. CASE ~ Taken
    <3>1. DwnRegs(ack) = NoByte(ack) /\ ~ ForSdramNow
      BY <2>1 DEF DwnRegs, ForSdramNow
    <3> QED BY <1>1, <1>2, <3>1, NoByteExact
  <2>2. CASE ForPromNow
    <3>1. DwnRegs(ack) = ToProm(dwn.seen.byte) /\ ~ ForSdramNow
      BY <2>2 DEF DwnRegs, ForSdramNow, ForPromNow
    <3>2. dwn.we => ack /\ ~ dwn.pendwe
      BY <2>2 DEF QStep, Respects
    <3>3. dwn.seen.byte \in Nat
      BY <1>1 DEF DwnType, Lines
    <3> QED BY <1>1, <1>2, <3>1, <3>2, <3>3, ToPromExact
  <2>3. CASE ForSdramNow
    <3>1. DwnRegs(ack) = ToSdram(came, ack)
      BY <2>3 DEF DwnRegs, ForSdramNow, QInv, Known
    <3>2. dwn.we /\ dwn.pendwe => ack
      BY <2>3 DEF QStep, Respects
    <3>3. came' = came + 1
      BY <1>2, <2>3
    <3> QED BY <1>1, <1>2, <3>1, <3>2, <3>3, ToSdramExact
  <2>4. Taken => ForPromNow \/ ForSdramNow
    BY <1>1 DEF Taken, ForPromNow, ForSdramNow, DwnType, Lines, Kinds
  <2> QED BY <2>1, <2>2, <2>3, <2>4
<1>4. came' \in Nat /\ gone' \in Nat
  BY <1>1, <1>2
<1>5. (ForSdramNow => dwn.seen.byte = came)'
  BY <1>2, <1>3, <1>4, NextSeen
<1> QED BY <1>3, <1>4, <1>5 DEF QInv, Known

(* No byte of a ROM file that jtframe_dwnld takes for the SDRAM is lost or *)
(* written twice or out of order, whatever the time each write takes.      *)
THEOREM QueueExact == QSpec => []Exact
<1>1. QInv /\ [QNext]_qvars => QInv'
  <2> SUFFICES ASSUME QInv, [QNext]_qvars PROVE QInv'
    OBVIOUS
  <2>1. CASE QNext
    BY <2>1, StepExact DEF QNext
  <2>2. CASE UNCHANGED qvars
    BY <2>2 DEF qvars, QInv, Known, DwnType, ForSdramNow, Taken, Exact
  <2> QED BY <2>1, <2>2
<1>2. QInv => Exact
  BY DEF QInv
<1> QED BY InitExact, <1>1, <1>2, PTL DEF QSpec

-----------------------------------------------------------------------------
(* The registers in the whole download.                                    *)

(* The pace of the host is chosen once. *)
LEMMA PaceKept == Spec => [][UNCHANGED pace]_vars
<1>1. [Next]_vars => [UNCHANGED pace]_vars
  BY DEF Next
<1> QED BY <1>1, PTL DEF Spec

(* A download whose host and controller respect jtframe_dwnld has no byte  *)
(* lost, written twice or out of order between the two.                    *)
THEOREM DownloadInOrder == Spec /\ IsQueue => []InOrder
<1> DEFINE Inv   == FullPace => QInv
           Typed == FullPace => HostLine \in Lines /\ out.ack \in BOOLEAN
           Step  == FullPace => QStep(HostLine, out.ack)
<1>1. (FullPace => QInit) => Inv
  BY InitExact
<1>2. Inv /\ Typed /\ [Step]_qvars /\ [UNCHANGED pace]_vars => Inv'
  <2> SUFFICES ASSUME Inv, Typed, [Step]_qvars, [UNCHANGED pace]_vars, FullPace'
               PROVE  QInv'
    OBVIOUS
  <2>1. pace' = pace
    BY DEF vars
  <2>2. QInv /\ HostLine \in Lines /\ out.ack \in BOOLEAN
    BY <2>1 DEF FullPace
  <2>3. CASE QStep(HostLine, out.ack)
    BY <2>2, <2>3, StepExact
  <2>4. CASE UNCHANGED qvars
    BY <2>2, <2>4 DEF qvars, QInv, Known, DwnType, ForSdramNow, Taken, Exact
  <2> QED BY <2>1, <2>3, <2>4 DEF FullPace
<1>3. Inv => InOrder
  BY DEF QInv, InOrder
<1> QED BY <1>1, <1>2, <1>3, PaceKept, PTL DEF IsQueue

-----------------------------------------------------------------------------
(* The lengths of a file, as numbers. *)
LEMMA FileFacts ==
  ASSUME file \in Files
  PROVE  /\ file.len \in Nat /\ file.header \in Nat /\ file.ba1 \in Nat /\ file.prom \in Nat
         /\ file.nvram \in Nat /\ file.first \in Nat
         /\ file.header <= file.ba1 /\ file.ba1 <= file.prom /\ file.prom <= file.nvram
         /\ file.nvram <= file.len /\ file.header <= file.first
         /\ FirstLen \in Nat /\ Length \in Nat /\ RomLen \in Nat
BY DownloadAssumption DEF FirstLen, Length, RomLen

(* Where the bytes for the SDRAM end. *)
LEMMA EndFacts ==
  ASSUME file \in Files, full \in BOOLEAN
  PROVE  /\ SdramEnd \in Nat /\ file.header <= SdramEnd /\ SdramEnd <= file.prom
         /\ SdramEnd <= Length
         /\ Ordinary => SdramEnd # file.header + 1
         /\ Jumps => SdramEnd = FirstLen /\ FirstLen < file.prom /\ file.prom < Length
         /\ ~ Jumps => SdramEnd = file.prom \/ SdramEnd = Length
BY FileFacts DEF SdramEnd, FirstLen, RomLen, Length, HasTail, Jumps, Ordinary

(* A byte for the SDRAM is the next one, the others leave the next alone.  *)
LEMMA FromNext ==
  ASSUME file \in Files, full \in BOOLEAN, NEW a \in Nat, a < Length,
         Jumps => a < FirstLen \/ a >= file.prom
  PROVE  /\ From(a) \in Nat /\ From(a + 1) \in Nat
         /\ KindOf(a) = "sdram" => From(a) = a /\ From(a + 1) = a + 1
         /\ KindOf(a) # "sdram" => From(a + 1) = From(a)
         /\ KindOf(a) = "prom" => From(a) = SdramEnd
BY FileFacts, EndFacts DEF From, KindOf

(* A quick download passes over bytes that are not sent. *)
LEMMA FromJump ==
  ASSUME file \in Files, full \in BOOLEAN, Jumps
  PROVE  From(file.prom) = From(FirstLen)
BY FileFacts, EndFacts DEF From

(* Counting up to a bound. *)
LEMMA Turns ==
  ASSUME NEW n \in {6, 8, 10, 12, 16, 32}, NEW k \in 0 .. n - 1
  PROVE  (k + 1) % n = IF k = n - 1 THEN 0 ELSE k + 1
OBVIOUS

(* A number under its modulus. *)
LEMMA Small ==
  ASSUME NEW n \in Nat, NEW m \in Nat, n < m
  PROVE  n % m = n
OBVIOUS

-----------------------------------------------------------------------------
(* The host, one clock.                                                    *)

(* The host with its write line down, as every clock first leaves it.     *)
Low == [host EXCEPT !.wr = FALSE]

(* The host when its download is over. *)
LEMMA HostOver ==
  ASSUME HostInv, Next, host.done
  PROVE  /\ host' \in HostRegs /\ host'.addr = host.addr /\ host'.tick = host.tick
         /\ ~ host'.rom /\ ~ host'.ram /\ ~ host'.wr /\ host'.done
<1>1. Update(host) = [host EXCEPT !.wr = FALSE]
  BY DEF HostInv, Update
<1>2. host' = [host EXCEPT !.wr = FALSE, !.dumps = Finishes /\ full,
                           !.release = (@ \/ Finishes) /\ ~ Released]
  BY <1>1 DEF Next, HostStep, HostInv, HostRegs
<1>3. host \in HostRegs /\ full \in BOOLEAN /\ ~ host.rom /\ ~ host.ram
  BY DEF HostInv
<1> QED BY <1>2, <1>3 DEF HostRegs

(* The registers a step of a byte leaves, and the tick counted on. *)
LEMMA HostCounts ==
  ASSUME HostInv, Next, ~ host.done,
         NEW h \in HostRegs, Bytes(Low) = h, h.tick = host.tick
  PROVE  /\ host' \in HostRegs
         /\ host'.addr = h.addr /\ (host'.rom <=> h.rom) /\ (host'.ram <=> h.ram)
         /\ (host'.wr <=> h.wr) /\ (host'.done <=> h.done)
         /\ host'.tick = IF host.tick = pace - 1 THEN 0 ELSE host.tick + 1
<1>1. host \in HostRegs /\ full \in BOOLEAN /\ (host.rom \/ host.ram)
  BY DEF HostInv
<1> DEFINE t == (h.tick + 1) % pace
           u == [h EXCEPT !.tick = t]
<1>2. Update(host) = u
  BY <1>1 DEF Update, Low
<1>3. t = IF host.tick = pace - 1 THEN 0 ELSE host.tick + 1
  <2>1. pace \in {6, 8, 10, 12, 16, 32} /\ h.tick \in 0 .. pace - 1
    BY DEF HostInv, HostRegs
  <2> QED BY <2>1, Turns
<1>4. t \in Nat
  BY <1>1, <1>3 DEF HostInv, HostRegs
<1> HIDE DEF t
<1>5. /\ u \in HostRegs /\ u.addr = h.addr /\ (u.rom <=> h.rom) /\ (u.ram <=> h.ram)
      /\ (u.wr <=> h.wr) /\ (u.done <=> h.done) /\ u.tick = t
  BY <1>4 DEF HostRegs
<1> HIDE DEF u
<1>6. PICK a \in BOOLEAN, b \in BOOLEAN : host' = [u EXCEPT !.dumps = a, !.release = b]
  BY <1>2 DEF Next, HostStep
<1> QED BY <1>3, <1>5, <1>6 DEF HostRegs

(* The first step of a byte: its address. *)
LEMMA HostMoves ==
  ASSUME HostInv, Next, ~ host.done, host.tick = 0
  PROVE  LET next == IF Jumps /\ host.addr + 1 = FirstLen THEN file.prom ELSE host.addr + 1
             nv   == file.nvram < file.len /\ next >= file.nvram
         IN /\ host' \in HostRegs /\ host'.addr = next /\ host'.tick = 1
            /\ (host'.rom <=> host.rom /\ ~ nv) /\ (host'.ram <=> host.ram \/ nv)
            /\ ~ host'.wr /\ ~ host'.done
<1> DEFINE next == IF Jumps /\ host.addr + 1 = FirstLen THEN file.prom ELSE host.addr + 1
           nv   == file.nvram < file.len /\ next >= file.nvram
           h    == [host EXCEPT !.wr = FALSE, !.addr = next, !.ram = @ \/ nv, !.rom = @ /\ ~ nv]
<1>1. host \in HostRegs /\ file \in Files /\ pace \in {16, 32}
  BY DEF HostInv
<1>2. Bytes(Low) = h
  BY <1>1 DEF Bytes, HostRegs, Low
<1>3. next \in Int /\ nv \in BOOLEAN
  BY <1>1, FileFacts DEF HostRegs
<1> HIDE DEF next, nv
<1>4. /\ h \in HostRegs /\ h.tick = 0 /\ h.addr = next /\ (h.rom <=> host.rom /\ ~ nv)
      /\ (h.ram <=> host.ram \/ nv) /\ ~ h.wr /\ ~ h.done
  BY <1>1, <1>3 DEF HostRegs
<1> HIDE DEF h
<1>5. /\ host' \in HostRegs /\ host'.addr = next /\ host'.tick = 1
      /\ (host'.rom <=> host.rom /\ ~ nv) /\ (host'.ram <=> host.ram \/ nv)
      /\ ~ host'.wr /\ ~ host'.done
  BY <1>1, <1>2, <1>4, HostCounts
<1> QED BY <1>5 DEF next, nv

(* The second step: wr rises, or the download ends. *)
LEMMA HostWrites ==
  ASSUME HostInv, Next, ~ host.done, host.tick = 1
  PROVE  /\ host' \in HostRegs /\ host'.addr = host.addr /\ host'.tick = 2
         /\ (host'.wr <=> host.addr < Length) /\ (host'.done <=> host.addr >= Length)
         /\ (host'.rom <=> host.rom /\ host.addr < Length)
         /\ (host'.ram <=> host.ram /\ host.addr < Length)
<1>1. host \in HostRegs /\ file \in Files /\ pace \in {16, 32} /\ Length \in Nat
  BY FileFacts DEF HostInv
<1>2. CASE host.addr < Length
  <2> DEFINE h == [host EXCEPT !.wr = TRUE]
  <2>a. Low.tick = 1 /\ Low.tick # 0 /\ Low.addr < Length /\ ~ (Low.addr >= Length)
    BY <1>1, <1>2 DEF HostRegs, Low
  <2>b. Bytes(Low) = [Low EXCEPT !.wr = TRUE]
    BY <2>a DEF Bytes
  <2>1. Bytes(Low) = h
    BY <1>1, <2>b DEF HostRegs, Low
  <2>2. h \in HostRegs /\ h.tick = 1 /\ h.addr = host.addr /\ h.wr /\ ~ h.done
        /\ (h.rom <=> host.rom) /\ (h.ram <=> host.ram)
    BY <1>1 DEF HostRegs
  <2> HIDE DEF h
  <2> QED BY <1>1, <1>2, <2>1, <2>2, HostCounts DEF HostRegs
<1>3. CASE host.addr >= Length
  <2> DEFINE h == [host EXCEPT !.wr = FALSE, !.rom = FALSE, !.ram = FALSE, !.done = TRUE]
  <2>1. Bytes(Low) = h
    BY <1>1, <1>3 DEF Bytes, HostRegs, Low
  <2>2. h \in HostRegs /\ h.tick = 1 /\ h.addr = host.addr /\ ~ h.wr /\ h.done
        /\ ~ h.rom /\ ~ h.ram
    BY <1>1 DEF HostRegs
  <2> HIDE DEF h
  <2> QED BY <1>1, <1>3, <2>1, <2>2, HostCounts DEF HostRegs
<1> QED BY <1>1, <1>2, <1>3 DEF HostRegs

(* The other steps of a byte: the host only counts, and wr falls. *)
LEMMA HostWaits ==
  ASSUME HostInv, Next, ~ host.done, host.tick > 1
  PROVE  /\ host' \in HostRegs /\ host'.addr = host.addr /\ ~ host'.wr /\ ~ host'.done
         /\ (host'.rom <=> host.rom) /\ (host'.ram <=> host.ram)
         /\ host'.tick = IF host.tick = pace - 1 THEN 0 ELSE host.tick + 1
<1> DEFINE h == [host EXCEPT !.wr = FALSE]
<1>1. host \in HostRegs
  BY DEF HostInv
<1>2. Bytes(h) = h
  BY <1>1 DEF Bytes, HostRegs
<1>3. h \in HostRegs /\ h.tick = host.tick /\ h.addr = host.addr /\ ~ h.wr /\ ~ h.done
      /\ (h.rom <=> host.rom) /\ (h.ram <=> host.ram)
  BY <1>1 DEF HostRegs
<1>4. Bytes(Low) = h
  BY <1>2 DEF Low
<1> HIDE DEF h
<1> QED BY <1>1, <1>3, <1>4, HostCounts DEF HostRegs

-----------------------------------------------------------------------------
(* The registers of the download, one clock.                               *)

(* What becomes of the flags when no byte is taken.                        *)
LEMMA FlagsNoByte ==
  ASSUME DwnType, NEW line \in Lines, NEW ack \in BOOLEAN, dwn.pendwe => dwn.we, ack => dwn.we,
         dwn' = [NoByte(ack) EXCEPT !.seen = line]
  PROVE  /\ dwn'.seen = line
         /\ dwn'.we <=> dwn.we /\ (~ ack \/ dwn.pendwe)
         /\ dwn'.pendwe <=> dwn.pendwe /\ ~ ack
         /\ dwn'.prom => dwn.prom /\ ~ ack /\ dwn'.prog = dwn.prog
         /\ dwn.prom /\ dwn.seen.rom /\ ~ ack => dwn'.prom
<1>1. CASE ack /\ dwn.pendwe
  <2>1. dwn' = [dwn EXCEPT !.prog = dwn.pend, !.we = TRUE, !.prom = FALSE,
                           !.pendwe = FALSE, !.seen = line]
    BY <1>1 DEF NoByte, Write, DwnType
  <2> QED BY <1>1, <2>1 DEF DwnType
<1>2. CASE ack /\ ~ dwn.pendwe
  <2>1. dwn' = [dwn EXCEPT !.we = FALSE, !.prom = FALSE, !.seen = line]
    BY <1>2 DEF NoByte, DwnType
  <2> QED BY <1>2, <2>1 DEF DwnType
<1>3. CASE ~ ack /\ ~ dwn.seen.rom
  <2>1. dwn' = [dwn EXCEPT !.prom = FALSE, !.pendwe = dwn.pendwe /\ dwn.we, !.seen = line]
    BY <1>3 DEF NoByte, DwnType
  <2> QED BY <1>3, <2>1 DEF DwnType
<1>4. CASE ~ ack /\ dwn.seen.rom
  <2>1. dwn' = [dwn EXCEPT !.seen = line]
    BY <1>4 DEF NoByte, DwnType
  <2> QED BY <1>4, <2>1 DEF DwnType
<1> QED BY <1>1, <1>2, <1>3, <1>4

(* When a byte for the SDRAM is. *)
LEMMA FlagsSdram ==
  ASSUME DwnType, NEW line \in Lines, NEW ack \in BOOLEAN, NEW k \in Nat, dwn.pendwe => dwn.we,
         dwn' = [ToSdram(k, ack) EXCEPT !.seen = line]
  PROVE  /\ dwn'.seen = line /\ dwn'.we /\ ~ dwn'.prom
         /\ dwn'.pendwe <=> dwn.pendwe \/ (dwn.we /\ ~ ack)
<1>1. CASE dwn.we /\ ~ ack
  <2>1. dwn' = [dwn EXCEPT !.pend = k, !.pendwe = TRUE, !.prom = FALSE, !.seen = line]
    BY <1>1 DEF ToSdram, Keep, DwnType
  <2> QED BY <1>1, <2>1 DEF DwnType
<1>2. CASE dwn.we /\ ack /\ dwn.pendwe
  <2>1. dwn' = [dwn EXCEPT !.prog = dwn.pend, !.we = TRUE, !.prom = FALSE,
                           !.pend = k, !.pendwe = TRUE, !.seen = line]
    BY <1>2 DEF ToSdram, Keep, Write, DwnType
  <2> QED BY <1>2, <2>1 DEF DwnType
<1>3. CASE ~ dwn.we \/ (ack /\ ~ dwn.pendwe)
  <2>1. dwn' = [dwn EXCEPT !.prog = k, !.we = TRUE, !.prom = FALSE, !.seen = line]
    BY <1>3 DEF ToSdram, Write, DwnType
  <2> QED BY <1>3, <2>1 DEF DwnType
<1> QED BY <1>1, <1>2, <1>3

(* When a byte for a PROM is. *)
LEMMA FlagsProm ==
  ASSUME DwnType, NEW line \in Lines, NEW k \in Nat, dwn' = [ToProm(k) EXCEPT !.seen = line]
  PROVE  /\ dwn'.seen = line /\ ~ dwn'.we /\ dwn'.prom /\ dwn'.prog = k
         /\ dwn'.pendwe <=> dwn.pendwe
<1>1. dwn' = [dwn EXCEPT !.prog = k, !.prom = TRUE, !.we = FALSE, !.seen = line]
  BY DEF ToProm, DwnType
<1> QED BY <1>1 DEF DwnType

(* What a clock does to the requests for a write, with a byte for the SDRAM, *)
(* one for a PROM, or none. *)
LEMMA Flags ==
  ASSUME DwnType, NEW line \in Lines, NEW ack \in BOOLEAN, dwn.pendwe => dwn.we, ack => dwn.we,
         DwnStep(line, ack)
  PROVE  /\ dwn'.seen = line
         /\ ForSdramNow => /\ dwn'.we /\ ~ dwn'.prom
                           /\ dwn'.pendwe <=> dwn.pendwe \/ (dwn.we /\ ~ ack)
         /\ ForPromNow => /\ ~ dwn'.we /\ dwn'.prom /\ dwn'.prog = dwn.seen.byte
                          /\ dwn'.pendwe <=> dwn.pendwe
         /\ ~ Taken => /\ dwn'.we <=> dwn.we /\ (~ ack \/ dwn.pendwe)
                       /\ dwn'.pendwe <=> dwn.pendwe /\ ~ ack
                       /\ dwn'.prom => dwn.prom /\ ~ ack /\ dwn'.prog = dwn.prog
                       /\ dwn.prom /\ dwn.seen.rom /\ ~ ack => dwn'.prom
         /\ Taken <=> ForSdramNow \/ ForPromNow
         /\ ~ (ForSdramNow /\ ForPromNow)
<1>1. dwn' = [DwnRegs(ack) EXCEPT !.seen = line] /\ dwn.seen.byte \in Nat
  BY DEF DwnStep, DwnType, Lines
<1>2. /\ Taken <=> ForSdramNow \/ ForPromNow
      /\ ~ (ForSdramNow /\ ForPromNow)
  BY DEF Taken, ForPromNow, ForSdramNow, DwnType, Lines, Kinds
<1>3. CASE ForSdramNow
  <2>1. DwnRegs(ack) = ToSdram(dwn.seen.byte, ack)
    BY <1>3 DEF DwnRegs, ForSdramNow
  <2> QED BY <1>1, <1>2, <1>3, <2>1, FlagsSdram
<1>4. CASE ForPromNow
  <2>1. DwnRegs(ack) = ToProm(dwn.seen.byte)
    BY <1>4 DEF DwnRegs, ForPromNow
  <2> QED BY <1>1, <1>2, <1>4, <2>1, FlagsProm
<1>5. CASE ~ Taken
  <2>1. DwnRegs(ack) = NoByte(ack)
    BY <1>5 DEF DwnRegs
  <2> QED BY <1>1, <1>2, <1>5, <2>1, FlagsNoByte
<1> QED BY <1>2, <1>3, <1>4, <1>5

(* What the host puts on its lines. *)
LEMMA LineFacts ==
  ASSUME HostInv
  PROVE  /\ HostLine \in Lines /\ (HostLine.wr <=> host.wr) /\ (HostLine.rom <=> host.rom)
         /\ host.addr \in Nat => HostLine = [wr |-> host.wr, rom |-> host.rom, byte |-> host.addr,
                                             kind |-> KindOf(host.addr)]
<1>1. At(host) \in Nat /\ (host.addr \in Nat => At(host) = host.addr)
  BY DEF At, HostInv
<1>2. KindOf(At(host)) \in Kinds
  BY DEF KindOf, Kinds
<1>3. host.wr \in BOOLEAN /\ host.rom \in BOOLEAN
  BY DEF HostInv, HostRegs
<1> QED BY <1>1, <1>2, <1>3 DEF HostLine, Lines

(* The host's phase tells when a byte is seen, and which.                  *)
LEMMA SeenFacts ==
  ASSUME HostInv
  PROVE  /\ Taken => host.tick = 3 /\ ~ host.done /\ host.rom /\ host.addr \in Nat /\ host.addr < Length
                     /\ dwn.seen.byte = host.addr /\ dwn.seen.kind = KindOf(host.addr)
         /\ host.tick = 3 /\ host.rom /\ KindOf(host.addr) # "header" => Taken
         /\ host.tick = 3 => ~ host.done
<1>1. CASE dwn.seen.wr
  BY <1>1 DEF HostInv, Taken, HostRegs
<1>2. CASE ~ dwn.seen.wr
  BY <1>2 DEF HostInv, Taken, HostRegs
<1> QED BY <1>1, <1>2

(* The bytes still to take begin where the host is. *)
LEMMA CameNext ==
  ASSUME HostInv, Next
  PROVE  /\ ForSdramNow => came = host.addr
         /\ ForPromNow => came = SdramEnd
         /\ host.tick = 3 => came' = From(host.addr + 1)
         /\ host.tick # 3 => came' = came
<1>1. came' = IF ForSdramNow THEN came + 1 ELSE came
  BY DEF Next, DwnldRegs
<1>2. ForSdramNow \/ ForPromNow => Taken
  BY DEF ForSdramNow, ForPromNow
<1>3. CASE host.tick # 3
  BY <1>1, <1>2, <1>3, SeenFacts
<1>4. CASE host.tick = 3
  <2>1. /\ host.addr \in Nat /\ host.addr < Length /\ file \in Files /\ full \in BOOLEAN
        /\ Jumps => host.addr < FirstLen \/ host.addr >= file.prom
        /\ came = From(host.addr)
    BY <1>4, SeenFacts DEF HostInv, HostRegs
  <2>2. ForSdramNow => KindOf(host.addr) = "sdram"
    BY <1>2, SeenFacts DEF ForSdramNow
  <2>3. ForPromNow => KindOf(host.addr) = "prom"
    BY <1>2, SeenFacts DEF ForPromNow
  <2>4. KindOf(host.addr) = "sdram" => ForSdramNow
    <3>1. KindOf(host.addr) = "sdram" => host.addr < file.prom
      BY <2>1, FileFacts DEF KindOf
    <3>2. KindOf(host.addr) = "sdram" => host.rom
      BY <1>4, <2>1, <3>1, FileFacts, SeenFacts DEF HostInv
    <3> QED BY <1>4, <3>2, SeenFacts DEF ForSdramNow
  <2> QED BY <1>1, <1>4, <2>1, <2>2, <2>3, <2>4, FromNext
<1> QED BY <1>3, <1>4

(* The host keeps its step. *)
LEMMA HostKept ==
  ASSUME HostInv, DwnType, dwn.pendwe => dwn.we, out.ack \in BOOLEAN, out.ack => dwn.we, Next
  PROVE  HostInv'
<1>1. /\ pace \in {16, 32} /\ file \in Files /\ full \in BOOLEAN /\ fast \in BOOLEAN
      /\ host \in HostRegs /\ host.addr \in -1 .. Length /\ host.tick < pace
      /\ pace' = pace /\ file' = file /\ full' = full /\ fast' = fast
  BY DEF HostInv, Next, RfshRegular, RfshStep
<1>2. /\ Length' = Length /\ Jumps' = Jumps /\ FirstLen' = FirstLen /\ SdramEnd' = SdramEnd
  BY <1>1 DEF Length, Jumps, FirstLen, SdramEnd, RomLen, HasTail
<1>3. dwn'.seen = HostLine
  BY LineFacts, Flags DEF Next, DwnldRegs
<1>6. /\ Length \in Nat /\ FirstLen \in Nat /\ file.prom \in Nat /\ file.nvram \in Nat
      /\ file.len \in Nat
      /\ Jumps => FirstLen < file.prom /\ file.prom < Length
  BY <1>1, FileFacts, EndFacts
<1>7. /\ dwn'.seen.wr <=> host.wr
      /\ dwn'.seen.rom <=> host.rom
      /\ host.wr => dwn'.seen = [wr |-> TRUE, rom |-> host.rom, byte |-> host.addr,
                                 kind |-> KindOf(host.addr)]
  <2>1. host.wr => host.addr \in Nat
    BY <1>1 DEF HostInv, HostRegs
  <2> QED BY <1>1, <1>3, <2>1, LineFacts DEF HostRegs
<1>8. CASE host.done
  <2>1. host.tick = 2 /\ host.addr = Length /\ ~ host.rom /\ ~ host.ram /\ ~ host.wr
        /\ came = From(host.addr)
    BY <1>8 DEF HostInv
  <2>2. /\ host' \in HostRegs /\ host'.addr = host.addr /\ host'.tick = 2
        /\ ~ host'.rom /\ ~ host'.ram /\ ~ host'.wr /\ host'.done
    BY <1>8, <2>1, HostOver
  <2>3. came' = From(host'.addr)
    BY <2>1, <2>2, CameNext
  <2> QED BY <1>1, <1>2, <1>6, <1>7, <2>1, <2>2, <2>3 DEF HostInv, From
<1>9. CASE ~ host.done /\ host.tick = 0
  <2> DEFINE next == IF Jumps /\ host.addr + 1 = FirstLen THEN file.prom ELSE host.addr + 1
             nv   == file.nvram < file.len /\ next >= file.nvram
  <2>1. /\ host.addr < Length /\ ~ host.wr /\ came = From(host.addr + 1)
        /\ host.rom <=> host.addr < file.nvram \/ file.nvram = file.len
        /\ Jumps => host.addr < FirstLen \/ host.addr >= file.prom
        /\ ~ (host.rom /\ host.ram) /\ (host.rom \/ host.ram)
    BY <1>9 DEF HostInv
  <2>2. /\ host' \in HostRegs /\ host'.addr = next /\ host'.tick = 1
        /\ (host'.rom <=> host.rom /\ ~ nv) /\ (host'.ram <=> host.ram \/ nv)
        /\ ~ host'.wr /\ ~ host'.done
    BY <1>9, HostMoves
  <2>3. /\ next \in 0 .. Length /\ next > host.addr
        /\ Jumps => next < FirstLen \/ next >= file.prom
    BY <1>1, <1>6, <2>1 DEF HostRegs
  <2>4. From(next) = From(host.addr + 1)
    BY <1>1, FromJump
  <2>5. came' = From(host'.addr)
    BY <1>9, <2>1, <2>2, <2>4, CameNext
  <2> HIDE DEF next
  <2>6. /\ host'.rom <=> host'.addr < file.nvram \/ file.nvram = file.len
        /\ ~ (host'.rom /\ host'.ram) /\ (host'.rom \/ host'.ram)
    <3>1. nv <=> file.nvram < file.len /\ next >= file.nvram
      OBVIOUS
    <3> HIDE DEF nv
    <3>2. next \in Nat /\ host.addr \in Int /\ file.nvram <= file.len
      BY <1>1, <2>3, FileFacts
    <3>3. /\ host'.rom <=> host'.addr < file.nvram \/ file.nvram = file.len
          /\ ~ (host'.rom /\ host'.ram) /\ (host'.rom \/ host'.ram)
      BY <1>6, <2>1, <2>2, <2>3, <3>1, <3>2
    <3> QED BY <3>3
  <2>7. host'.addr \in 0 .. Length /\ (Jumps => host'.addr < FirstLen \/ host'.addr >= file.prom)
    BY <2>2, <2>3
  <2>8. /\ host' \in HostRegs /\ host'.tick = 1 /\ ~ host'.wr /\ ~ host'.done
        /\ host'.rom => host.rom
    BY <2>2
  <2> QED BY <1>1, <1>2, <1>6, <1>7, <2>1, <2>5, <2>6, <2>7, <2>8 DEF HostInv, From
<1>10. CASE ~ host.done /\ host.tick = 1
  <2>1. /\ host.addr \in 0 .. Length /\ ~ host.wr /\ came = From(host.addr)
        /\ host.rom <=> host.addr < file.nvram \/ file.nvram = file.len
        /\ Jumps => host.addr < FirstLen \/ host.addr >= file.prom
        /\ ~ (host.rom /\ host.ram) /\ (host.rom \/ host.ram)
    BY <1>1, <1>10 DEF HostInv
  <2>2. /\ host' \in HostRegs /\ host'.addr = host.addr /\ host'.tick = 2
        /\ (host'.wr <=> host.addr < Length) /\ (host'.done <=> host.addr >= Length)
        /\ (host'.rom <=> host.rom /\ host.addr < Length)
        /\ (host'.ram <=> host.ram /\ host.addr < Length)
    BY <1>10, HostWrites
  <2>3. came' = From(host'.addr)
    BY <1>10, <2>1, <2>2, CameNext
  <2> QED BY <1>1, <1>2, <1>6, <1>7, <2>1, <2>2, <2>3 DEF HostInv, From, KindOf
<1>11. CASE ~ host.done /\ host.tick > 1
  <2>1. /\ host.addr \in 0 .. Length /\ host.addr < Length /\ (host.wr <=> host.tick = 2)
        /\ host.rom <=> host.addr < file.nvram \/ file.nvram = file.len
        /\ Jumps => host.addr < FirstLen \/ host.addr >= file.prom
        /\ ~ (host.rom /\ host.ram) /\ (host.rom \/ host.ram)
        /\ came = IF host.tick \in {1, 2, 3} THEN From(host.addr) ELSE From(host.addr + 1)
    BY <1>1, <1>11 DEF HostInv
  <2>2. /\ host' \in HostRegs /\ host'.addr = host.addr /\ ~ host'.wr /\ ~ host'.done
        /\ (host'.rom <=> host.rom) /\ (host'.ram <=> host.ram)
        /\ host'.tick = IF host.tick = pace - 1 THEN 0 ELSE host.tick + 1
    BY <1>11, HostWaits
  <2>3. /\ host'.tick \in Nat /\ host'.tick < pace /\ host'.tick # 1 /\ host'.tick # 2
        /\ host'.tick = 3 <=> host.tick = 2
    BY <1>1, <1>11, <2>2 DEF HostRegs
  <2>4. came' = IF host'.tick \in {1, 2, 3} THEN From(host'.addr) ELSE From(host'.addr + 1)
    <3>1. host.tick = 2 => came' = From(host.addr)
      BY <2>1, CameNext
    <3>2. host.tick # 2 => came' = From(host.addr + 1)
      BY <1>11, <2>1, CameNext DEF HostRegs
    <3> QED BY <2>2, <2>3, <3>1, <3>2
  <2>5. /\ dwn'.seen.wr <=> host'.tick = 3
        /\ dwn'.seen.wr => dwn'.seen = [wr |-> TRUE, rom |-> host'.rom, byte |-> host'.addr,
                                        kind |-> KindOf(host'.addr)]
        /\ ~ dwn'.seen.rom => ~ host'.rom
    <3>1. host'.rom = host.rom
      BY <1>1, <2>2 DEF HostRegs
    <3>2. host'.addr = host.addr
      BY <2>2
    <3>3. dwn'.seen.wr => dwn'.seen = [wr |-> TRUE, rom |-> host'.rom, byte |-> host'.addr,
                                       kind |-> KindOf(host'.addr)]
      BY <1>7, <3>1, <3>2
    <3>4. dwn'.seen.wr <=> host'.tick = 3
      BY <1>7, <2>1, <2>3
    <3>5. ~ dwn'.seen.rom => ~ host'.rom
      BY <1>7, <2>2
    <3> QED BY <3>3, <3>4, <3>5
  <2> QED BY <1>1, <1>2, <1>6, <2>1, <2>2, <2>3, <2>4, <2>5 DEF HostInv, From, KindOf
<1> QED BY <1>1, <1>8, <1>9, <1>10, <1>11 DEF HostRegs
-----------------------------------------------------------------------------
(* The times of a write, in clocks.                                        *)

(* The steps of a write and of a refresh at 96 MHz. *)
LEMMA Fast ==
  ASSUME fast
  PROVE  /\ PRE_ACT = 2 /\ ACT = 3 /\ PRE_RD = 4 /\ READ = 5 /\ Last = BurstLen + 8
         /\ Steps = 10 /\ First = 2 /\ Last \in {10, 12}
BY DownloadAssumption DEF PRE_ACT, ACT, PRE_RD, READ, DST, BUSY, STW, Geo, Last, Steps, First

(* The steps of a write and of a refresh at 48 MHz. *)
LEMMA Slow ==
  ASSUME ~ fast
  PROVE  /\ PRE_ACT = 1 /\ ACT = 2 /\ PRE_RD = 2 /\ READ = 3 /\ Last = BurstLen + 6
         /\ Steps = 6 /\ First = 1 /\ Last \in {8, 10}
BY DownloadAssumption DEF PRE_ACT, ACT, PRE_RD, READ, DST, BUSY, STW, Geo, Last, Steps, First

(* A write that is alone is not the last one, and no PROM's byte follows it. *)
LEMMA NotAlone ==
  ASSUME HostInv, DwnInv, Ordinary, Next, dwn.we, ~ dwn.pendwe, gone = file.header
  PROVE  ~ host.done /\ ~ ForPromNow
<1>1. came = file.header + 1 /\ SdramEnd # file.header + 1 /\ file \in Files /\ full \in BOOLEAN
  BY EndFacts DEF DwnInv, Exact, HostInv
<1>2. host.done => came = SdramEnd
  <2>1. host.done => came = From(Length)
    BY DEF HostInv
  <2>2. From(Length) = SdramEnd
    BY <1>1, EndFacts, FileFacts DEF From
  <2> QED BY <2>1, <2>2
<1> QED BY <1>1, <1>2, CameNext

(* When a byte comes the last write has its acknowledge, or begins it with *)
(* no other in reserve.                                                    *)
LEMMA ReadyForByte ==
  ASSUME HostInv, DwnInv, BankInv, RfshInv, TimeInv, host.tick = 3
  PROVE  /\ ~ dwn.pendwe
         /\ dwn.we => out.ack \/ (gone = file.header /\ fast /\ bank.st = READ)
<1>1. Age = pace - 1 /\ pace \in {16, 32} /\ Age \in Nat /\ Age >= 15
  BY DEF HostInv, Age
<1>2. bank.st \in Nat /\ bank.st < Last /\ rfsh.st \in Nat /\ rfsh.st < Steps
      /\ (out.ack <=> bank.st = READ + 1)
  <2>1. fast \/ ~ fast
    OBVIOUS
  <2> QED BY <2>1, Fast, Slow DEF BankInv, RfshInv, RfshRegs
<1>3. CASE fast
  <2>1. bank.st < READ => ToRead \in Nat /\ ToRead >= 1
    BY <1>2, <1>3, Fast DEF ToRead, Hold, Pos, Idle
  <2>2. bank.st > READ + 1 => ToRead \in Nat /\ ToRead >= 1
    BY <1>2, <1>3, Fast DEF ToRead
  <2>3. Bound <= 15 /\ (gone # file.header => Bound = 13)
    BY <1>3 DEF Bound
  <2> QED BY <1>1, <1>2, <1>3, <2>1, <2>2, <2>3, Fast DEF TimeInv, Bound
<1>4. CASE ~ fast
  <2>1. bank.st < READ => ToRead \in Nat /\ ToRead >= 1
    BY <1>2, <1>4, Slow DEF ToRead, Hold, Pos, Idle
  <2>2. bank.st > READ + 1 => ToRead \in Nat /\ ToRead >= 1
    BY <1>2, <1>4, Slow DEF ToRead
  <2>3. Bound <= 8
    BY <1>4 DEF Bound
  <2> QED BY <1>1, <1>2, <1>4, <2>1, <2>2, <2>3, Slow DEF TimeInv, Bound
<1> QED BY <1>3, <1>4

(* The host and the controller respect the registers.                      *)
LEMMA Respected ==
  ASSUME HostInv, DwnInv, BankInv, RfshInv, TimeInv, Ordinary, Next
  PROVE  QInv /\ HostLine \in Lines /\ out.ack \in BOOLEAN /\ QStep(HostLine, out.ack)
<1>1. out.ack \in BOOLEAN /\ (out.ack => dwn.we)
  <2>1. (READ \in Nat) /\ (READ + 1 \in 1 .. READ + 1)
    <3>1. fast \/ ~ fast
      OBVIOUS
    <3> QED BY <3>1, Fast, Slow
  <2> QED BY <2>1 DEF BankInv
<1>2. HostLine \in Lines
  BY LineFacts
<1>3. ForSdramNow => dwn.seen.byte = came
  BY CameNext, SeenFacts DEF ForSdramNow
<1>4. QInv
  BY <1>3 DEF QInv, Known, DwnInv
<1>5. ForSdramNow \/ ForPromNow => host.tick = 3
  BY SeenFacts DEF ForSdramNow, ForPromNow
<1>6. ForSdramNow /\ dwn.we /\ dwn.pendwe => out.ack
  BY <1>5, ReadyForByte
<1>7. ForPromNow /\ dwn.we => out.ack /\ ~ dwn.pendwe
  BY <1>5, ReadyForByte, NotAlone
<1>8. HostLine.wr /\ HostLine.rom /\ HostLine.kind = "sdram" => HostLine.byte = came'
  <2> SUFFICES ASSUME HostLine.wr, HostLine.rom, HostLine.kind = "sdram"
               PROVE  HostLine.byte = came'
    OBVIOUS
  <2>1. host.wr
    BY LineFacts
  <2>2. host.tick = 2 /\ host.addr \in Nat /\ host.addr < Length /\ came = From(host.addr)
        /\ file \in Files /\ full \in BOOLEAN
        /\ (Jumps => host.addr < FirstLen \/ host.addr >= file.prom)
    BY <2>1 DEF HostInv, HostRegs
  <2>3. HostLine.byte = host.addr /\ KindOf(host.addr) = "sdram"
    BY <2>2, LineFacts
  <2>4. From(host.addr) = host.addr
    BY <2>2, <2>3, FromNext
  <2> QED BY <2>2, <2>3, <2>4, CameNext
<1> QED BY <1>1, <1>2, <1>4, <1>6, <1>7, <1>8 DEF Next, DwnldRegs, QStep, Respects

(* The registers keep what they hold, and a write is not a PROM's byte.    *)
LEMMA DwnKept ==
  ASSUME HostInv, DwnInv, BankInv, RfshInv, TimeInv, Ordinary, Next
  PROVE  DwnInv'
<1>1. QInv'
  BY Respected, StepExact
<1>2. dwn.pendwe => dwn.we
  BY DEF DwnInv, Exact
<1>3. ~ (dwn.we /\ dwn.prom)'
  BY <1>2, Respected, Flags DEF DwnInv, QStep, Respects
<1>4. file' = file /\ file.header \in Nat
  BY FileFacts DEF Next, HostInv
<1>5. (file.header <= gone)'
  BY <1>4, Respected DEF DwnInv, QStep
<1> QED BY <1>1, <1>3, <1>5 DEF DwnInv, QInv, Known

-----------------------------------------------------------------------------
(* The bank, one clock.                                                    *)

(* What the programming bank sees. *)
LEMMA InIs ==
  ASSUME DwnType
  PROVE  /\ In.bg <=> Br(bank, Sees) /\ ~ rfsh.rfshing
         /\ ~ In.rd /\ (In.wr <=> dwn.we) /\ ~ In.match /\ ~ In.help /\ ~ In.setp
         /\ ~ In.dbusy /\ ~ In.dbusy64 /\ ~ In.dqm /\ ~ In.act
         /\ Sees.wr <=> dwn.we
         /\ ~ Sees.rd /\ ~ Sees.help /\ ~ Sees.dbusy /\ ~ Sees.dbusy64
BY DEF In, Sees

(* It asks for the bus, at 96 MHz a clock before it can have it.           *)
LEMMA AsksIs ==
  ASSUME DwnType, bank.br \in BOOLEAN, rfsh.rfshing \in BOOLEAN
  PROVE  /\ \A next : Asks(bank, In, next) <=>
              dwn.we /\ (bank.st = IDLE \/ next \in {IDLE, PRE_ACT, PRE_RD})
         /\ In.bg <=> (~ rfsh.rfshing /\ IF fast THEN bank.br
                          ELSE dwn.we /\ (bank.st = IDLE \/ bank.st = PRE_ACT \/ bank.st = PRE_RD))
BY InIs DEF Asks, Br, Wants

(* The order of the states of a write. *)
LEMMA Order ==
  /\ IDLE = 0 /\ PRE_ACT \in Nat /\ PRE_ACT > 0 /\ ACT = PRE_ACT + 1 /\ PRE_RD \in Nat
  /\ PRE_RD >= ACT /\ READ = PRE_RD + 1 /\ Last \in {8, 10, 12} /\ Last = STW(Geo)
  /\ READ + 2 < Last /\ Steps \in {6, 10} /\ First \in 1 .. 2
<1>1. fast \/ ~ fast
  OBVIOUS
<1> QED BY <1>1, Fast, Slow DEF IDLE, ACT, READ, Last

(* The commands of the programming bank. *)
LEMMA DoIs ==
  ASSUME DwnType, BankInv
  PROVE  /\ DoPrech(Geo, bank, In) <=> In.bg /\ Idle /\ dwn.we /\ ~ bank.prechd
         /\ DoAct(Geo, bank, In) <=>
              In.bg /\ ((Idle /\ dwn.we /\ bank.prechd) \/ bank.st = PRE_ACT)
         /\ DoRead(Geo, bank, In) <=> In.bg /\ bank.st = PRE_RD
<1>1. Idle => ~ bank.actd
  BY Order DEF BankInv, Idle
<1> QED BY <1>1, InIs DEF DoPrech, DoAct, DoRead, RowMatch, Wants, Geo, Idle

(* Where it goes: to its first command with the bus, on with it where it   *)
(* needs it, on by itself elsewhere.                                       *)
LEMMA StateMoves ==
  ASSUME DwnType, BankInv
  PROVE  /\ Idle => NextSt(Geo, bank, In) =
              IF In.bg /\ dwn.we THEN IF bank.prechd THEN ACT ELSE 1 ELSE 0
         /\ bank.st \in {PRE_ACT, PRE_RD} => NextSt(Geo, bank, In) =
              IF In.bg THEN bank.st + 1 ELSE bank.st
         /\ bank.st \notin {IDLE, PRE_ACT, PRE_RD} => NextSt(Geo, bank, In) =
              IF bank.st = Last - 1 THEN 0 ELSE bank.st + 1
<1>1. /\ bank.st \in 0 .. Last - 1 /\ {bank.prechd, bank.actd, bank.br} \subseteq BOOLEAN
      /\ Idle => ~ bank.actd
  BY Order DEF BankInv, Idle
<1>2. (bank.st + 1) % STW(Geo) = IF bank.st = Last - 1 THEN 0 ELSE bank.st + 1
  <2>1. Last \in {6, 8, 10, 12, 16, 32} /\ Last = STW(Geo)
    BY Order
  <2> QED BY <1>1, <2>1, Turns
<1>3. CASE Idle
  <2>1. NextSt(Geo, bank, In) =
          IF DoRead(Geo, bank, In) THEN READ
          ELSE IF DoAct(Geo, bank, In) THEN ACT
          ELSE IF DoPrech(Geo, bank, In) THEN 1 ELSE IDLE
    BY <1>3, Order, InIs DEF NextSt, Idle
  <2>2. ~ DoRead(Geo, bank, In)
    BY <1>3, DoIs, Order DEF Idle
  <2>3. bank.st # PRE_ACT /\ bank.st # PRE_RD /\ bank.st = IDLE
    BY <1>3, Order DEF Idle
  <2> QED BY <1>1, <1>3, <2>1, <2>2, <2>3, DoIs, Order
<1>4. CASE ~ Idle
  <2>1. NextSt(Geo, bank, In) =
          IF Rotates(bank, In) THEN (bank.st + 1) % STW(Geo) ELSE bank.st
    BY <1>4, Order, InIs DEF NextSt, Idle, Geo
  <2>2. Rotates(bank, In) <=>
          (bank.st \in {PRE_ACT, PRE_RD} /\ In.bg) \/ bank.st \notin {IDLE, PRE_ACT, PRE_RD}
    BY InIs DEF Rotates
  <2>3. bank.st \in {PRE_ACT, PRE_RD} => bank.st # Last - 1
    BY Order
  <2>4. bank.st # IDLE
    BY <1>4 DEF Idle
  <2> QED BY <1>1, <1>2, <1>4, <2>1, <2>2, <2>3, <2>4
<1> QED BY <1>3, <1>4

(* The registers of a bank that is not held in its reset. *)
LEMMA BankMoves ==
  ASSUME DwnType, BankInv, rfsh.rfshing \in BOOLEAN, Next, ProgEn
  PROVE  /\ bank'.st = NextSt(Geo, bank, In)
         /\ bank'.prechd <=>
              \/ In.bg /\ Idle /\ dwn.we /\ ~ bank.prechd
              \/ In.bg /\ bank.st = PRE_RD
              \/ bank.prechd /\ ~ (In.bg /\ ((Idle /\ dwn.we) \/ bank.st = PRE_ACT))
         /\ bank'.actd <=>
              /\ ~ (In.bg /\ bank.st = PRE_RD)
              /\ ~ (In.bg /\ Idle /\ dwn.we /\ ~ bank.prechd)
              /\ bank.actd \/ (In.bg /\ ((Idle /\ dwn.we /\ bank.prechd) \/ bank.st = PRE_ACT))
         /\ bank'.br <=> fast /\ dwn.we /\ (Idle \/ bank'.st \in {IDLE, PRE_ACT, PRE_RD})
         /\ {bank'.prechd, bank'.actd, bank'.br} \subseteq BOOLEAN
<1>1. bank' = BankStep(Geo, bank, In, 0)
  BY DEF Next, BankRegs
<1>2. bank.prechd \in BOOLEAN /\ bank.actd \in BOOLEAN /\ bank.br \in BOOLEAN
  BY DEF BankInv
<1>3. bank'.st = NextSt(Geo, bank, In)
  BY <1>1 DEF BankStep
<1>4. bank'.br <=> fast /\ Asks(bank, In, NextSt(Geo, bank, In))
  BY <1>1 DEF BankStep
<1> DEFINE shut == DoPrech(Geo, bank, In) \/ In.setp \/ (DoRead(Geo, bank, In) /\ Geo.auto)
<1>5. shut <=> DoPrech(Geo, bank, In) \/ DoRead(Geo, bank, In)
  BY InIs DEF Geo
<1>6. bank'.prechd <=> shut \/ (bank.prechd /\ ~ DoAct(Geo, bank, In))
  BY <1>1 DEF BankStep
<1>7. bank'.actd <=> ~ shut /\ (bank.actd \/ DoAct(Geo, bank, In))
  BY <1>1 DEF BankStep
<1> HIDE DEF shut
<1>8. bank'.prechd <=>
        \/ In.bg /\ Idle /\ dwn.we /\ ~ bank.prechd
        \/ In.bg /\ bank.st = PRE_RD
        \/ bank.prechd /\ ~ (In.bg /\ ((Idle /\ dwn.we) \/ bank.st = PRE_ACT))
  BY <1>2, <1>5, <1>6, DoIs
<1>9. bank'.actd <=>
        /\ ~ (In.bg /\ bank.st = PRE_RD)
        /\ ~ (In.bg /\ Idle /\ dwn.we /\ ~ bank.prechd)
        /\ bank.actd \/ (In.bg /\ ((Idle /\ dwn.we /\ bank.prechd) \/ bank.st = PRE_ACT))
  BY <1>2, <1>5, <1>7, DoIs
<1>10. bank'.br <=> fast /\ dwn.we /\ (Idle \/ bank'.st \in {IDLE, PRE_ACT, PRE_RD})
  BY <1>2, <1>3, <1>4, AsksIs DEF Idle
<1>11. {bank'.prechd, bank'.actd, bank'.br} \subseteq BOOLEAN
  <2>1. bank'.prechd \in BOOLEAN
    BY <1>1 DEF BankStep
  <2>2. bank'.actd \in BOOLEAN
    BY <1>1 DEF BankStep
  <2>3. bank'.br \in BOOLEAN
    BY <1>1 DEF BankStep
  <2> QED BY <2>1, <2>2, <2>3
<1> QED BY <1>3, <1>8, <1>9, <1>10, <1>11

(* The time since a byte could be taken grows, but for the end.            *)
LEMMA AgeMoves ==
  ASSUME HostInv, Next
  PROVE  /\ Age \in Nat /\ Age < pace /\ pace \in {16, 32} /\ Age' \in Nat /\ pace' = pace
         /\ host.tick = 3 <=> Age = pace - 1
         /\ host.done => Age = pace - 2 /\ Age' = Age /\ host'.done
         /\ ~ host.done => Age' = IF Age = pace - 1 THEN 0 ELSE Age + 1
         /\ ~ host.done /\ host'.done => Age' = pace - 2
         /\ host'.rom => host.rom
<1>1. /\ pace \in {16, 32} /\ pace' = pace /\ host.tick \in Nat /\ host.tick < pace
      /\ host.done => host.tick = 2 /\ ~ host.rom
      /\ host \in HostRegs
  BY DEF HostInv, HostRegs, Next
<1>2. CASE host.done
  BY <1>1, <1>2, HostOver DEF Age
<1>3. CASE ~ host.done /\ host.tick = 0
  BY <1>1, <1>3, HostMoves DEF Age
<1>4. CASE ~ host.done /\ host.tick = 1
  BY <1>1, <1>4, HostWrites DEF Age
<1>5. CASE ~ host.done /\ host.tick > 1
  <2>1. /\ host'.tick = IF host.tick = pace - 1 THEN 0 ELSE host.tick + 1
        /\ ~ host'.done /\ (host'.rom <=> host.rom)
    BY <1>5, HostWaits
  <2> QED BY <1>1, <1>5, <2>1 DEF Age
<1> QED BY <1>1, <1>2, <1>3, <1>4, <1>5

(* A write goes on until its acknowledge, and comes with a byte.           *)
LEMMA WriteMoves ==
  ASSUME HostInv, DwnInv, BankInv, RfshInv, TimeInv, Ordinary, Next
  PROVE  /\ ForSdramNow => dwn'.we /\ (dwn'.pendwe <=> dwn.pendwe \/ (dwn.we /\ ~ out.ack))
         /\ ForPromNow => ~ dwn'.we /\ (dwn'.pendwe <=> dwn.pendwe) /\ (dwn.we => out.ack)
         /\ ~ ForSdramNow /\ ~ ForPromNow =>
              (dwn'.we <=> dwn.we /\ (~ out.ack \/ dwn.pendwe)) /\ (dwn'.pendwe <=> dwn.pendwe /\ ~ out.ack)
         /\ ForSdramNow \/ ForPromNow => Age = pace - 1 /\ ~ host.done /\ host.rom
         /\ ~ (ForSdramNow /\ ForPromNow)
         /\ out.ack => dwn.we
         /\ gone' = IF out.ack THEN gone + 1 ELSE gone
<1>1. dwn.pendwe => dwn.we
  BY DEF DwnInv, Exact
<1>2. ForSdramNow \/ ForPromNow => Age = pace - 1 /\ ~ host.done /\ host.rom
  BY SeenFacts, AgeMoves DEF ForSdramNow, ForPromNow
<1>3. DwnType /\ HostLine \in Lines /\ out.ack \in BOOLEAN /\ (out.ack => dwn.we)
      /\ DwnStep(HostLine, out.ack) /\ gone' = (IF out.ack THEN gone + 1 ELSE gone)
      /\ (ForPromNow /\ dwn.we => out.ack)
  BY Respected DEF DwnInv, QStep, Respects
<1> QED BY <1>1, <1>2, <1>3, Flags

(* The numbers of the states stay. *)
LEMMA ClockKept ==
  ASSUME Next
  PROVE  /\ fast' = fast /\ file' = file /\ full' = full /\ pace' = pace /\ PRE_ACT' = PRE_ACT
         /\ ACT' = ACT /\ PRE_RD' = PRE_RD /\ READ' = READ /\ Last' = Last /\ Steps' = Steps
         /\ First' = First
<1>1. fast' = fast /\ file' = file /\ full' = full /\ pace' = pace
  BY DEF Next, RfshRegular, RfshStep
<1>2. PRE_ACT' = PRE_ACT /\ Steps' = Steps /\ First' = First
  BY <1>1 DEF PRE_ACT, Steps, First
<1>3. ACT' = ACT /\ PRE_RD' = PRE_RD
  BY <1>1, <1>2 DEF ACT, PRE_RD
<1>4. READ' = READ
  BY <1>3 DEF READ
<1>5. Last' = Last
  BY <1>4 DEF Last, Geo, STW, BUSY, DST
<1> QED BY <1>1, <1>2, <1>3, <1>4, <1>5

(* A write begins and goes on while its byte is in the registers, and one  *)
(* that is not asked for leaves the bank quiet.                            *)
LEMMA BankKept ==
  ASSUME HostInv, DwnInv, BankInv, RfshInv, TimeInv, Ordinary, Next
  PROVE  BankInv'
<1>1. /\ bank.st \in Nat /\ bank.st < Last
      /\ bank.prechd \in BOOLEAN /\ bank.actd \in BOOLEAN /\ bank.br \in BOOLEAN
      /\ bank.st \in 1 .. READ + 1 => dwn.we
      /\ out.ack <=> bank.st = READ + 1
      /\ bank.br => fast
      /\ fast /\ bank.st \in {PRE_ACT, PRE_RD} => bank.br
      /\ bank.actd <=> bank.st \in ACT .. PRE_RD
      /\ bank.st = 0 /\ ~ bank.prechd => gone = file.header \/ (~ host.rom /\ ~ dwn.we)
      /\ bank.st # 0 => (bank.prechd <=> ~ bank.actd)
      /\ DwnType /\ rfsh.rfshing \in BOOLEAN /\ fast \in BOOLEAN /\ dwn.we \in BOOLEAN
  BY Order DEF BankInv, Idle, DwnInv, RfshInv, RfshRegs, HostInv, DwnType
<1>2. /\ quiet' <=> (fast => ~ dwn.we)
      /\ out'.ack <=> ProgEn /\ bank.st = READ
      /\ dwn.we => ProgEn
      /\ quiet' \in BOOLEAN /\ out'.ack \in BOOLEAN
  BY DEF Next, BankRegs, ProgRq, ProgEn, DwnldBusy, Ack
<1>3. /\ bank'.st \in Nat /\ bank'.st < Last
      /\ {bank'.prechd, bank'.actd, bank'.br} \subseteq BOOLEAN
      /\ bank'.st = READ + 1 <=> bank.st = READ
      /\ bank'.st \in 1 .. READ + 1 => dwn.we /\ ~ out.ack
      /\ bank'.br => fast /\ dwn.we
      /\ fast /\ bank'.st \in {PRE_ACT, PRE_RD} => bank'.br
      /\ bank'.actd <=> bank'.st \in ACT .. PRE_RD
      /\ bank'.st = 0 /\ ~ bank'.prechd => (bank.st = 0 /\ ~ bank.prechd) \/ (~ host.rom /\ ~ dwn.we)
      /\ bank'.st # 0 => (bank'.prechd <=> ~ bank'.actd)
      /\ out.ack => bank'.st = READ + 2
  <2>1. CASE ~ ProgEn
    <3>1. bank' = BankReset /\ ~ dwn.we /\ ~ host.rom
      BY <2>1 DEF Next, BankRegs, ProgEn, DwnldBusy
    <3>2. bank'.st = 0 /\ ~ bank'.prechd /\ ~ bank'.actd /\ ~ bank'.br
          /\ {bank'.prechd, bank'.actd, bank'.br} \subseteq BOOLEAN
      BY <3>1, Order DEF BankReset
    <3> QED BY <1>1, <3>1, <3>2, Order
  <2>2. CASE ProgEn
    <3>1. CASE bank.st = 0
      BY <1>1, <2>2, <3>1, BankMoves, StateMoves, AsksIs, Order DEF Idle
    <3>2. CASE bank.st \in {PRE_ACT, PRE_RD}
      BY <1>1, <2>2, <3>2, BankMoves, StateMoves, AsksIs, Order DEF Idle
    <3>3. CASE bank.st \notin {0, PRE_ACT, PRE_RD}
      BY <1>1, <2>2, <3>3, BankMoves, StateMoves, AsksIs, Order DEF Idle
    <3> QED BY <3>1, <3>2, <3>3
  <2> QED BY <2>1, <2>2
<1>4. /\ bank'.st \in 1 .. READ + 1 => dwn'.we
      /\ fast /\ quiet' => ~ bank'.br /\ (dwn'.we => Age' = 0)
      /\ fast /\ ~ dwn'.we /\ bank'.st # READ + 2 => quiet'
  BY <1>1, <1>2, <1>3, WriteMoves, AgeMoves
<1>7. bank'.st = 0 /\ ~ bank'.prechd => gone' = file.header \/ (~ host'.rom /\ ~ dwn'.we)
  BY <1>1, <1>3, WriteMoves, AgeMoves, Order
<1>5. out'.ack <=> bank'.st = READ + 1
  BY <1>1, <1>2, <1>3, Order
<1> QED BY <1>2, <1>3, <1>4, <1>5, <1>7, ClockKept, Order DEF BankInv, Idle

-----------------------------------------------------------------------------
(* The refresh engine, one clock.                                          *)

(* It starts when the bank is idle and nobody asks. *)
LEMMA GrantIs ==
  ASSUME DwnType, BankInv, RfshInv, fast \in BOOLEAN
  PROVE  /\ SeenQuiet <=> IF fast THEN quiet ELSE ~ dwn.we
         /\ RfshBg <=> Idle /\ rfsh.br /\ SeenQuiet
         /\ SeenQuiet => ~ In.bg
         /\ rfsh.rfshing => ~ In.bg
<1>1. SeenQuiet <=> IF fast THEN quiet ELSE ~ dwn.we
  BY DEF SeenQuiet, ProgRq, ProgEn, DwnldBusy
<1>2. RfshBg <=> Idle /\ rfsh.br /\ SeenQuiet
  BY DEF RfshBg, RfshInv, Idle, IDLE
<1>3. bank.br \in BOOLEAN /\ rfsh.rfshing \in BOOLEAN /\ (fast /\ quiet => ~ bank.br)
  BY DEF BankInv, RfshInv, RfshRegs
<1> QED BY <1>1, <1>2, <1>3, AsksIs

(* Its registers, while what it owes is what a rise of start adds.         *)
LEMMA RfshMoves ==
  ASSUME HostInv, DwnInv, BankInv, RfshInv, DebtInv, Ordinary, Next
  PROVE  \E start \in BOOLEAN :
           /\ start => since = Line
           /\ since' = IF start THEN 0 ELSE IF since < Line THEN since + 1 ELSE Line
           /\ rfsh.st = Steps - 1 /\ rfsh.cnt # 0 => rfsh'.cnt = rfsh.cnt - 1
           /\ ~ (rfsh.st = Steps - 1 /\ rfsh.cnt # 0) =>
                rfsh'.cnt = rfsh.cnt \/ (start /\ rfsh'.cnt = rfsh.cnt + Batch)
           /\ rfsh'.br <=> ~ RfshBg /\ (rfsh.br \/ (rfsh.cnt # 0 /\ rfsh.st = 0))
           /\ rfsh.st = 0 => rfsh'.st = IF RfshBg THEN 1 ELSE 0
           /\ rfsh.st # 0 /\ rfsh.st # Steps - 1 => rfsh'.st = rfsh.st + 1
           /\ rfsh.st = Steps - 1 => rfsh'.st = IF rfsh.cnt # 0 /\ SeenQuiet THEN First ELSE 0
           /\ rfsh'.rfshing <=> rfsh'.st # 0
           /\ ~ rfsh'.help
           /\ {rfsh'.br, rfsh'.rfshing, rfsh'.help, rfsh'.last} \subseteq BOOLEAN
           /\ rfsh'.cmd = CASE rfsh.st = 0 -> "PRECHARGE_ALL"
                            [] rfsh.st = First -> "REFRESH"
                            [] OTHER -> "NOP"
           /\ rfsh' \in [cnt: Nat, st: Nat, br: BOOLEAN, rfshing: BOOLEAN, help: BOOLEAN,
                         last: BOOLEAN, cmd: {"NOP", "PRECHARGE_ALL", "REFRESH"}]
<1>1. PICK start \in BOOLEAN :
        /\ start => since = Line
        /\ since' = IF start THEN 0 ELSE IF since < Line THEN since + 1 ELSE Line
        /\ RfshStep(start, RfshBg, SeenQuiet)
  BY DEF Next, RfshRegular
<1>2. /\ rfsh \in RfshRegs /\ rfsh.cnt \in Nat /\ rfsh.cnt <= Batch /\ Batch \in Nat /\ MaxDebt \in Nat
      /\ 2 * Batch <= MaxDebt /\ rfsh.st \in 0 .. Steps - 1
      /\ rfsh.rfshing <=> rfsh.st # 0
      /\ ~ rfsh.help /\ rfsh.br \in BOOLEAN /\ rfsh.rfshing \in BOOLEAN
      /\ rfsh.br => rfsh.cnt # 0 /\ ~ rfsh.rfshing
  BY RefreshAssumption DEF RfshInv, RfshRegs, DebtInv, Ordinary
<1>3. RfshBg \in BOOLEAN /\ SeenQuiet \in BOOLEAN /\ (RfshBg => ~ rfsh.rfshing)
  BY <1>2, GrantIs DEF RfshBg, SeenQuiet, HostInv, DwnInv, BankInv, ProgRq
<1>4. Ends <=> rfsh.st = Steps - 1
  BY DEF Ends
<1>5. /\ rfsh'.cnt = CntNext(start)
      /\ rfsh'.st = StNext(RfshBg, SeenQuiet)
      /\ rfsh'.br = (~ RfshBg /\ (rfsh.br \/ (rfsh.cnt # 0 /\ ~ rfsh.rfshing)))
      /\ rfsh'.rfshing = Runs(RfshBg, SeenQuiet)
      /\ rfsh'.help = HelpNext
      /\ rfsh'.last = start
      /\ rfsh'.cmd = CASE rfsh.st = 0 -> "PRECHARGE_ALL"
                       [] rfsh.st = First -> "REFRESH"
                       [] OTHER -> "NOP"
  BY <1>1 DEF RfshStep
<1>6. NextCnt % (MaxDebt + 1) = rfsh.cnt + Batch
  <2>1. rfsh.cnt + Batch \in Nat /\ MaxDebt + 1 \in Nat /\ rfsh.cnt + Batch < MaxDebt + 1
    BY <1>2
  <2> QED BY <2>1, Small DEF NextCnt
<1>7. /\ rfsh.st = Steps - 1 /\ rfsh.cnt # 0 => rfsh'.cnt = rfsh.cnt - 1
      /\ ~ (rfsh.st = Steps - 1 /\ rfsh.cnt # 0) =>
           rfsh'.cnt = rfsh.cnt \/ (start /\ rfsh'.cnt = rfsh.cnt + Batch)
  BY <1>2, <1>4, <1>5, <1>6 DEF CntNext, Rises
<1>8. ~ HelpNext
  BY <1>2 DEF HelpNext, NextCnt
<1>9. (rfsh.st + 1) % Steps = IF rfsh.st = Steps - 1 THEN 0 ELSE rfsh.st + 1
  BY <1>2, Order, Turns
<1>10. /\ rfsh.st = 0 => rfsh'.st = IF RfshBg THEN 1 ELSE 0
       /\ rfsh.st = 0 => (Runs(RfshBg, SeenQuiet) <=> RfshBg)
  <2> SUFFICES ASSUME rfsh.st = 0
               PROVE  /\ rfsh'.st = IF RfshBg THEN 1 ELSE 0
                      /\ Runs(RfshBg, SeenQuiet) <=> RfshBg
    OBVIOUS
  <2>1. ~ Ends /\ ~ Again(SeenQuiet)
    BY <1>4, Order DEF Again
  <2>2. (rfsh.st + 1) % Steps = 1
    BY <1>9, Order
  <2> QED BY <1>2, <1>3, <1>5, <2>1, <2>2 DEF StNext, Runs
<1>11. /\ rfsh.st # 0 /\ rfsh.st # Steps - 1 => rfsh'.st = rfsh.st + 1
       /\ rfsh.st # 0 /\ rfsh.st # Steps - 1 => Runs(RfshBg, SeenQuiet)
  <2> SUFFICES ASSUME rfsh.st # 0, rfsh.st # Steps - 1
               PROVE  /\ rfsh'.st = rfsh.st + 1
                      /\ Runs(RfshBg, SeenQuiet)
    OBVIOUS
  <2>1. ~ Ends /\ ~ Again(SeenQuiet)
    BY <1>4 DEF Again
  <2> QED BY <1>2, <1>3, <1>5, <1>9, <2>1 DEF StNext, Runs
<1>12. /\ rfsh.st = Steps - 1 => rfsh'.st = IF rfsh.cnt # 0 /\ SeenQuiet THEN First ELSE 0
       /\ rfsh.st = Steps - 1 => (Runs(RfshBg, SeenQuiet) <=> rfsh.cnt # 0 /\ SeenQuiet)
  <2> SUFFICES ASSUME rfsh.st = Steps - 1
               PROVE  /\ rfsh'.st = IF rfsh.cnt # 0 /\ SeenQuiet THEN First ELSE 0
                      /\ Runs(RfshBg, SeenQuiet) <=> rfsh.cnt # 0 /\ SeenQuiet
    OBVIOUS
  <2>1. Ends /\ (Again(SeenQuiet) <=> rfsh.cnt # 0 /\ SeenQuiet) /\ rfsh.rfshing
    BY <1>2, <1>4, Order DEF Again
  <2> QED BY <1>2, <1>3, <1>5, <1>9, <2>1 DEF StNext, Runs
<1>13. rfsh'.rfshing <=> rfsh'.st # 0
  BY <1>2, <1>3, <1>5, <1>10, <1>11, <1>12, Order
<1>14. {rfsh'.br, rfsh'.rfshing, rfsh'.help, rfsh'.last} \subseteq BOOLEAN
  BY <1>1 DEF RfshStep, Runs, HelpNext
<1>15. rfsh'.br <=> ~ RfshBg /\ (rfsh.br \/ (rfsh.cnt # 0 /\ rfsh.st = 0))
  BY <1>2, <1>5
<1>16. rfsh' \in [cnt: Nat, st: Nat, br: BOOLEAN, rfshing: BOOLEAN, help: BOOLEAN,
                  last: BOOLEAN, cmd: {"NOP", "PRECHARGE_ALL", "REFRESH"}]
  <2>1. rfsh'.cnt \in Nat /\ rfsh'.st \in Nat
    BY <1>2, <1>7, <1>10, <1>11, <1>12, Order
  <2>2. rfsh' = [cnt |-> CntNext(start), st |-> StNext(RfshBg, SeenQuiet),
                 br |-> rfsh'.br, rfshing |-> rfsh'.rfshing, help |-> rfsh'.help,
                 last |-> rfsh'.last, cmd |-> rfsh'.cmd]
    BY <1>1 DEF RfshStep
  <2>3. rfsh'.cmd \in {"NOP", "PRECHARGE_ALL", "REFRESH"}
    BY <1>5
  <2> HIDE <1>5
  <2> QED BY <1>14, <2>1, <2>2, <2>3
<1> QED BY <1>1, <1>5, <1>7, <1>8, <1>10, <1>11, <1>12, <1>13, <1>14, <1>15, <1>16

(* The kinds of the values the times depend on. *)
LEMMA SizeFacts ==
  ASSUME HostInv, DwnInv, BankInv, RfshInv, DebtInv
  PROVE  /\ Last \in Nat /\ pace \in Nat /\ Age \in Nat /\ bank.st \in Nat /\ rfsh.st \in Nat
         /\ rfsh.cnt \in Nat /\ since \in Nat /\ Batch \in Nat /\ Line \in Nat
         /\ dwn.we \in BOOLEAN /\ dwn.pendwe \in BOOLEAN /\ bank.br \in BOOLEAN
         /\ bank.prechd \in BOOLEAN /\ quiet \in BOOLEAN /\ rfsh.br \in BOOLEAN
         /\ host.done \in BOOLEAN /\ ForSdramNow \in BOOLEAN /\ ForPromNow \in BOOLEAN
<1>1. /\ Last \in Nat /\ pace \in Nat /\ Batch \in Nat /\ Line \in Nat
  BY Order, RefreshAssumption, DownloadAssumption DEF HostInv
<1>2. Age \in Nat
  BY DEF HostInv, HostRegs, Age
<1>3. bank.st \in Nat /\ bank.br \in BOOLEAN /\ bank.prechd \in BOOLEAN /\ quiet \in BOOLEAN
  BY <1>1 DEF BankInv
<1>4. rfsh.st \in Nat /\ rfsh.cnt \in Nat /\ rfsh.br \in BOOLEAN /\ since \in Nat
  BY <1>1, Order, RefreshAssumption DEF RfshInv, RfshRegs, DebtInv
<1>5. dwn.we \in BOOLEAN /\ dwn.pendwe \in BOOLEAN /\ host.done \in BOOLEAN
  BY DEF DwnInv, DwnType, HostInv, HostRegs
<1>6. ForSdramNow \in BOOLEAN /\ ForPromNow \in BOOLEAN
  BY DEF ForSdramNow, ForPromNow, Taken
<1> QED BY <1>1, <1>2, <1>3, <1>4, <1>5, <1>6

(* The refresh engine owes something while it asks, and works while the    *)
(* bank is idle.                                                           *)
LEMMA RfshKept ==
  ASSUME HostInv, DwnInv, BankInv, RfshInv, TimeInv, DebtInv, Ordinary, Next
  PROVE  RfshInv' /\ since' \in Nat /\ since' <= Line
<1>1. PICK start \in BOOLEAN :
        /\ start => since = Line
        /\ since' = IF start THEN 0 ELSE IF since < Line THEN since + 1 ELSE Line
        /\ rfsh.st = Steps - 1 /\ rfsh.cnt # 0 => rfsh'.cnt = rfsh.cnt - 1
        /\ ~ (rfsh.st = Steps - 1 /\ rfsh.cnt # 0) =>
             rfsh'.cnt = rfsh.cnt \/ (start /\ rfsh'.cnt = rfsh.cnt + Batch)
        /\ rfsh'.br <=> ~ RfshBg /\ (rfsh.br \/ (rfsh.cnt # 0 /\ rfsh.st = 0))
        /\ rfsh.st = 0 => rfsh'.st = IF RfshBg THEN 1 ELSE 0
        /\ rfsh.st # 0 /\ rfsh.st # Steps - 1 => rfsh'.st = rfsh.st + 1
        /\ rfsh.st = Steps - 1 => rfsh'.st = IF rfsh.cnt # 0 /\ SeenQuiet THEN First ELSE 0
        /\ rfsh'.rfshing <=> rfsh'.st # 0
        /\ ~ rfsh'.help
        /\ rfsh' \in [cnt: Nat, st: Nat, br: BOOLEAN, rfshing: BOOLEAN, help: BOOLEAN,
                      last: BOOLEAN, cmd: {"NOP", "PRECHARGE_ALL", "REFRESH"}]
  BY RfshMoves
<1>2. /\ rfsh.cnt \in Nat /\ rfsh.cnt <= Batch /\ rfsh.st \in 0 .. Steps - 1
      /\ rfsh.rfshing <=> rfsh.st # 0
      /\ rfsh.rfshing => Idle
      /\ rfsh.br => rfsh.cnt # 0 /\ ~ rfsh.rfshing
      /\ Batch \in Nat \ {0} /\ MaxDebt \in Nat /\ 2 * Batch <= MaxDebt
      /\ since \in 0 .. Line /\ Line \in Nat
  BY RefreshAssumption, DownloadAssumption DEF RfshInv, RfshRegs, DebtInv, Ordinary
<1>3. DwnType /\ fast \in BOOLEAN /\ rfsh.rfshing \in BOOLEAN /\ rfsh.br \in BOOLEAN
  BY DEF DwnInv, HostInv, RfshInv, RfshRegs
<1>4. rfsh'.st # 0 => RfshBg \/ rfsh.rfshing
  BY <1>1, <1>2
<1>5. rfsh'.st # 0 => bank'.st = 0
  <2> SUFFICES ASSUME rfsh'.st # 0 PROVE bank'.st = 0
    OBVIOUS
  <2>1. Idle /\ ~ In.bg
    BY <1>2, <1>3, <1>4, GrantIs
  <2>2. CASE ProgEn
    BY <1>3, <2>1, <2>2, BankMoves, StateMoves
  <2>3. CASE ~ ProgEn
    BY <2>3, Order DEF Next, BankRegs, BankReset
  <2> QED BY <2>2, <2>3
<1>6. rfsh'.cnt <= MaxDebt /\ rfsh'.st \in 0 .. Steps - 1
  BY <1>1, <1>2, Order
<1>7. rfsh'.br => rfsh'.cnt # 0 /\ ~ rfsh'.rfshing
  <2>1. RfshBg => rfsh.st = 0 /\ rfsh.br
    BY <1>2, <1>3, GrantIs
  <2> QED BY <1>1, <1>2, <2>1, Order
<1>8. rfsh' \in RfshRegs'
  BY <1>1, <1>2, <1>6, ClockKept DEF RfshRegs
<1>9. since' \in Nat /\ since' <= Line
  BY <1>1, <1>2
<1> QED BY <1>1, <1>5, <1>7, <1>8, <1>9, Order, ClockKept DEF RfshInv, Idle

(* The kinds of the same values after a clock. *)
LEMMA SizeFactsNext ==
  ASSUME HostInv, DwnInv, BankInv, RfshInv, TimeInv, DebtInv, Ordinary, Next,
         HostInv', DwnInv', BankInv', RfshInv'
  PROVE  /\ Age' \in Nat /\ bank'.st \in Nat /\ rfsh'.st \in Nat /\ rfsh'.cnt \in Nat
         /\ since' \in Nat
         /\ dwn'.we \in BOOLEAN /\ dwn'.pendwe \in BOOLEAN /\ bank'.br \in BOOLEAN
         /\ bank'.prechd \in BOOLEAN /\ quiet' \in BOOLEAN /\ rfsh'.br \in BOOLEAN
         /\ host'.done \in BOOLEAN
<1>1. Last' \in Nat /\ Steps' \in Nat /\ MaxDebt \in Nat
  BY Order, ClockKept, RefreshAssumption
<1>2. bank'.st \in Nat /\ bank'.br \in BOOLEAN /\ bank'.prechd \in BOOLEAN /\ quiet' \in BOOLEAN
  BY <1>1 DEF BankInv
<1>3. rfsh'.st \in Nat /\ rfsh'.cnt \in Nat /\ rfsh'.br \in BOOLEAN
  BY <1>1 DEF RfshInv, RfshRegs
<1>4. dwn'.we \in BOOLEAN /\ dwn'.pendwe \in BOOLEAN /\ host'.done \in BOOLEAN
  BY DEF DwnInv, DwnType, HostInv, HostRegs
<1> QED BY <1>2, <1>3, <1>4, AgeMoves, RfshKept

(* At 96 MHz a write is over when the next byte comes, or waits for it      *)
(* with its first one, and what is owed is paid before more falls due.     *)
LEMMA FastTimes ==
  ASSUME HostInv, DwnInv, BankInv, RfshInv, TimeInv, DebtInv, Ordinary, Next, fast,
         HostInv', DwnInv', BankInv', RfshInv'
  PROVE  TimeInv' /\ DebtInv'
<1>1. /\ Last \in Nat /\ pace \in Nat /\ Age \in Nat /\ Age' \in Nat
      /\ bank.st \in Nat /\ bank'.st \in Nat /\ rfsh.st \in Nat /\ rfsh'.st \in Nat
      /\ rfsh.cnt \in Nat /\ rfsh'.cnt \in Nat /\ since \in Nat /\ since' \in Nat
      /\ Batch \in Nat /\ Line \in Nat
      /\ dwn.we \in BOOLEAN /\ dwn'.we \in BOOLEAN /\ dwn.pendwe \in BOOLEAN /\ dwn'.pendwe \in BOOLEAN
      /\ bank.br \in BOOLEAN /\ bank'.br \in BOOLEAN /\ bank.prechd \in BOOLEAN /\ bank'.prechd \in BOOLEAN
      /\ quiet \in BOOLEAN /\ quiet' \in BOOLEAN /\ rfsh.br \in BOOLEAN /\ rfsh'.br \in BOOLEAN
      /\ host.done \in BOOLEAN /\ host'.done \in BOOLEAN
      /\ ForSdramNow \in BOOLEAN /\ ForPromNow \in BOOLEAN
  BY SizeFacts, SizeFactsNext
<1>2. PICK L \in Nat, P \in Nat, a \in Nat, a1 \in Nat, s \in Nat, s1 \in Nat,
           r \in Nat, r1 \in Nat, n \in Nat, n1 \in Nat, c \in Nat, c1 \in Nat,
           B \in Nat, Ln \in Nat :
        /\ L = Last /\ P = pace /\ a = Age /\ a1 = Age' /\ s = bank.st /\ s1 = bank'.st
        /\ r = rfsh.st /\ r1 = rfsh'.st /\ n = rfsh.cnt /\ n1 = rfsh'.cnt
        /\ c = since /\ c1 = since' /\ B = Batch /\ Ln = Line
  BY <1>1
<1>3a. PICK w \in BOOLEAN, w1 \in BOOLEAN, pw \in BOOLEAN, pw1 \in BOOLEAN,
            br \in BOOLEAN, br1 \in BOOLEAN, pc \in BOOLEAN, pc1 \in BOOLEAN :
        /\ (w <=> dwn.we) /\ (w1 <=> dwn'.we) /\ (pw <=> dwn.pendwe) /\ (pw1 <=> dwn'.pendwe)
        /\ (br <=> bank.br) /\ (br1 <=> bank'.br) /\ (pc <=> bank.prechd) /\ (pc1 <=> bank'.prechd)
  BY <1>1
<1>3b. PICK q \in BOOLEAN, q1 \in BOOLEAN, b \in BOOLEAN, b1 \in BOOLEAN,
            d \in BOOLEAN, d1 \in BOOLEAN :
        /\ (q <=> quiet) /\ (q1 <=> quiet') /\ (b <=> rfsh.br) /\ (b1 <=> rfsh'.br)
        /\ (d <=> host.done) /\ (d1 <=> host'.done)
  BY <1>1
<1>3c. PICK g \in BOOLEAN, g1 \in BOOLEAN, take \in BOOLEAN, takeP \in BOOLEAN :
        /\ (g <=> gone = file.header) /\ (g1 <=> gone' = file.header)
        /\ (take <=> ForSdramNow) /\ (takeP <=> ForPromNow)
  BY <1>1
<1> DEFINE hold == IF r # 0 THEN 10 - r ELSE IF s = 0 /\ ~ br THEN 1 ELSE 0
           pos == IF s # 0 THEN s ELSE IF pc THEN 2 ELSE 0
           toRead == IF s < 5 THEN hold + 5 - pos ELSE L - s + 5 - 2
           bound == IF g THEN 15 ELSE 13
           toIdle == IF ~ w THEN IF s = 0 THEN 0 ELSE L - s
                      ELSE IF s < 5 THEN toRead + L - 5
                      ELSE IF s <= 6 /\ ~ pw THEN L - s
                      ELSE L - s + L - 2
           soonest == IF b THEN 0 ELSE 1
           longer == IF toIdle < soonest THEN soonest ELSE toIdle
           later == IF toIdle < P - a THEN P - a ELSE toIdle
           toGrant == IF b /\ s = 0 /\ q THEN 0
                       ELSE IF d \/ longer < P - a \/ longer = P - a THEN longer
                       ELSE later + L
           toPay == IF r # 0 THEN 10 - r ELSE 10 + toGrant
           hold1 == IF r1 # 0 THEN 10 - r1 ELSE IF s1 = 0 /\ ~ br1 THEN 1 ELSE 0
           pos1 == IF s1 # 0 THEN s1 ELSE IF pc1 THEN 2 ELSE 0
           toRead1 == IF s1 < 5 THEN hold1 + 5 - pos1 ELSE L - s1 + 5 - 2
           bound1 == IF g1 THEN 15 ELSE 13
           toIdle1 == IF ~ w1 THEN IF s1 = 0 THEN 0 ELSE L - s1
                      ELSE IF s1 < 5 THEN toRead1 + L - 5
                      ELSE IF s1 <= 6 /\ ~ pw1 THEN L - s1
                      ELSE L - s1 + L - 2
           soonest1 == IF b1 THEN 0 ELSE 1
           longer1 == IF toIdle1 < soonest1 THEN soonest1 ELSE toIdle1
           later1 == IF toIdle1 < P - a1 THEN P - a1 ELSE toIdle1
           toGrant1 == IF b1 /\ s1 = 0 /\ q1 THEN 0
                       ELSE IF d1 \/ longer1 < P - a1 \/ longer1 = P - a1 THEN longer1
                       ELSE later1 + L
           toPay1 == IF r1 # 0 THEN 10 - r1 ELSE 10 + toGrant1
<1>4. /\ toRead = ToRead /\ bound = Bound
      /\ toIdle = ToIdle /\ toGrant = ToGrant /\ toPay = ToPay
  <2>1. toRead = ToRead /\ bound = Bound
    BY <1>2, <1>3a, <1>3b, <1>3c, Fast DEF ToRead, Hold, Pos, Idle, Bound, IDLE
  <2>2. toIdle = ToIdle
    BY <1>2, <1>3a, <1>3b, <1>3c, <2>1, Fast DEF ToIdle, Idle, IDLE
  <2>3. toGrant = ToGrant
    BY <1>2, <1>3a, <1>3b, <1>3c, <2>2 DEF ToGrant, Left, Greater, SeenQuiet, ProgRq, ProgEn, DwnldBusy, Idle, IDLE
  <2>4. toPay = ToPay
    BY <1>2, <2>3, Fast DEF ToPay, RfshInv
  <2> QED BY <2>1, <2>2, <2>3, <2>4
<1>5. /\ toRead1 = ToRead' /\ bound1 = Bound'
      /\ toIdle1 = ToIdle' /\ toGrant1 = ToGrant' /\ toPay1 = ToPay'
  <2>1. toRead1 = ToRead' /\ bound1 = Bound'
    BY <1>2, <1>3a, <1>3b, <1>3c, Fast, ClockKept DEF ToRead, Hold, Pos, Idle, Bound, IDLE
  <2>2. toIdle1 = ToIdle'
    BY <1>2, <1>3a, <1>3b, <1>3c, <2>1, Fast, ClockKept DEF ToIdle, Idle, IDLE
  <2>3. toGrant1 = ToGrant'
    <3>1. SeenQuiet' <=> q1
      BY <1>3a, <1>3b, <1>3c, ClockKept DEF SeenQuiet, ProgRq, ProgEn, DwnldBusy
    <3>2. Left' = P - a1 /\ (fast <=> fast')
      BY <1>2, ClockKept DEF Left
    <3>3. /\ ToIdle' = toIdle1 /\ (rfsh'.br <=> b1)
          /\ (host'.done <=> d1)
          /\ (Idle' <=> s1 = 0)
      BY <1>2, <1>3a, <1>3b, <1>3c, <2>2 DEF Idle, IDLE
    <3>4. ToIdle' \in Int /\ toIdle1 \in Int
      BY <1>2, <2>2, Fast
    <3> HIDE DEF toIdle1
    <3> QED BY <1>2, <1>3a, <1>3b, <1>3c, <3>1, <3>2, <3>3, <3>4, ClockKept DEF ToGrant, Greater
  <2>4. toPay1 = ToPay'
    BY <1>2, <2>3, Fast, ClockKept DEF ToPay, RfshInv
  <2> QED BY <2>1, <2>2, <2>3, <2>4
<1>6. /\ w /\ s # 5 /\ s # 6 => ~ pw /\ a + toRead <= bound
      /\ w /\ s > 6 => s - 5 >= a + 1
      /\ s >= 5 => a - (s - 5) <= 15
      /\ (s = 5 \/ s = 6) /\ ~ pw => a - (s - 5) <= bound
      /\ pw => w /\ a = 0 /\ s = 6 /\ g
  <2>1. w /\ s # 5 /\ s # 6 => ~ pw /\ a + toRead <= bound
    BY <1>2, <1>3a, <1>3b, <1>3c, <1>4, Fast DEF TimeInv, BankInv
  <2>2. w /\ s > 6 => s - 5 >= a + 1
    BY <1>2, <1>3a, <1>3b, <1>3c, <1>4, Fast DEF TimeInv, BankInv
  <2>3. s >= 5 => a - (s - 5) <= 15
    BY <1>2, <1>3a, <1>3b, <1>3c, <1>4, Fast DEF TimeInv, BankInv
  <2>4. (s = 5 \/ s = 6) /\ ~ pw => a - (s - 5) <= bound
    BY <1>2, <1>3a, <1>3b, <1>3c, <1>4, Fast DEF TimeInv, BankInv
  <2>5. pw => w /\ a = 0 /\ s = 6 /\ g
    BY <1>2, <1>3a, <1>3b, <1>3c, <1>4, Fast DEF TimeInv, BankInv
  <2> QED BY <2>1, <2>2, <2>3, <2>4, <2>5
<1>7. /\ n <= B /\ c <= Ln
      /\ n > 0 => c + 40 * (n - 1) + toPay <= 50 * B
  BY <1>2, <1>4 DEF DebtInv
<1>8. /\ L \in {10, 12}
      /\ P \in {16, 32}
      /\ a < P
      /\ s < L
      /\ r < 10
      /\ B > 0 /\ 50 * B <= Ln
      /\ 1 <= s /\ s <= 6 => w
      /\ s = 2 \/ s = 4 => br
      /\ q => ~ br /\ (w => a = 0)
      /\ ~ w /\ s # 7 => q
      /\ s = 0 /\ ~ pc /\ (w \/ take) => g
      /\ s # 0 => (pc <=> s < 3 \/ s > 4)
      /\ r # 0 => s = 0
      /\ w /\ ~ pw /\ g => ~ d /\ ~ takeP
      /\ b => n # 0 /\ r = 0
  <2>1. /\ L \in {10, 12} /\ P \in {16, 32} /\ a < P /\ s < L /\ r < 10
        /\ B > 0 /\ 50 * B <= Ln
    BY <1>2, Fast, AgeMoves, RefreshAssumption DEF BankInv, RfshInv, RfshRegs, Ordinary
  <2>2. take => host.rom
    BY <1>3a, <1>3b, <1>3c, WriteMoves
  <2>3. w /\ ~ pw /\ g => ~ d /\ ~ takeP
    BY <1>3a, <1>3b, <1>3c, NotAlone
  <2>4. b => n # 0 /\ r = 0
    BY <1>2, <1>3a, <1>3b, <1>3c DEF RfshInv
  <2> QED BY <1>2, <1>3a, <1>3b, <1>3c, <2>1, <2>2, <2>3, <2>4, Fast DEF BankInv, RfshInv, Idle, IDLE
<1>9. /\ take \/ takeP => ~ d /\ a = P - 1
      /\ ~ (take /\ takeP)
      /\ d => a1 = a /\ a = P - 2 /\ d1
      /\ ~ d => a1 = IF a = P - 1 THEN 0 ELSE a + 1
      /\ ~ d /\ d1 => a1 = P - 2
      /\ take => w1 /\ (pw1 <=> pw \/ (w /\ s # 6))
      /\ takeP => ~ w1 /\ (pw1 <=> pw)
      /\ ~ take /\ ~ takeP => (w1 <=> w /\ (s # 6 \/ pw)) /\ (pw1 <=> pw /\ s # 6)
      /\ g1 <=> g /\ s # 6
  <2>1. out.ack <=> s = 6
    BY <1>2, Fast DEF BankInv
  <2>2. g1 <=> g /\ s # 6
    BY <1>2, <1>3a, <1>3b, <1>3c, <2>1, WriteMoves, FileFacts, ClockKept DEF DwnInv, HostInv
  <2>3. pw => w
    BY <1>3a, <1>3b, <1>3c DEF DwnInv, Exact
  <2> QED BY <1>2, <1>3a, <1>3b, <1>3c, <2>1, <2>2, <2>3, AgeMoves, WriteMoves
<1>10. \/ /\ s = 0 => s1 = IF br /\ r = 0 /\ w THEN IF pc THEN 3 ELSE 1 ELSE 0
          /\ s = 2 \/ s = 4 => s1 = IF br /\ r = 0 THEN s + 1 ELSE s
          /\ s # 0 /\ s # 2 /\ s # 4 => s1 = IF s = L - 1 THEN 0 ELSE s + 1
          /\ s1 = 0 => (pc1 <=> pc)
          /\ br1 <=> w /\ (s = 0 \/ s1 = 0 \/ s1 = 2 \/ s1 = 4)
          /\ q1 <=> ~ w
       \/ s1 = 0 /\ ~ w /\ ~ take /\ ~ br1 /\ q1
  <2>1. CASE ProgEn
    <3>1. /\ bank'.st = NextSt(Geo, bank, In)
          /\ bank'.prechd <=>
               \/ In.bg /\ Idle /\ dwn.we /\ ~ bank.prechd
               \/ In.bg /\ bank.st = PRE_RD
               \/ bank.prechd /\ ~ (In.bg /\ ((Idle /\ dwn.we) \/ bank.st = PRE_ACT))
          /\ bank'.br <=> fast /\ dwn.we /\ (Idle \/ bank'.st \in {IDLE, PRE_ACT, PRE_RD})
      BY <2>1, BankMoves DEF DwnInv, RfshInv, RfshRegs
    <3>2. /\ Idle => NextSt(Geo, bank, In) =
                IF In.bg /\ dwn.we THEN IF bank.prechd THEN ACT ELSE 1 ELSE 0
          /\ bank.st \in {PRE_ACT, PRE_RD} => NextSt(Geo, bank, In) =
                IF In.bg THEN bank.st + 1 ELSE bank.st
          /\ bank.st \notin {IDLE, PRE_ACT, PRE_RD} => NextSt(Geo, bank, In) =
                IF bank.st = Last - 1 THEN 0 ELSE bank.st + 1
      BY StateMoves DEF DwnInv
    <3>3. In.bg <=> (~ rfsh.rfshing /\ IF fast THEN bank.br
                          ELSE dwn.we /\ (bank.st = IDLE \/ bank.st = PRE_ACT \/ bank.st = PRE_RD))
      BY <1>1, AsksIs DEF DwnInv, RfshInv, RfshRegs
    <3>4. rfsh.rfshing <=> r # 0
      BY <1>2 DEF RfshInv
    <3>5. In.bg <=> br /\ r = 0
      BY <1>2, <1>3a, <1>3b, <1>3c, <1>8, <3>3, <3>4, Fast DEF IDLE
    <3>6. s1 = NextSt(Geo, bank, In)
      BY <1>2, <3>1
    <3>7. /\ s = 0 => s1 = IF In.bg /\ w THEN IF pc THEN 3 ELSE 1 ELSE 0
          /\ s = 2 \/ s = 4 => s1 = IF In.bg THEN s + 1 ELSE s
          /\ s # 0 /\ s # 2 /\ s # 4 => s1 = IF s = L - 1 THEN 0 ELSE s + 1
      BY <1>2, <1>3a, <1>3b, <1>3c, <3>2, <3>6, Fast DEF Idle, IDLE
    <3>8. s1 = 0 => (pc1 <=> pc)
      BY <1>2, <1>3a, <1>3b, <1>3c, <1>8, <3>1, <3>5, <3>7, Fast DEF Idle, IDLE
    <3>9. /\ br1 <=> w /\ (s = 0 \/ s1 = 0 \/ s1 = 2 \/ s1 = 4)
          /\ q1 <=> ~ w
      BY <1>2, <1>3a, <1>3b, <1>3c, <2>1, <3>1, Fast DEF Idle, IDLE, Next, BankRegs, ProgRq
    <3> QED BY <1>8, <3>5, <3>7, <3>8, <3>9
  <2>2. CASE ~ ProgEn
    <3>1. bank' = BankReset /\ ~ dwn.we /\ ~ host.rom
      BY <2>2 DEF Next, BankRegs, ProgEn, DwnldBusy
    <3>2. bank'.st = 0 /\ ~ bank'.br
      BY <3>1, Order DEF BankReset
    <3>3. ~ ForSdramNow
      BY <3>1, WriteMoves
    <3> QED BY <1>2, <1>3a, <1>3b, <1>3c, <3>1, <3>2, <3>3 DEF Next, BankRegs, ProgRq
  <2> QED BY <2>1, <2>2
<1>11. PICK start \in BOOLEAN :
       /\ start => c = Ln
       /\ c1 = IF start THEN 0 ELSE IF c < Ln THEN c + 1 ELSE Ln
       /\ r = 9 /\ n # 0 => n1 = n - 1
       /\ ~ (r = 9 /\ n # 0) => n1 = n \/ (start /\ n1 = n + B)
       /\ b1 <=> ~ (b /\ s = 0 /\ q) /\ (b \/ (n # 0 /\ r = 0))
       /\ r = 0 => r1 = IF b /\ s = 0 /\ q THEN 1 ELSE 0
       /\ r # 0 /\ r # 9 => r1 = r + 1
       /\ r = 9 => r1 = IF n # 0 /\ q THEN 2 ELSE 0
  <2>1. RfshBg <=> Idle /\ rfsh.br /\ SeenQuiet
    BY <1>1, GrantIs DEF DwnInv, HostInv
  <2>2. SeenQuiet <=> q
    BY <1>1, <1>3a, <1>3b, <1>3c, GrantIs DEF DwnInv, HostInv
  <2> QED BY <1>2, <1>3a, <1>3b, <1>3c, <2>1, <2>2, RfshMoves, Fast DEF Idle, IDLE
<1>12. /\ w1 /\ s1 # 5 /\ s1 # 6 => ~ pw1 /\ a1 + toRead1 <= bound1
       /\ w1 /\ s1 > 6 => s1 - 5 >= a1 + 1
       /\ s1 >= 5 => a1 - (s1 - 5) <= 15
       /\ (s1 = 5 \/ s1 = 6) /\ ~ pw1 => a1 - (s1 - 5) <= bound1
       /\ pw1 => w1 /\ a1 = 0 /\ s1 = 6 /\ g1
  BY <1>6, <1>8, <1>9, <1>10, <1>11
<1>13. n1 <= B /\ (n1 > 0 => c1 + 40 * (n1 - 1) + toPay1 <= 50 * B)
  BY <1>6, <1>7, <1>8, <1>9, <1>10, <1>11, <1>12
<1>14. TimeInv'
  BY <1>2, <1>3a, <1>3b, <1>3c, <1>5, <1>12, Fast, ClockKept DEF TimeInv
<1>15. DebtInv'
  BY <1>2, <1>5, <1>13, RfshKept DEF DebtInv
<1> QED BY <1>14, <1>15

(* The times are kept at 48 MHz. *)
LEMMA SlowTimes ==
  ASSUME HostInv, DwnInv, BankInv, RfshInv, TimeInv, DebtInv, Ordinary, Next, ~ fast,
         HostInv', DwnInv', BankInv', RfshInv'
  PROVE  TimeInv' /\ DebtInv'
<1>1. /\ Last \in Nat /\ pace \in Nat /\ Age \in Nat /\ Age' \in Nat
      /\ bank.st \in Nat /\ bank'.st \in Nat /\ rfsh.st \in Nat /\ rfsh'.st \in Nat
      /\ rfsh.cnt \in Nat /\ rfsh'.cnt \in Nat /\ since \in Nat /\ since' \in Nat
      /\ Batch \in Nat /\ Line \in Nat
      /\ dwn.we \in BOOLEAN /\ dwn'.we \in BOOLEAN /\ dwn.pendwe \in BOOLEAN /\ dwn'.pendwe \in BOOLEAN
      /\ bank.br \in BOOLEAN /\ bank'.br \in BOOLEAN /\ bank.prechd \in BOOLEAN /\ bank'.prechd \in BOOLEAN
      /\ quiet \in BOOLEAN /\ quiet' \in BOOLEAN /\ rfsh.br \in BOOLEAN /\ rfsh'.br \in BOOLEAN
      /\ host.done \in BOOLEAN /\ host'.done \in BOOLEAN
      /\ ForSdramNow \in BOOLEAN /\ ForPromNow \in BOOLEAN
  BY SizeFacts, SizeFactsNext
<1>2. PICK L \in Nat, P \in Nat, a \in Nat, a1 \in Nat, s \in Nat, s1 \in Nat,
           r \in Nat, r1 \in Nat, n \in Nat, n1 \in Nat, c \in Nat, c1 \in Nat,
           B \in Nat, Ln \in Nat :
        /\ L = Last /\ P = pace /\ a = Age /\ a1 = Age' /\ s = bank.st /\ s1 = bank'.st
        /\ r = rfsh.st /\ r1 = rfsh'.st /\ n = rfsh.cnt /\ n1 = rfsh'.cnt
        /\ c = since /\ c1 = since' /\ B = Batch /\ Ln = Line
  BY <1>1
<1>3a. PICK w \in BOOLEAN, w1 \in BOOLEAN, pw \in BOOLEAN, pw1 \in BOOLEAN,
            br \in BOOLEAN, br1 \in BOOLEAN, pc \in BOOLEAN, pc1 \in BOOLEAN :
        /\ (w <=> dwn.we) /\ (w1 <=> dwn'.we) /\ (pw <=> dwn.pendwe) /\ (pw1 <=> dwn'.pendwe)
        /\ (br <=> bank.br) /\ (br1 <=> bank'.br) /\ (pc <=> bank.prechd) /\ (pc1 <=> bank'.prechd)
  BY <1>1
<1>3b. PICK q \in BOOLEAN, q1 \in BOOLEAN, b \in BOOLEAN, b1 \in BOOLEAN,
            d \in BOOLEAN, d1 \in BOOLEAN :
        /\ (q <=> quiet) /\ (q1 <=> quiet') /\ (b <=> rfsh.br) /\ (b1 <=> rfsh'.br)
        /\ (d <=> host.done) /\ (d1 <=> host'.done)
  BY <1>1
<1>3c. PICK g \in BOOLEAN, g1 \in BOOLEAN, take \in BOOLEAN, takeP \in BOOLEAN :
        /\ (g <=> gone = file.header) /\ (g1 <=> gone' = file.header)
        /\ (take <=> ForSdramNow) /\ (takeP <=> ForPromNow)
  BY <1>1
<1> DEFINE hold == IF r # 0 THEN 6 - r ELSE 0
           pos == IF s # 0 THEN s ELSE IF pc THEN 1 ELSE 0
           toRead == IF s < 3 THEN hold + 3 - pos ELSE L - s + 3 - 1
           bound == IF g THEN 8 ELSE 7
           toIdle == IF ~ w THEN IF s = 0 THEN 0 ELSE L - s
                      ELSE IF s < 3 THEN toRead + L - 3
                      ELSE IF s <= 4 /\ ~ pw THEN L - s
                      ELSE L - s + L - 1
           soonest == IF b THEN 0 ELSE 1
           longer == IF toIdle < soonest THEN soonest ELSE toIdle
           later == IF toIdle < P - a THEN P - a ELSE toIdle
           toGrant == IF b /\ s = 0 /\ ~ w THEN 0
                       ELSE IF d \/ longer < P - a THEN longer
                       ELSE later + L
           toPay == IF r # 0 THEN 6 - r ELSE 6 + toGrant
           hold1 == IF r1 # 0 THEN 6 - r1 ELSE 0
           pos1 == IF s1 # 0 THEN s1 ELSE IF pc1 THEN 1 ELSE 0
           toRead1 == IF s1 < 3 THEN hold1 + 3 - pos1 ELSE L - s1 + 3 - 1
           bound1 == IF g1 THEN 8 ELSE 7
           toIdle1 == IF ~ w1 THEN IF s1 = 0 THEN 0 ELSE L - s1
                      ELSE IF s1 < 3 THEN toRead1 + L - 3
                      ELSE IF s1 <= 4 /\ ~ pw1 THEN L - s1
                      ELSE L - s1 + L - 1
           soonest1 == IF b1 THEN 0 ELSE 1
           longer1 == IF toIdle1 < soonest1 THEN soonest1 ELSE toIdle1
           later1 == IF toIdle1 < P - a1 THEN P - a1 ELSE toIdle1
           toGrant1 == IF b1 /\ s1 = 0 /\ ~ w1 THEN 0
                       ELSE IF d1 \/ longer1 < P - a1 THEN longer1
                       ELSE later1 + L
           toPay1 == IF r1 # 0 THEN 6 - r1 ELSE 6 + toGrant1
<1>4. /\ toRead = ToRead /\ bound = Bound
      /\ toIdle = ToIdle /\ toGrant = ToGrant /\ toPay = ToPay
  <2>1. toRead = ToRead /\ bound = Bound
    BY <1>2, <1>3a, <1>3b, <1>3c, Slow DEF ToRead, Hold, Pos, Idle, Bound, IDLE
  <2>2. toIdle = ToIdle
    BY <1>2, <1>3a, <1>3b, <1>3c, <2>1, Slow DEF ToIdle, Idle, IDLE
  <2>3. toGrant = ToGrant
    BY <1>2, <1>3a, <1>3b, <1>3c, <2>2 DEF ToGrant, Left, Greater, SeenQuiet, ProgRq, ProgEn, DwnldBusy, Idle, IDLE
  <2>4. toPay = ToPay
    BY <1>2, <2>3, Slow DEF ToPay, RfshInv
  <2> QED BY <2>1, <2>2, <2>3, <2>4
<1>5. /\ toRead1 = ToRead' /\ bound1 = Bound'
      /\ toIdle1 = ToIdle' /\ toGrant1 = ToGrant' /\ toPay1 = ToPay'
  <2>1. toRead1 = ToRead' /\ bound1 = Bound'
    BY <1>2, <1>3a, <1>3b, <1>3c, Slow, ClockKept DEF ToRead, Hold, Pos, Idle, Bound, IDLE
  <2>2. toIdle1 = ToIdle'
    BY <1>2, <1>3a, <1>3b, <1>3c, <2>1, Slow, ClockKept DEF ToIdle, Idle, IDLE
  <2>3. toGrant1 = ToGrant'
    <3>1. SeenQuiet' <=> ~ w1
      BY <1>3a, <1>3b, <1>3c, ClockKept DEF SeenQuiet, ProgRq, ProgEn, DwnldBusy
    <3>2. Left' = P - a1 /\ (fast <=> fast')
      BY <1>2, ClockKept DEF Left
    <3>3. /\ ToIdle' = toIdle1 /\ (rfsh'.br <=> b1)
          /\ (host'.done <=> d1)
          /\ (Idle' <=> s1 = 0)
      BY <1>2, <1>3a, <1>3b, <1>3c, <2>2 DEF Idle, IDLE
    <3>4. ToIdle' \in Int /\ toIdle1 \in Int
      BY <1>2, <2>2, Slow
    <3> HIDE DEF toIdle1
    <3> QED BY <1>2, <1>3a, <1>3b, <1>3c, <3>1, <3>2, <3>3, <3>4, ClockKept DEF ToGrant, Greater
  <2>4. toPay1 = ToPay'
    BY <1>2, <2>3, Slow, ClockKept DEF ToPay, RfshInv
  <2> QED BY <2>1, <2>2, <2>3, <2>4
<1>6. /\ w /\ s # 3 /\ s # 4 => ~ pw /\ a + toRead <= bound
      /\ w => s <= 4
      /\ s >= 3 => a - (s - 3) <= 8
      /\ (s = 3 \/ s = 4) /\ ~ pw => a - (s - 3) <= bound
      /\ ~ pw
  <2>1. w /\ s # 3 /\ s # 4 => ~ pw /\ a + toRead <= bound
    BY <1>2, <1>3a, <1>3b, <1>3c, <1>4, Slow DEF TimeInv, BankInv
  <2>2. w => s <= 4
    BY <1>2, <1>3a, <1>3b, <1>3c, <1>4, Slow DEF TimeInv, BankInv
  <2>3. s >= 3 => a - (s - 3) <= 8
    BY <1>2, <1>3a, <1>3b, <1>3c, <1>4, Slow DEF TimeInv, BankInv
  <2>4. (s = 3 \/ s = 4) /\ ~ pw => a - (s - 3) <= bound
    BY <1>2, <1>3a, <1>3b, <1>3c, <1>4, Slow DEF TimeInv, BankInv
  <2>5. ~ pw
    BY <1>2, <1>3a, <1>3b, <1>3c, <1>4, Slow DEF TimeInv, BankInv
  <2> QED BY <2>1, <2>2, <2>3, <2>4, <2>5
<1>7. /\ n <= B /\ c <= Ln
      /\ n > 0 => c + 40 * (n - 1) + toPay <= 50 * B
  BY <1>2, <1>4 DEF DebtInv
<1>8. /\ L \in {8, 10}
      /\ P \in {16, 32}
      /\ a < P
      /\ s < L
      /\ r < 6
      /\ B > 0 /\ 50 * B <= Ln
      /\ 1 <= s /\ s <= 4 => w
      /\ s = 0 /\ ~ pc /\ (w \/ take) => g
      /\ s # 0 => (pc <=> s < 2 \/ s > 2)
      /\ r # 0 => s = 0
      /\ w /\ ~ pw /\ g => ~ d /\ ~ takeP
      /\ b => n # 0 /\ r = 0
  <2>1. /\ L \in {8, 10} /\ P \in {16, 32} /\ a < P /\ s < L /\ r < 6
        /\ B > 0 /\ 50 * B <= Ln
    BY <1>2, Slow, AgeMoves, RefreshAssumption DEF BankInv, RfshInv, RfshRegs, Ordinary
  <2>2. take => host.rom
    BY <1>3a, <1>3b, <1>3c, WriteMoves
  <2>3. w /\ ~ pw /\ g => ~ d /\ ~ takeP
    BY <1>3a, <1>3b, <1>3c, NotAlone
  <2>4. b => n # 0 /\ r = 0
    BY <1>2, <1>3a, <1>3b, <1>3c DEF RfshInv
  <2> QED BY <1>2, <1>3a, <1>3b, <1>3c, <2>1, <2>2, <2>3, <2>4, Slow DEF BankInv, RfshInv, Idle, IDLE
<1>9. /\ take \/ takeP => ~ d /\ a = P - 1
      /\ ~ (take /\ takeP)
      /\ d => a1 = a /\ a = P - 2 /\ d1
      /\ ~ d => a1 = IF a = P - 1 THEN 0 ELSE a + 1
      /\ ~ d /\ d1 => a1 = P - 2
      /\ take => w1 /\ (pw1 <=> pw \/ (w /\ s # 4))
      /\ takeP => ~ w1 /\ (pw1 <=> pw)
      /\ ~ take /\ ~ takeP => (w1 <=> w /\ (s # 4 \/ pw)) /\ (pw1 <=> pw /\ s # 4)
      /\ g1 <=> g /\ s # 4
  <2>1. out.ack <=> s = 4
    BY <1>2, Slow DEF BankInv
  <2>2. g1 <=> g /\ s # 4
    BY <1>2, <1>3a, <1>3b, <1>3c, <2>1, WriteMoves, FileFacts, ClockKept DEF DwnInv, HostInv
  <2>3. pw => w
    BY <1>3a, <1>3b, <1>3c DEF DwnInv, Exact
  <2> QED BY <1>2, <1>3a, <1>3b, <1>3c, <2>1, <2>2, <2>3, AgeMoves, WriteMoves
<1>10. \/ /\ s = 0 => s1 = IF w /\ r = 0 /\ w THEN IF pc THEN 2 ELSE 1 ELSE 0
          /\ s = 1 \/ s = 2 => s1 = IF w /\ r = 0 THEN s + 1 ELSE s
          /\ s # 0 /\ s # 1 /\ s # 2 => s1 = IF s = L - 1 THEN 0 ELSE s + 1
          /\ s1 = 0 => (pc1 <=> pc)
       \/ s1 = 0 /\ ~ w /\ ~ take
  <2>1. CASE ProgEn
    <3>1. /\ bank'.st = NextSt(Geo, bank, In)
          /\ bank'.prechd <=>
               \/ In.bg /\ Idle /\ dwn.we /\ ~ bank.prechd
               \/ In.bg /\ bank.st = PRE_RD
               \/ bank.prechd /\ ~ (In.bg /\ ((Idle /\ dwn.we) \/ bank.st = PRE_ACT))
          /\ bank'.br <=> fast /\ dwn.we /\ (Idle \/ bank'.st \in {IDLE, PRE_ACT, PRE_RD})
      BY <2>1, BankMoves DEF DwnInv, RfshInv, RfshRegs
    <3>2. /\ Idle => NextSt(Geo, bank, In) =
                IF In.bg /\ dwn.we THEN IF bank.prechd THEN ACT ELSE 1 ELSE 0
          /\ bank.st \in {PRE_ACT, PRE_RD} => NextSt(Geo, bank, In) =
                IF In.bg THEN bank.st + 1 ELSE bank.st
          /\ bank.st \notin {IDLE, PRE_ACT, PRE_RD} => NextSt(Geo, bank, In) =
                IF bank.st = Last - 1 THEN 0 ELSE bank.st + 1
      BY StateMoves DEF DwnInv
    <3>3. In.bg <=> (~ rfsh.rfshing /\ IF fast THEN bank.br
                          ELSE dwn.we /\ (bank.st = IDLE \/ bank.st = PRE_ACT \/ bank.st = PRE_RD))
      BY <1>1, AsksIs DEF DwnInv, RfshInv, RfshRegs
    <3>4. rfsh.rfshing <=> r # 0
      BY <1>2 DEF RfshInv
    <3>5. In.bg <=> r = 0 /\ w /\ (s = 0 \/ s = 1 \/ s = 2)
      BY <1>2, <1>3a, <1>3b, <1>3c, <1>8, <3>3, <3>4, Slow DEF IDLE
    <3>6. s1 = NextSt(Geo, bank, In)
      BY <1>2, <3>1
    <3>7. /\ s = 0 => s1 = IF In.bg /\ w THEN IF pc THEN 2 ELSE 1 ELSE 0
          /\ s = 1 \/ s = 2 => s1 = IF In.bg THEN s + 1 ELSE s
          /\ s # 0 /\ s # 1 /\ s # 2 => s1 = IF s = L - 1 THEN 0 ELSE s + 1
      BY <1>2, <1>3a, <1>3b, <1>3c, <3>2, <3>6, Slow DEF Idle, IDLE
    <3>8. s1 = 0 => (pc1 <=> pc)
      BY <1>2, <1>3a, <1>3b, <1>3c, <1>8, <3>1, <3>5, <3>7, Slow DEF Idle, IDLE
    <3> QED BY <1>8, <3>5, <3>7, <3>8
  <2>2. CASE ~ ProgEn
    <3>1. bank' = BankReset /\ ~ dwn.we /\ ~ host.rom
      BY <2>2 DEF Next, BankRegs, ProgEn, DwnldBusy
    <3>2. bank'.st = 0 /\ ~ bank'.br
      BY <3>1, Order DEF BankReset
    <3>3. ~ ForSdramNow
      BY <3>1, WriteMoves
    <3> QED BY <1>2, <1>3a, <1>3b, <1>3c, <3>1, <3>2, <3>3 DEF Next, BankRegs, ProgRq
  <2> QED BY <2>1, <2>2
<1>11. PICK start \in BOOLEAN :
       /\ start => c = Ln
       /\ c1 = IF start THEN 0 ELSE IF c < Ln THEN c + 1 ELSE Ln
       /\ r = 5 /\ n # 0 => n1 = n - 1
       /\ ~ (r = 5 /\ n # 0) => n1 = n \/ (start /\ n1 = n + B)
       /\ b1 <=> ~ (b /\ s = 0 /\ ~ w) /\ (b \/ (n # 0 /\ r = 0))
       /\ r = 0 => r1 = IF b /\ s = 0 /\ ~ w THEN 1 ELSE 0
       /\ r # 0 /\ r # 5 => r1 = r + 1
       /\ r = 5 => r1 = IF n # 0 /\ ~ w THEN 1 ELSE 0
  <2>1. RfshBg <=> Idle /\ rfsh.br /\ SeenQuiet
    BY <1>1, GrantIs DEF DwnInv, HostInv
  <2>2. SeenQuiet <=> ~ w
    BY <1>1, <1>3a, <1>3b, <1>3c, GrantIs DEF DwnInv, HostInv
  <2> QED BY <1>2, <1>3a, <1>3b, <1>3c, <2>1, <2>2, RfshMoves, Slow DEF Idle, IDLE
<1>12. /\ w1 /\ s1 # 3 /\ s1 # 4 => ~ pw1 /\ a1 + toRead1 <= bound1
       /\ w1 => s1 <= 4
       /\ s1 >= 3 => a1 - (s1 - 3) <= 8
       /\ (s1 = 3 \/ s1 = 4) /\ ~ pw1 => a1 - (s1 - 3) <= bound1
       /\ ~ pw1
  BY <1>6, <1>8, <1>9, <1>10, <1>11
<1>13. n1 <= B /\ (n1 > 0 => c1 + 40 * (n1 - 1) + toPay1 <= 50 * B)
  BY <1>6, <1>7, <1>8, <1>9, <1>10, <1>11, <1>12
<1>14. TimeInv'
  BY <1>2, <1>3a, <1>3b, <1>3c, <1>5, <1>12, Slow, ClockKept DEF TimeInv
<1>15. DebtInv'
  BY <1>2, <1>5, <1>13, RfshKept DEF DebtInv
<1> QED BY <1>14, <1>15

-----------------------------------------------------------------------------
(* The download starts idle, with nothing taken and nothing owed. *)
LEMMA ControlInit ==
  ASSUME Init, FullPace, Ordinary
  PROVE  ControlInv
<1>1. /\ pace \in {16, 32} /\ file \in Files /\ full \in BOOLEAN /\ fast \in BOOLEAN
  <2>1. pace \in {8, 16, 32} /\ fast \in BOOLEAN
    BY DownloadAssumption, RefreshAssumption DEF Init, RfshInit
  <2> QED BY <2>1 DEF Init, FullPace
<1>2. /\ host = [addr |-> -1, tick |-> 0, rom |-> TRUE, ram |-> FALSE, wr |-> FALSE,
                 done |-> FALSE, dumps |-> FALSE, release |-> FALSE]
      /\ came = file.header /\ gone = file.header /\ since = Line /\ quiet = TRUE
      /\ ~ out.ack
  BY DEF Init
<1>3. /\ dwn.seen = [wr |-> FALSE, rom |-> FALSE, byte |-> 0, kind |-> "header"]
      /\ ~ dwn.we /\ ~ dwn.pendwe /\ ~ dwn.prom /\ DwnType
  BY DEF Init, DwnInit, DwnType, Lines, Kinds
<1>4. /\ bank.st = 0 /\ ~ bank.prechd /\ ~ bank.actd /\ ~ bank.br
      /\ {bank.prechd, bank.actd, bank.br, quiet, out.ack} \subseteq BOOLEAN
  BY <1>2 DEF Init, BankReset, IDLE
<1>5. rfsh = [cnt |-> 0, st |-> 0, br |-> FALSE, rfshing |-> FALSE, help |-> FALSE,
              last |-> FALSE, cmd |-> "NOP"]
  BY DEF Init, RfshInit
<1>6. /\ file.len \in Nat /\ file.header \in Nat /\ file.nvram \in Nat /\ Length \in Nat
      /\ file.header <= file.nvram /\ file.nvram <= file.len
      /\ SdramEnd \in Nat /\ file.header <= SdramEnd /\ file.prom \in Nat /\ FirstLen \in Nat
  BY <1>1, FileFacts, EndFacts
<1>7. HostInv
  <2>1. host \in HostRegs /\ host.addr \in -1 .. Length /\ host.tick < pace
    BY <1>1, <1>2, <1>6 DEF HostRegs
  <2>2. came = From(host.addr + 1)
    BY <1>2, <1>6 DEF From
  <2>3. Jumps => host.addr < FirstLen
    BY <1>2, <1>6
  <2> QED BY <1>1, <1>2, <1>3, <1>6, <2>1, <2>2, <2>3 DEF HostInv
<1>8. DwnInv
  BY <1>2, <1>3, <1>6 DEF DwnInv, Exact
<1>9. BankInv
  BY <1>2, <1>3, <1>4, Order, Fast, Slow DEF BankInv, Idle
<1>10. RfshInv
  BY <1>1, <1>4, <1>5, RefreshAssumption DEF RfshInv, RfshRegs, Steps
<1>11. TimeInv
  BY <1>3, <1>4, Order DEF TimeInv
<1>12. DebtInv
  BY <1>2, <1>5, RefreshAssumption, DownloadAssumption DEF DebtInv
<1> QED BY <1>7, <1>8, <1>9, <1>10, <1>11, <1>12 DEF ControlInv

(* A clock leaves the invariant as it was, whatever the host and the       *)
(* refreshes do in it. *)
LEMMA ControlStep ==
  ASSUME ControlInv, Ordinary, Next
  PROVE  ControlInv'
<1>1. HostInv /\ DwnInv /\ BankInv /\ RfshInv /\ TimeInv /\ DebtInv
  BY DEF ControlInv
<1>2. HostInv'
  <2>1. /\ DwnType /\ (dwn.pendwe => dwn.we) /\ out.ack \in BOOLEAN /\ (out.ack => dwn.we)
    BY <1>1, Order DEF DwnInv, BankInv, Exact
  <2> QED BY <1>1, <2>1, HostKept
<1>3. DwnInv' /\ BankInv' /\ RfshInv'
  BY <1>1, DwnKept, BankKept, RfshKept
<1>4. TimeInv' /\ DebtInv'
  <2>1. CASE fast
    BY <1>1, <1>2, <1>3, <2>1, FastTimes
  <2>2. CASE ~ fast
    BY <1>1, <1>2, <1>3, <2>2, SlowTimes
  <2> QED BY <2>1, <2>2
<1> QED BY <1>2, <1>3, <1>4 DEF ControlInv

(* Between clocks nothing changes. *)
LEMMA ControlStutters ==
  ASSUME ControlInv, UNCHANGED vars
  PROVE  ControlInv'
<1>1. /\ UNCHANGED <<fast, pace, file, full, host, dwn, came, gone, bank, quiet, out, since, rfsh>>
  BY DEF vars
<1>2. HostInv' /\ DwnInv'
  BY <1>1 DEF ControlInv, HostInv, DwnInv, DwnType, Exact, HostRegs, Length, FirstLen, HasTail,
              RomLen, Jumps, From, SdramEnd, KindOf
<1>3. BankInv' /\ RfshInv'
  BY <1>1 DEF ControlInv, BankInv, RfshInv, Idle, Last, STW, Geo, BUSY, DST, READ, ACT, PRE_ACT, PRE_RD,
              Age, RfshRegs, Steps
<1>4. TimeInv'
  BY <1>1 DEF ControlInv, TimeInv, Bound, ToRead, Hold, Pos, Idle, Last, STW, Geo, BUSY, DST, READ, ACT,
              PRE_ACT, PRE_RD, Age, Steps
<1>5. DebtInv'
  BY <1>1 DEF ControlInv, DebtInv, ToPay, ToGrant, ToIdle, Left, SeenQuiet, ProgRq, ProgEn, DwnldBusy,
              ToRead, Hold, Pos, Idle, Last, STW, Geo, BUSY, DST, READ, ACT, PRE_ACT, PRE_RD, Age, Steps
<1> QED BY <1>2, <1>3, <1>4, <1>5 DEF ControlInv

(* The invariant of a download whose bytes come every 16 clocks or more. *)
THEOREM ControlHolds == Spec /\ Ordinary => [](FullPace => ControlInv)
<1>1. Init /\ Ordinary => Ordinary /\ (FullPace => ControlInv)
  BY ControlInit
<1>2. /\ Ordinary /\ (FullPace => ControlInv)
      /\ [Next]_vars
      => (Ordinary /\ (FullPace => ControlInv))'
  <2> SUFFICES ASSUME Ordinary, FullPace => ControlInv, [Next]_vars, FullPace'
               PROVE  ControlInv'
    BY DEF Ordinary
  <2>1. FullPace
    BY DEF FullPace, vars, Next
  <2>2. CASE Next
    BY <2>1, <2>2, ControlStep
  <2>3. CASE UNCHANGED vars
    BY <2>1, <2>3, ControlStutters
  <2> QED BY <2>2, <2>3
<1> QED BY <1>1, <1>2, PTL DEF Spec

(* The refreshes of one rise of rfsh are paid before the next one comes. *)
THEOREM DebtIsPaid == Spec /\ Ordinary => [](FullPace => DebtPaid)
<1>1. ControlInv => DebtPaid
  BY DEF ControlInv, DebtInv, DebtPaid
<1> QED BY <1>1, ControlHolds, PTL

(* The host and the controller never ask more of jtframe_dwnld than its    *)
(* two registers can hold. *)
THEOREM DownloadIsQueue == Spec /\ Ordinary => IsQueue
<1>1. Init /\ Ordinary => (FullPace => QInit)
  BY FileFacts DEF Init, QInit
<1>2. ControlInv /\ Ordinary => HostLine \in Lines /\ out.ack \in BOOLEAN
  BY LineFacts DEF ControlInv, BankInv
<1>3. ControlInv /\ Ordinary /\ [Next]_vars => [QStep(HostLine, out.ack)]_qvars
  BY Respected DEF ControlInv, vars, qvars
<1>4. (FullPace => ControlInv) /\ Ordinary /\ [Next]_vars => [FullPace => QStep(HostLine, out.ack)]_qvars
  BY <1>3
<1>5. (FullPace => ControlInv) /\ Ordinary => (FullPace => HostLine \in Lines /\ out.ack \in BOOLEAN)
  BY <1>2
<1>6. Ordinary => Ordinary'
  BY DEF Ordinary
<1> QED BY <1>1, <1>4, <1>5, <1>6, ControlHolds, PTL DEF Spec, IsQueue

(* No byte is lost, written twice or out of order on its way. *)
THEOREM BytesInOrder == Spec /\ Ordinary => []InOrder
BY DownloadIsQueue, DownloadInOrder, PTL

-----------------------------------------------------------------------------
(* The chip.                                                               *)

(* A write goes on without a halt once it has begun, and its bank rests    *)
(* only after its last clock or when the download is over. *)
LEMMA BankGoes ==
  ASSUME ControlInv, Ordinary, Next
  PROVE  /\ bank.st \in Nat /\ bank.st < Last /\ gone \in Nat /\ file.header <= gone
         /\ Idle => bank'.st \in {0, 1, ACT}
         /\ ~ Idle => bank'.st = bank.st + 1 \/ (bank'.st = 0 /\ bank.st > READ + 1)
         /\ ~ Idle /\ bank'.st = 0 => bank.st = Last - 1 \/ ~ bank'.prechd
         /\ gone' = IF bank.st = READ + 1 THEN gone + 1 ELSE gone
         /\ bank.st \in 1 .. READ + 1 => dwn.we /\ dwn.prog = gone /\ ~ rfsh.rfshing
         /\ Idle /\ bank'.st # 0 => dwn.we /\ dwn.prog = gone /\ ~ rfsh.rfshing
         /\ Idle /\ ~ bank.prechd /\ gone # file.header => bank'.st = 0 /\ ~ bank'.prechd
<1>1. /\ HostInv /\ DwnInv /\ BankInv /\ RfshInv /\ TimeInv
      /\ DwnType /\ Exact /\ rfsh.rfshing \in BOOLEAN /\ fast \in BOOLEAN
  BY DEF ControlInv, DwnInv, HostInv, RfshInv, RfshRegs
<1>2. /\ bank.st \in Nat /\ bank.st < Last /\ gone \in Nat /\ file.header <= gone
      /\ out.ack <=> bank.st = READ + 1
      /\ bank.st \in 1 .. READ + 1 => dwn.we
      /\ rfsh.rfshing => Idle
      /\ bank.br \in BOOLEAN
  BY <1>1, Order DEF BankInv, DwnInv, RfshInv
<1>3. gone' = IF bank.st = READ + 1 THEN gone + 1 ELSE gone
  BY <1>1, <1>2, WriteMoves
<1>4. dwn.we => dwn.prog = gone
  BY <1>1 DEF Exact, DwnType
<1>5. bank.st \in {PRE_ACT, PRE_RD} => In.bg
  <2> SUFFICES ASSUME bank.st \in {PRE_ACT, PRE_RD} PROVE In.bg
    OBVIOUS
  <2>1. dwn.we /\ ~ rfsh.rfshing
    BY <1>2, Order DEF Idle
  <2>2. fast => bank.br
    BY <1>1 DEF BankInv
  <2> QED BY <1>1, <1>2, <2>1, <2>2, AsksIs
<1>6. CASE ProgEn
  <2>1. bank'.st = NextSt(Geo, bank, In)
    BY <1>1, <1>6, BankMoves
  <2>2. /\ Idle => bank'.st = IF In.bg /\ dwn.we THEN IF bank.prechd THEN ACT ELSE 1 ELSE 0
        /\ ~ Idle => bank'.st = IF bank.st = Last - 1 THEN 0 ELSE bank.st + 1
    BY <1>1, <1>5, <2>1, StateMoves, Order DEF Idle
  <2>3. In.bg => ~ rfsh.rfshing
    BY <1>1, InIs
  <2>4. Idle /\ ~ bank.prechd /\ gone # file.header => bank'.st = 0 /\ ~ bank'.prechd
    <3> SUFFICES ASSUME Idle, ~ bank.prechd, gone # file.header
                 PROVE  bank'.st = 0 /\ ~ bank'.prechd
      OBVIOUS
    <3>1. ~ dwn.we
      BY <1>1 DEF BankInv
    <3>2. bank.st # PRE_RD
      BY Order DEF Idle
    <3> QED BY <1>1, <1>6, <2>2, <3>1, <3>2, BankMoves
  <2> QED BY <1>2, <1>3, <1>4, <2>2, <2>3, <2>4, Order DEF Idle
<1>7. CASE ~ ProgEn
  <2>1. bank'.st = 0 /\ ~ bank'.prechd /\ ~ dwn.we
    BY <1>7, Order DEF Next, BankRegs, BankReset, ProgEn, DwnldBusy
  <2> QED BY <1>2, <1>3, <2>1, Order DEF Idle
<1> QED BY <1>6, <1>7

(* The command that goes to the pins, by the state the bank goes to.       *)
LEMMA CommandIs ==
  ASSUME ControlInv, Ordinary, Next, ~ rfsh.rfshing
  PROVE  LET ba == BankOf(gone) IN
         /\ bank'.st = ACT => out'.pins = [op |-> "ACTIVE", ba |-> ba, a |-> RowOf(gone)]
         /\ bank'.st = READ => /\ out'.pins = [op |-> "WRITEA", ba |-> ba, a |-> WordOf(gone)]
                               /\ out'.mask = <<HalfOf(gone)>> /\ out'.din = gone
         /\ bank'.st \in {IDLE, 1} \ {ACT} => out'.pins.op \in {"NOP", "PRECHARGE_ALL"}
         /\ bank'.st \notin {IDLE, 1, ACT, READ} => out'.pins.op = "NOP"
<1>1. DwnType /\ BankInv /\ rfsh.rfshing \in BOOLEAN
  BY DEF ControlInv, DwnInv, RfshInv, RfshRegs
<1>2. /\ out'.pins = Command /\ out'.din = dwn.prog
      /\ out'.mask = IF Does(DoRead) THEN <<HalfOf(dwn.prog)>> ELSE S!Nothing
  BY DEF Next, BankRegs
<1>3. ~ ProgEn => out'.pins = Nop /\ bank'.st = 0
  BY <1>2, Order DEF Command, Does, Next, BankRegs, BankReset
<1>4. CASE ProgEn
  <2>1. /\ Does(DoPrech) <=> In.bg /\ Idle /\ dwn.we /\ ~ bank.prechd
        /\ Does(DoAct) <=> In.bg /\ ((Idle /\ dwn.we /\ bank.prechd) \/ bank.st = PRE_ACT)
        /\ Does(DoRead) <=> In.bg /\ bank.st = PRE_RD
    BY <1>1, <1>4, DoIs DEF Does
  <2>2. /\ Idle => bank'.st = IF In.bg /\ dwn.we THEN IF bank.prechd THEN ACT ELSE 1 ELSE 0
        /\ bank.st \in {PRE_ACT, PRE_RD} => bank'.st = IF In.bg THEN bank.st + 1 ELSE bank.st
        /\ bank.st \notin {IDLE, PRE_ACT, PRE_RD} =>
             bank'.st = IF bank.st = Last - 1 THEN 0 ELSE bank.st + 1
    BY <1>1, <1>4, BankMoves, StateMoves
  <2>3. bank.st \in Nat /\ bank.st < Last /\ (bank.st \in {PRE_ACT, PRE_RD} => bank'.st = bank.st + 1)
    BY BankGoes, Order DEF Idle
  <2>4. /\ Does(DoAct) <=> bank'.st = ACT
        /\ Does(DoRead) <=> bank'.st = READ
        /\ Does(DoPrech) => bank'.st = 1 /\ bank.st = IDLE
    BY <2>1, <2>2, <2>3, Order DEF Idle
  <2>5. /\ Does(DoAct) \/ Does(DoRead) => dwn.prog = gone
        /\ Does(DoAct) => ~ Does(DoPrech) /\ ~ Does(DoRead)
        /\ Does(DoRead) => ~ Does(DoPrech)
    BY <2>1, <2>4, BankGoes, Order DEF Idle
  <2>6. /\ Does(DoPrech) => Command.op = "PRECHARGE_ALL"
        /\ Does(DoAct) => Command = [op |-> "ACTIVE", ba |-> BankOf(dwn.prog), a |-> RowOf(dwn.prog)]
        /\ Does(DoRead) => Command = [op |-> "WRITEA", ba |-> BankOf(dwn.prog), a |-> WordOf(dwn.prog)]
        /\ ~ Does(DoPrech) /\ ~ Does(DoAct) /\ ~ Does(DoRead) => Command.op = "NOP"
    BY <2>5 DEF Command, Nop, RowOf
  <2> QED BY <1>2, <2>4, <2>5, <2>6, Order
<1> QED BY <1>3, <1>4, Order DEF Nop

(* The commands come with the states of the bank and of the refresh.       *)
LEMMA PinsKept ==
  ASSUME ControlInv, Ordinary, Next, PinsInv
  PROVE  PinsInv'
<1>1. HostInv /\ DwnInv /\ BankInv /\ RfshInv /\ DebtInv
  BY DEF ControlInv
<1>2. /\ ACT' = ACT /\ READ' = READ /\ First' = First /\ IDLE' = IDLE /\ file' = file
  BY ClockKept DEF IDLE
<1>3. gone' = gone => /\ BankOf(gone)' = BankOf(gone) /\ RowOf(gone)' = RowOf(gone)
                      /\ WordOf(gone)' = WordOf(gone) /\ HalfOf(gone)' = HalfOf(gone)
  BY <1>2 DEF BankOf, RowOf, WordOf, HalfOf, Offset
<1>4. bank'.st \in {ACT, READ} => gone' = gone
  BY BankGoes, Order DEF Idle
<1>5. /\ rfsh.rfshing <=> rfsh.st # 0
      /\ rfsh.st \in Nat /\ rfsh.st < Steps
  BY <1>1, Order DEF RfshInv, RfshRegs
<1>6. /\ rfsh'.cmd = "REFRESH" => rfsh.st = First
      /\ rfsh.st # 0 /\ rfsh.st # Steps - 1 => rfsh'.st = rfsh.st + 1
  BY <1>1, Order, RfshMoves
<1>7. /\ First + 2 < Steps
  BY Order
<1>8. rfsh'.cmd = "REFRESH" => rfsh'.st = First + 1
  BY <1>5, <1>6, <1>7, Order
<1>9. bank'.st > READ + 1 => gone' # file.header
  <2> SUFFICES ASSUME bank'.st > READ + 1 PROVE gone' # file.header
    OBVIOUS
  <2>1. bank.st = READ + 1 \/ bank.st > READ + 1
    BY BankGoes, Order DEF Idle
  <2> QED BY <1>1, <2>1, BankGoes, FileFacts DEF PinsInv, HostInv
<1>10. CASE ~ rfsh.rfshing
  BY <1>2, <1>3, <1>4, <1>8, <1>9, <1>10, CommandIs, Order DEF PinsInv
<1>11. CASE rfsh.rfshing
  <2>1. out'.pins = RfshCmd /\ RfshCmd.op = rfsh.cmd
    BY <1>11 DEF Next, BankRegs, RfshCmd
  <2>2. bank.st = 0 /\ bank'.st = 0
    BY <1>1, <1>11, BankGoes DEF RfshInv, Idle, IDLE
  <2>3. rfsh.cmd \in {"NOP", "PRECHARGE_ALL", "REFRESH"}
    BY <1>1 DEF RfshInv, RfshRegs
  <2>4. rfsh.cmd = "REFRESH" => rfsh'.st = First + 2
    BY <1>5, <1>6, <1>7, Order DEF PinsInv
  <2> QED BY <1>2, <1>8, <1>9, <2>1, <2>2, <2>3, <2>4, Order DEF PinsInv
<1> QED BY <1>10, <1>11

(* The times of the chip, and the states between which a row is open.      *)
LEMMA ChipTimes ==
  /\ fast => /\ T!tRCD = 2 /\ T!tRAS = 4 /\ T!tRC = 6 /\ T!tRP = 2 /\ T!tRFC = 7 /\ T!tRRD = 2
             /\ Closing = 7 /\ ACT = 3 /\ READ = 5 /\ Last \in {10, 12} /\ First = 2 /\ Steps = 10
  /\ ~ fast => /\ T!tRCD = 1 /\ T!tRAS = 2 /\ T!tRC = 3 /\ T!tRP = 1 /\ T!tRFC = 4 /\ T!tRRD = 1
               /\ Closing = 4 /\ ACT = 2 /\ READ = 3 /\ Last \in {8, 10} /\ First = 1 /\ Steps = 6
BY Fast, Slow DEF T!tRCD, T!tRAS, T!tRC, T!tRP, T!tRFC, T!tRRD, Closing

(* A bank of the chip that no command opens rests on. *)
LEMMA AgeRests ==
  ASSUME NEW t, NEW b, NEW p, t.row = T!Nothing, t.auto = T!Nothing,
         p.op \in {"NOP", "PRECHARGE_ALL", "REFRESH"} \/ (p.op \in {"ACTIVE", "WRITEA"} /\ p.ba # b)
  PROVE  LET u == T!BankAge(t, b, p) IN
         /\ u.row = T!Nothing /\ u.auto = T!Nothing
         /\ u.act = T!Grow(t.act, T!tRC) /\ u.pre = T!Grow(t.pre, T!tRP)
BY DEF T!BankAge, T!SelfCloses, T!Precharges

(* A write with auto-precharge leaves it open for now. *)
LEMMA AgeWrites ==
  ASSUME NEW t, NEW b, NEW p, t.auto = T!Nothing, p.op = "WRITEA", p.ba = b
  PROVE  LET u == T!BankAge(t, b, p) IN
         /\ u.row = t.row /\ u.auto = [left |-> 1, late |-> TRUE]
         /\ u.act = T!Grow(t.act, T!tRC) /\ u.pre = T!Grow(t.pre, T!tRP)
BY DEF T!BankAge, T!SelfCloses, T!Precharges

(* Without a command it stays open until it may close by itself. *)
LEMMA AgeCloses ==
  ASSUME NEW t, NEW b, NEW p, p.op = "NOP",
         t.auto = T!Nothing \/ t.auto = [left |-> 1, late |-> TRUE]
  PROVE  LET u == T!BankAge(t, b, p)
             shuts == t.auto # T!Nothing /\ t.act >= T!tRAS
         IN /\ u.row = IF shuts THEN T!Nothing ELSE t.row
            /\ u.auto = IF shuts THEN T!Nothing ELSE t.auto
            /\ u.act = T!Grow(t.act, T!tRC)
            /\ u.pre = IF shuts THEN 0 ELSE T!Grow(t.pre, T!tRP)
<1>1. CASE t.auto = T!Nothing
  BY <1>1 DEF T!BankAge, T!SelfCloses, T!Precharges
<1>2. CASE t.auto = [left |-> 1, late |-> TRUE]
  <2>1. DOMAIN t.auto = {"left", "late"} /\ DOMAIN T!Nothing = {}
    BY <1>2 DEF T!Nothing
  <2>2. t.auto # T!Nothing
    BY <2>1
  <2>3. t.auto.left = 1 /\ t.auto.late = TRUE /\ [t.auto EXCEPT !.left = IF @ = 1 THEN 1 ELSE @ - 1] = t.auto
    BY <1>2
  <2>4. T!SelfCloses(t) <=> t.act >= T!tRAS
    BY <2>2, <2>3 DEF T!SelfCloses
  <2> QED BY <2>2, <2>3, <2>4 DEF T!BankAge, T!Precharges
<1> QED BY <1>1, <1>2

(* The banks of the chip follow the write from its ACTIVE to the precharge *)
(* that the bank makes by itself. *)
LEMMA ChipBankKept ==
  ASSUME ControlInv, Ordinary, Next, PinsInv, NEW b \in Banks, BankIs(b)
  PROVE  BankIs(b)'
<1> DEFINE t == timing.bank[b]
           u == timing'.bank[b]
<1>1. u = T!BankAge(t, b, out.pins)
  BY DEF Next, Memories, T!TimingStep
<1>2. /\ fast \in BOOLEAN /\ rfsh.st \in Nat /\ rfsh'.st \in Nat /\ bank.st \in Nat /\ bank.st < Last
      /\ bank'.st \in Nat /\ gone \in Nat /\ rfsh.st < Steps
  BY BankGoes, Order, SizeFacts, RfshMoves DEF ControlInv, HostInv, RfshInv, RfshRegs
<1>3. /\ ACT' = ACT /\ READ' = READ /\ Closing' = Closing /\ IDLE' = IDLE /\ file' = file
      /\ T!tRC' = T!tRC /\ T!tRP' = T!tRP /\ T!Nothing' = T!Nothing
  BY ClockKept DEF IDLE, Closing, T!tRC, T!tRP, T!Nothing
<1>4. bank'.st # 0 /\ bank.st >= ACT => Current' = Current
  BY <1>2, <1>3, BankGoes, Order DEF Current, Idle
<1>5. bank.st <= ACT => Current = gone
  BY <1>2, Order DEF Current
<1>6. \/ bank'.st = bank.st + 1 /\ bank.st # 0
      \/ bank'.st = 0 /\ (bank.st = 0 \/ bank.st > READ + 1)
      \/ bank.st = 0 /\ bank'.st \in {1, ACT}
  BY BankGoes DEF Idle, IDLE
<1>7. bank.st \in Nat /\ (bank.st # 0 => rfsh.st = 0 /\ rfsh'.st = 0)
  BY <1>2, RfshMoves DEF ControlInv, RfshInv, Idle, IDLE, RfshBg
<1>8. rfsh'.st = rfsh.st + 1 \/ rfsh'.st = 0 \/ (rfsh.st = Steps - 1 /\ rfsh'.st = First)
  BY <1>2, RfshMoves, Order DEF ControlInv
<1> DEFINE mine == b = BankOf(Current)
<1>9. bank'.st # 0 /\ bank.st >= ACT =>
        /\ (b = BankOf(Current))' <=> mine
        /\ RowOf(Current)' = RowOf(Current)
  BY <1>3, <1>4 DEF BankOf, RowOf, WordOf, Offset
<1>10. CASE bank.st < ACT
  <2>1. out.pins.op \in {"NOP", "PRECHARGE_ALL", "REFRESH"}
    BY <1>2, <1>10, Order DEF PinsInv
  <2>2. /\ t.row = T!Nothing /\ t.auto = T!Nothing
        /\ ~ Idle \/ bank.prechd \/ gone = file.header => t.act = T!tRC /\ t.pre = T!tRP
        /\ t.act \in Nat /\ t.pre \in Nat /\ t.pre >= Upto(rfsh.st, T!tRP)
    BY <1>2, <1>10, Order DEF BankIs
  <2>3. /\ u.row = T!Nothing /\ u.auto = T!Nothing
        /\ u.act = T!Grow(t.act, T!tRC) /\ u.pre = T!Grow(t.pre, T!tRP)
    BY <1>1, <2>1, <2>2, AgeRests
  <2>4. u.act \in Nat /\ u.pre \in Nat /\ u.pre >= Upto(rfsh'.st, T!tRP)
    BY <1>2, <1>8, <2>2, <2>3, ChipTimes DEF T!Grow, Upto
  <2>5. ~ Idle' \/ bank'.prechd \/ gone' = file.header => u.act = T!tRC /\ u.pre = T!tRP
    <3>1. ~ Idle' \/ bank'.prechd \/ gone' = file.header =>
            ~ Idle \/ bank.prechd \/ gone = file.header
      BY <1>2, <1>10, BankGoes, Order DEF Idle, IDLE
    <3> QED BY <2>2, <2>3, <3>1, ChipTimes DEF T!Grow
  <2>6. ~ (bank'.st > ACT)
    BY <1>2, <1>6, <1>10, Order
  <2> QED BY <1>3, <2>3, <2>4, <2>5, <2>6 DEF BankIs, Upto, Idle
<1>11. CASE bank.st = ACT /\ mine
  <2>1. /\ t.row = T!Nothing /\ t.auto = T!Nothing
        /\ t.act = T!tRC /\ t.pre = T!tRP
    BY <1>2, <1>11, Order DEF BankIs, Idle
  <2>2. out.pins = [op |-> "ACTIVE", ba |-> BankOf(gone), a |-> RowOf(gone)] /\ Current = gone
    BY <1>2, <1>5, <1>11, Order DEF PinsInv
  <2>3. /\ u.row = <<RowOf(gone)>> /\ u.auto = T!Nothing
        /\ u.act = 1 /\ u.pre = T!tRP
    <3>1. out.pins.op = "ACTIVE" /\ out.pins.ba = b /\ out.pins.a = RowOf(gone)
      BY <1>11, <2>2
    <3>2. T!Grow(T!tRP, T!tRP) = T!tRP
      BY ChipTimes DEF T!Grow
    <3>3. LET v == T!BankAge(t, b, out.pins) IN
          /\ v.row = <<out.pins.a>> /\ v.auto = T!Nothing
          /\ v.act = 1 /\ v.pre = T!Grow(t.pre, T!tRP)
      BY <2>1, <3>1 DEF T!BankAge, T!SelfCloses, T!Precharges
    <3> QED BY <1>1, <2>1, <3>1, <3>2, <3>3
  <2>4. bank'.st = ACT + 1 /\ bank'.st > ACT /\ bank'.st <= Closing /\ ~ (READ < bank'.st)
    BY <1>2, <1>6, <1>11, Order, ChipTimes
  <2>5. Upto(bank'.st - ACT, T!tRC) = 1
    BY <1>2, <2>4, ChipTimes, Order DEF Upto
  <2>6. (b = BankOf(Current))' /\ RowOf(Current)' = RowOf(gone)
    BY <1>9, <1>11, <2>2, <2>4, Order
  <2> QED BY <1>3, <2>3, <2>4, <2>5, <2>6 DEF BankIs, Upto
<1>12. CASE bank.st >= ACT /\ ~ mine
  <2>1. /\ t.row = T!Nothing /\ t.auto = T!Nothing
        /\ t.act = T!tRC /\ t.pre = T!tRP
    BY <1>2, <1>12, Order DEF BankIs, Idle
  <2>2. out.pins.op = "NOP" \/ (out.pins.op \in {"ACTIVE", "WRITEA"} /\ out.pins.ba # b)
    <3>1. bank.st \in {ACT, READ} => Current = gone
      BY Order DEF Current
    <3>2. bank.st \notin {IDLE, 1}
      BY <1>2, <1>12, Order
    <3> QED BY <1>12, <3>1, <3>2 DEF PinsInv
  <2>3. /\ u.row = T!Nothing /\ u.auto = T!Nothing /\ u.act = T!tRC /\ u.pre = T!tRP
    BY <1>1, <2>1, <2>2, AgeRests, ChipTimes DEF T!Grow
  <2>4. ~ (bank'.st > ACT /\ (b = BankOf(Current))')
    BY <1>9, <1>12, Order
  <2>5. T!tRC \in Nat /\ T!tRP \in Nat /\ T!tRP >= Upto(rfsh'.st, T!tRP)
    BY <1>2, ChipTimes DEF Upto
  <2> QED BY <1>3, <2>3, <2>4, <2>5 DEF BankIs, Upto, Idle
<1>13. CASE bank.st > ACT /\ mine
  <2>1. /\ t.row = IF bank.st <= Closing THEN <<RowOf(Current)>> ELSE T!Nothing
        /\ t.auto = IF READ < bank.st /\ bank.st <= Closing THEN [left |-> 1, late |-> TRUE]
                    ELSE T!Nothing
        /\ t.act = Upto(bank.st - ACT, T!tRC)
        /\ t.pre = IF bank.st <= Closing THEN T!tRP ELSE Upto(bank.st - Closing - 1, T!tRP)
    BY <1>13 DEF BankIs
  <2> DEFINE n == bank.st + 1
  <2>2. /\ u.row = IF n <= Closing THEN <<RowOf(Current)>> ELSE T!Nothing
        /\ u.auto = IF READ < n /\ n <= Closing THEN [left |-> 1, late |-> TRUE] ELSE T!Nothing
        /\ u.act = Upto(n - ACT, T!tRC)
        /\ u.pre = IF n <= Closing THEN T!tRP ELSE Upto(n - Closing - 1, T!tRP)
    <3>1. CASE bank.st = READ
      <4>1. t.auto = T!Nothing /\ out.pins.op = "WRITEA" /\ out.pins.ba = b
        <5>1. Current = gone /\ ~ (READ < bank.st)
          BY <3>1, Order DEF Current
        <5> QED BY <1>13, <2>1, <3>1, <5>1 DEF PinsInv
      <4> QED BY <1>1, <1>2, <2>1, <3>1, <4>1, AgeWrites, ChipTimes DEF T!Grow, Upto
    <3>2. CASE bank.st # READ
      <4>1. out.pins.op = "NOP"
        BY <1>2, <1>13, <3>2, Order DEF PinsInv
      <4>2. t.auto = T!Nothing \/ t.auto = [left |-> 1, late |-> TRUE]
        BY <2>1
      <4>3. t.auto # T!Nothing <=> READ < bank.st /\ bank.st <= Closing
        <5>1. [left |-> 1, late |-> TRUE] # T!Nothing
          <6>1. DOMAIN [left |-> 1, late |-> TRUE] = {"left", "late"} /\ DOMAIN T!Nothing = {}
            BY DEF T!Nothing
          <6> QED BY <6>1
        <5> QED BY <2>1, <5>1
      <4>4. t.auto # T!Nothing /\ t.act >= T!tRAS <=> bank.st = Closing
        BY <1>2, <2>1, <4>3, ChipTimes DEF Upto
      <4> QED BY <1>1, <1>2, <1>13, <2>1, <3>2, <4>1, <4>2, <4>4, AgeCloses, ChipTimes DEF T!Grow, Upto
    <3> QED BY <3>1, <3>2
  <2>3. CASE bank'.st # 0
    <3>1. bank'.st = n /\ n > ACT
      BY <1>2, <1>6, <1>13, <2>3, Order
    <3>2. (b = BankOf(Current))' /\ RowOf(Current)' = RowOf(Current)
      BY <1>2, <1>9, <1>13, <2>3, Order
    <3> HIDE DEF n
    <3> QED BY <1>3, <2>2, <3>1, <3>2 DEF BankIs, Upto
  <2>4. CASE bank'.st = 0
    <3>1. bank.st > READ + 1 /\ n > Closing /\ ~ (bank'.st > ACT)
      BY <1>2, <1>6, <1>13, <2>4, Order, ChipTimes
    <3>2. u.row = T!Nothing /\ u.auto = T!Nothing /\ u.act \in Nat /\ u.pre \in Nat
      BY <1>2, <2>2, <3>1, ChipTimes DEF Upto
    <3>3. u.pre >= Upto(rfsh'.st, T!tRP)
      BY <1>2, <1>7, <3>1, <3>2, Order, ChipTimes DEF Upto
    <3>4. Idle' /\ gone' # file.header
      BY <1>2, <1>3, <2>4, <3>1, BankGoes, Order DEF Idle, PinsInv
    <3>5. bank'.prechd => u.act = T!tRC /\ u.pre = T!tRP
      <4> SUFFICES ASSUME bank'.prechd PROVE u.act = T!tRC /\ u.pre = T!tRP
        OBVIOUS
      <4>1. bank.st = Last - 1
        BY <1>2, <2>4, <3>1, BankGoes, Order DEF Idle
      <4> QED BY <1>2, <2>2, <4>1, ChipTimes DEF Upto
    <3> QED BY <1>3, <3>1, <3>2, <3>3, <3>4, <3>5 DEF BankIs, Upto
  <2> QED BY <2>3, <2>4
<1> QED BY <1>2, <1>10, <1>11, <1>12, <1>13, Order

(* The commands the pins may hold. *)
LEMMA PinsAre ==
  ASSUME ControlInv, PinsInv
  PROVE  /\ out.pins.op \in {"NOP", "PRECHARGE_ALL", "REFRESH", "ACTIVE", "WRITEA"}
         /\ out.pins.op = "ACTIVE" <=> bank.st = ACT
         /\ out.pins.op = "WRITEA" <=> bank.st = READ
         /\ out.pins.op = "PRECHARGE_ALL" => bank.st < ACT
         /\ bank.st \in Nat /\ bank.st < Last
<1>1. bank.st \in Nat /\ bank.st < Last
  BY Order DEF ControlInv, BankInv
<1> QED BY <1>1, Order DEF PinsInv

(* Every time of the chip is kept. *)
LEMMA TimingKept ==
  ASSUME ControlInv, Ordinary, Next, PinsInv, TimingInv
  PROVE  TimingInv'
<1>1. \A b \in Banks : BankIs(b)'
  BY ChipBankKept DEF TimingInv
<1>2. /\ timing'.ref = IF out.pins.op = "REFRESH" THEN 1 ELSE T!Grow(timing.ref, T!tRFC)
      /\ timing'.rrd = IF out.pins.op = "ACTIVE" THEN 1 ELSE T!Grow(timing.rrd, T!tRRD)
  BY DEF Next, Memories, T!TimingStep
<1>3. /\ fast \in BOOLEAN /\ rfsh.st \in Nat /\ rfsh'.st \in Nat /\ rfsh.st < Steps
      /\ bank'.st \in Nat
  BY PinsAre, BankGoes, Order, SizeFacts, RfshMoves DEF ControlInv, HostInv, RfshInv, RfshRegs
<1>4. /\ ACT' = ACT /\ First' = First /\ IDLE' = IDLE
      /\ T!tRFC' = T!tRFC /\ T!tRRD' = T!tRRD
  BY ClockKept DEF IDLE, T!tRFC, T!tRRD
<1>5. \/ bank'.st = bank.st + 1 /\ bank.st # 0
      \/ bank'.st = 0 /\ (bank.st = 0 \/ bank.st > READ + 1)
      \/ bank.st = 0 /\ bank'.st \in {1, ACT} /\ rfsh.st = 0
  BY BankGoes DEF Idle, IDLE, ControlInv, RfshInv
<1>6. bank.st # 0 => rfsh.st = 0 /\ rfsh'.st = 0
  BY <1>3, RfshMoves DEF ControlInv, RfshInv, Idle, IDLE, RfshBg
<1>7. /\ rfsh.st = 0 => rfsh'.st \in {0, 1}
      /\ rfsh.st # 0 /\ rfsh.st # Steps - 1 => rfsh'.st = rfsh.st + 1
      /\ rfsh.st = Steps - 1 => rfsh'.st \in {0, First}
  BY <1>3, RfshMoves, Order DEF ControlInv
<1>8. /\ timing'.rrd \in Nat
      /\ timing'.rrd >= IF bank'.st > ACT THEN Upto(bank'.st - ACT, T!tRRD) ELSE T!tRRD
  BY <1>2, <1>3, <1>5, PinsAre, ChipTimes DEF TimingInv, T!Grow, Upto
<1>9. /\ timing'.ref \in Nat
      /\ timing'.ref >= IF rfsh'.st > First + 2 THEN rfsh'.st - First - 2
                        ELSE IF bank'.st # IDLE \/ rfsh'.st > First THEN T!tRFC ELSE T!tRFC - 1
  <2>1. out.pins.op = "REFRESH" => rfsh.st = First + 2 /\ bank.st = 0
    BY <1>3, <1>6, Order DEF PinsInv
  <2> QED BY <1>2, <1>3, <1>5, <1>6, <1>7, <2>1, PinsAre, ChipTimes DEF TimingInv, T!Grow, IDLE
<1> QED BY <1>1, <1>4, <1>8, <1>9 DEF TimingInv, Upto

-----------------------------------------------------------------------------
(* The simulator's SDRAM.                                                  *)

(* A number and its quotient and remainder. *)
LEMMA Division ==
  ASSUME NEW P \in Nat \ {0}, NEW a \in Nat
  PROVE  /\ a \div P \in Nat /\ a % P \in 0 .. P - 1
         /\ a = ((a \div P) * P) + (a % P)
OBVIOUS

(* A burst of one half-word is aligned at every address. *)
LEMMA DivisionByOne ==
  ASSUME NEW a \in Nat
  PROVE  (a \div 1) * 1 = a /\ (a + 0) % 1 = 0 /\ a % 1 = 0
OBVIOUS

(* A command on a SDRAM without a burst; a write of one half-word is over   *)
(* in its clock and closes its row. *)
LEMMA SimMoves ==
  ASSUME sim.burst = S!None, sim.mode = Mode, DOMAIN sim.row = Banks,
         out.pins.op \in {"NOP", "PRECHARGE_ALL", "REFRESH", "ACTIVE", "WRITEA"},
         out.pins.op \in {"ACTIVE", "WRITEA"} => out.pins.ba \in Banks,
         S!SimStep(out.pins, Mode, FALSE)
  PROVE  /\ sim'.burst = S!None /\ sim'.mode = Mode
         /\ out.pins.op \in {"NOP", "REFRESH"} => sim'.row = sim.row
         /\ out.pins.op = "PRECHARGE_ALL" => sim'.row = [b \in Banks |-> S!Nothing]
         /\ out.pins.op = "ACTIVE" => sim'.row = [sim.row EXCEPT ![out.pins.ba] = <<out.pins.a>>]
         /\ out.pins.op = "WRITEA" => sim'.row = [sim.row EXCEPT ![out.pins.ba] = S!Nothing]
         /\ out.pins.op # "WRITEA" => S!SimStores(out.pins) = S!Nothing
         /\ out.pins.op = "WRITEA" => S!SimStores(out.pins) = S!CellOf(S!Start(out.pins))
<1> DEFINE c == S!AfterCommand(out.pins)
           w == S!AfterWrite(c)
           s == S!AfterRead(w)
           now == S!Stage(sim.row, sim.burst)
<1>1. sim'.row = s.row /\ sim'.burst = s.burst /\ sim'.mode = sim.mode
  BY DEF S!SimStep
<1>2. S!SimStores(out.pins) = IF S!Does(c, "WRITE") THEN S!CellOf(c.burst) ELSE S!Nothing
  BY DEF S!SimStores
<1>3. now.burst = S!None /\ now.row = sim.row
  BY DEF S!Stage
<1>4. CASE out.pins.op # "WRITEA"
  <2>1. /\ c.burst = S!None
        /\ out.pins.op \in {"NOP", "REFRESH"} => c.row = sim.row
        /\ out.pins.op = "PRECHARGE_ALL" => c.row = [b \in Banks |-> S!Nothing]
        /\ out.pins.op = "ACTIVE" => c.row = [sim.row EXCEPT ![out.pins.ba] = <<out.pins.a>>]
    <3>1. CASE out.pins.op \in {"NOP", "REFRESH"}
      BY <1>3, <3>1 DEF S!AfterCommand, S!Reads, S!Writes
    <3>2. CASE out.pins.op = "PRECHARGE_ALL"
      BY <3>2 DEF S!AfterCommand, S!Reads, S!Writes, S!Stage
    <3>3. CASE out.pins.op = "ACTIVE"
      BY <1>3, <3>3 DEF S!AfterCommand, S!Reads, S!Writes, S!Stage, S!Cut
    <3> QED BY <1>4, <3>1, <3>2, <3>3
  <2>2. w = c /\ s = c /\ ~ S!Does(c, "WRITE")
    BY <2>1 DEF S!AfterWrite, S!AfterRead, S!Does
  <2> QED BY <1>1, <1>2, <1>4, <2>1, <2>2
<1>5. CASE out.pins.op = "WRITEA"
  <2>1. c = S!Stage(S!Terminate(now).row, S!Start(out.pins))
    BY <1>5 DEF S!AfterCommand, S!Reads, S!Writes
  <2>2. S!Terminate(now).row = sim.row
    BY <1>3 DEF S!Terminate, S!Stage
  <2>3. c.row = sim.row /\ c.burst = S!Start(out.pins)
    BY <2>1, <2>2 DEF S!Stage
  <2>4. /\ c.burst.kind = "WRITE" /\ c.burst.ba = out.pins.ba /\ c.burst.beat = 0 /\ c.burst.len = 1
        /\ ~ c.burst.full /\ c.burst.auto
        /\ c.burst # S!None
    <3>1. S!Start(out.pins).kind = "WRITE" /\ S!None.kind = "NONE"
      BY <1>5 DEF S!Start, S!Reads, S!None
    <3>2. sim.mode.single /\ ~ sim.mode.full /\ S!Writes(out.pins) /\ S!Auto(out.pins)
      BY <1>5 DEF S!Writes, S!Auto, Mode
    <3>3. /\ S!Start(out.pins).ba = out.pins.ba /\ S!Start(out.pins).beat = 0 /\ S!Start(out.pins).len = 1
          /\ ~ S!Start(out.pins).full /\ S!Start(out.pins).auto
      BY <3>2 DEF S!Start
    <3> QED BY <2>3, <3>1, <3>3
  <2>5. S!Does(c, "WRITE")
    BY <2>4 DEF S!Does
  <2>6. w = S!Terminate(c)
    BY <2>4, <2>5 DEF S!AfterWrite, S!Beat
  <2>7. w.burst = S!None /\ w.row = [sim.row EXCEPT ![out.pins.ba] = S!Nothing]
    BY <2>3, <2>4, <2>6 DEF S!Terminate, S!Stage, S!Close
  <2>8. s = w
    BY <2>7 DEF S!AfterRead, S!Does
  <2> QED BY <1>1, <1>2, <1>5, <2>3, <2>5, <2>7, <2>8
<1> QED BY <1>4, <1>5

(* Its rows follow the write. *)
LEMMA SimKept ==
  ASSUME ControlInv, Ordinary, Next, PinsInv, SimInv
  PROVE  SimInv'
<1> DEFINE rows(n, k) == [b \in Banks |-> IF n \in ACT + 1 .. READ /\ b = BankOf(k)
                                          THEN <<RowOf(k)>> ELSE S!Nothing]
<1>1. S!SimStep(out.pins, Mode, FALSE)
  BY DEF Next, Memories
<1>2. \A k : BankOf(k) \in Banks
  BY DownloadAssumption DEF BankOf
<1>3. out.pins.op \in {"ACTIVE", "WRITEA"} => out.pins.ba = BankOf(gone)
  BY PinsAre DEF PinsInv
<1>4. sim.burst = S!None /\ sim.mode = Mode /\ sim.row = rows(bank.st, gone) /\ DOMAIN sim.row = Banks
  BY DEF SimInv
<1>5. /\ sim'.burst = S!None /\ sim'.mode = Mode
      /\ out.pins.op \in {"NOP", "REFRESH"} => sim'.row = sim.row
      /\ out.pins.op = "PRECHARGE_ALL" => sim'.row = [b \in Banks |-> S!Nothing]
      /\ out.pins.op = "ACTIVE" => sim'.row = [sim.row EXCEPT ![out.pins.ba] = <<out.pins.a>>]
      /\ out.pins.op = "WRITEA" => sim'.row = [sim.row EXCEPT ![out.pins.ba] = S!Nothing]
  <2>1. out.pins.op \in {"NOP", "PRECHARGE_ALL", "REFRESH", "ACTIVE", "WRITEA"}
    BY PinsAre
  <2>2. out.pins.op \in {"ACTIVE", "WRITEA"} => out.pins.ba \in Banks
    BY <1>2, <1>3
  <2>3. sim.burst = S!None /\ sim.mode = Mode /\ DOMAIN sim.row = Banks
    BY <1>4
  <2> HIDE DEF rows
  <2> QED BY <1>1, <2>1, <2>2, <2>3, SimMoves
<1>6. sim'.row = rows(bank'.st, gone')
  <2>1. CASE bank.st < ACT
    <3>1. /\ ~ (bank.st \in ACT + 1 .. READ) /\ ~ (bank'.st \in ACT + 1 .. READ)
          /\ out.pins.op \in {"NOP", "REFRESH", "PRECHARGE_ALL"}
      BY <2>1, PinsAre, BankGoes, Order DEF Idle
    <3> QED BY <1>4, <1>5, <3>1
  <2>2. CASE bank.st = ACT
    <3>1. /\ ~ (bank.st \in ACT + 1 .. READ) /\ bank'.st \in ACT + 1 .. READ /\ gone' = gone
          /\ out.pins = [op |-> "ACTIVE", ba |-> BankOf(gone), a |-> RowOf(gone)]
      BY <2>2, BankGoes, Order DEF Idle, PinsInv
    <3>2. sim'.row = [sim.row EXCEPT ![BankOf(gone)] = <<RowOf(gone)>>]
      BY <1>5, <3>1
    <3> QED BY <1>2, <1>4, <3>1, <3>2
  <2>3. CASE bank.st > ACT /\ bank.st < READ
    <3>1. /\ bank.st \in ACT + 1 .. READ /\ bank'.st \in ACT + 1 .. READ /\ gone' = gone
          /\ out.pins.op \in {"NOP", "REFRESH"}
      BY <2>3, PinsAre, BankGoes, Order DEF Idle
    <3> QED BY <1>4, <1>5, <3>1
  <2>4. CASE bank.st = READ
    <3>1. /\ ~ (bank'.st \in ACT + 1 .. READ)
          /\ out.pins.op = "WRITEA" /\ out.pins.ba = BankOf(gone)
      BY <1>3, <2>4, PinsAre, BankGoes, Order DEF Idle
    <3>2. sim'.row = [sim.row EXCEPT ![BankOf(gone)] = S!Nothing]
      BY <1>5, <3>1
    <3> QED BY <1>2, <1>4, <3>1, <3>2
  <2>5. CASE bank.st > READ
    <3>1. /\ ~ (bank.st \in ACT + 1 .. READ) /\ ~ (bank'.st \in ACT + 1 .. READ)
          /\ out.pins.op \in {"NOP", "REFRESH"}
      BY <2>5, PinsAre, BankGoes, Order DEF Idle
    <3> QED BY <1>4, <1>5, <3>1
  <2> QED BY <2>1, <2>2, <2>3, <2>4, <2>5, PinsAre, Order
<1>7. ACT' = ACT /\ READ' = READ /\ file' = file /\ S!None' = S!None /\ Mode' = Mode /\ S!Nothing' = S!Nothing
  BY ClockKept DEF S!None, Mode, S!Nothing
<1> QED BY <1>5, <1>6, <1>7 DEF SimInv, BankOf, RowOf, WordOf, Offset

-----------------------------------------------------------------------------
(* The rules of the chip hold. *)
LEMMA ChipLegal ==
  ASSUME ControlInv, ChipInv
  PROVE  ChipRules
<1>1. /\ PinsInv /\ TimingInv /\ SimInv
      /\ fast \in BOOLEAN /\ rfsh.st \in Nat /\ gone \in Nat /\ file.header \in Nat /\ file.ba1 \in Nat
      /\ file.header <= gone
      /\ rfsh.rfshing <=> rfsh.st # 0
      /\ rfsh.rfshing => Idle
  BY FileFacts, Order DEF ChipInv, ControlInv, HostInv, RfshInv, RfshRegs, DwnInv
<1>2. \A b \in Banks : BankIs(b)
  BY <1>1 DEF TimingInv
<1>3. BankOf(gone) \in Banks /\ (bank.st \in {ACT, READ} => Current = gone)
  BY DownloadAssumption, Order DEF BankOf, Current
<1>4. \A b \in Banks : bank.st <= ACT =>
        /\ timing.bank[b].row = T!Nothing
        /\ bank.st # 0 => timing.bank[b].act = T!tRC /\ timing.bank[b].pre = T!tRP
        /\ timing.bank[b].pre >= Upto(rfsh.st, T!tRP)
  <2> SUFFICES ASSUME NEW b \in Banks, bank.st <= ACT
               PROVE  /\ timing.bank[b].row = T!Nothing
                      /\ bank.st # 0 => timing.bank[b].act = T!tRC /\ timing.bank[b].pre = T!tRP
                      /\ timing.bank[b].pre >= Upto(rfsh.st, T!tRP)
    OBVIOUS
  <2>1. ~ (bank.st > ACT)
    BY <1>1, PinsAre, Order
  <2> QED BY <1>2, <2>1 DEF BankIs, Idle, IDLE
<1>5. CASE out.pins.op = "ACTIVE"
  <2>1. bank.st = ACT /\ out.pins = [op |-> "ACTIVE", ba |-> BankOf(gone), a |-> RowOf(gone)]
        /\ bank.st # 0 /\ rfsh.st = 0
    BY <1>1, <1>5, PinsAre, Order DEF PinsInv, Idle
  <2>2. T!MayActivate(out.pins)
    <3>1. /\ timing.bank[out.pins.ba].row = T!Nothing
          /\ timing.bank[out.pins.ba].act = T!tRC /\ timing.bank[out.pins.ba].pre = T!tRP
      BY <1>3, <1>4, <2>1, Order
    <3>2. timing.rrd >= T!tRRD /\ timing.ref >= T!tRFC
      BY <1>1, <2>1, Order DEF TimingInv, IDLE
    <3> QED BY <3>1, <3>2, ChipTimes DEF T!MayActivate
  <2>3. T!Legal(out.pins)
    BY <1>5, <2>2 DEF T!Legal, T!Reads, T!Writes
  <2>4. sim.row[out.pins.ba] = S!Nothing
    BY <1>1, <1>3, <2>1, Order DEF SimInv
  <2> QED BY <1>5, <2>3, <2>4 DEF ChipRules, S!Throws, S!Reads, S!Writes
<1>6. CASE out.pins.op = "WRITEA"
  <2>1. bank.st = READ /\ out.pins = [op |-> "WRITEA", ba |-> BankOf(gone), a |-> WordOf(gone)]
        /\ bank.st > ACT /\ Current = gone /\ bank.st <= Closing /\ ~ (READ < bank.st)
    BY <1>1, <1>3, <1>6, PinsAre, Order, ChipTimes DEF PinsInv
  <2>2. T!MayTransfer(out.pins)
    <3>1. BankIs(BankOf(gone))
      BY <1>2, <1>3
    <3>2. /\ timing.bank[out.pins.ba].row = <<RowOf(gone)>>
          /\ timing.bank[out.pins.ba].auto = T!Nothing
          /\ timing.bank[out.pins.ba].act = Upto(bank.st - ACT, T!tRC)
      BY <2>1, <3>1 DEF BankIs
    <3>3. Upto(bank.st - ACT, T!tRC) >= T!tRCD
      BY <1>1, <2>1, ChipTimes DEF Upto
    <3>4. RowOf(gone) = out.pins.a \div Page
      BY <2>1 DEF RowOf
    <3> QED BY <3>2, <3>3, <3>4 DEF T!MayTransfer
  <2>3. T!Legal(out.pins)
    BY <1>6, <2>2 DEF T!Legal, T!Reads, T!Writes
  <2>4. sim.row[out.pins.ba] = <<RowOf(gone)>>
    BY <1>1, <1>3, <2>1, Order DEF SimInv
  <2>5. <<RowOf(gone)>> # S!Nothing
    BY DEF S!Nothing
  <2> QED BY <1>6, <2>3, <2>4, <2>5 DEF ChipRules, S!Throws, S!Reads, S!Writes
<1>7. CASE out.pins.op = "PRECHARGE_ALL"
  <2>1. bank.st <= ACT
    BY <1>7, <1>1, PinsAre, Order
  <2>2. T!MayPrecharge(out.pins)
    BY <1>4, <2>1 DEF T!MayPrecharge
  <2> QED BY <1>7, <2>2 DEF ChipRules, T!Legal, T!Reads, T!Writes, S!Throws, S!Reads, S!Writes
<1>8. CASE out.pins.op = "REFRESH"
  <2>1. rfsh.st = First + 2 /\ bank.st = 0 /\ bank.st <= ACT
    BY <1>1, <1>8, Order DEF PinsInv, Idle
  <2>2. T!MayRefresh
    <3>1. timing.ref >= T!tRFC
      BY <1>1, <2>1, ChipTimes DEF TimingInv
    <3>2. Upto(rfsh.st, T!tRP) = T!tRP
      BY <1>1, <2>1, ChipTimes DEF Upto
    <3> QED BY <1>4, <2>1, <3>1, <3>2 DEF T!MayRefresh
  <2>3. ~ S!AnyActive /\ sim.burst = S!None
    BY <1>1, <2>1, Order DEF S!AnyActive, SimInv
  <2> QED BY <1>8, <2>2, <2>3 DEF ChipRules, T!Legal, T!Reads, T!Writes, S!Throws, S!Reads, S!Writes
<1>9. CASE out.pins.op = "NOP"
  BY <1>9 DEF ChipRules, T!Legal, T!Reads, T!Writes, S!Throws, S!Reads, S!Writes
<1> QED BY <1>1, <1>5, <1>6, <1>7, <1>8, <1>9, PinsAre

(* The chip is at rest when the download begins. *)
LEMMA ChipInit ==
  ASSUME Init
  PROVE  ChipInv
<1>1. /\ rfsh.cmd = "NOP" /\ rfsh.st = 0 /\ bank.st = 0 /\ ~ bank.prechd /\ gone = file.header
      /\ out.pins = Nop
      /\ timing = [bank |-> [b \in Banks |-> T!Rested], ref |-> T!tRFC, prev |-> T!Nothing,
                   rrd |-> T!tRRD]
      /\ sim = [row |-> [b \in Banks |-> S!Nothing], burst |-> S!None, mode |-> Mode,
                dqm |-> <<FALSE, FALSE>>]
      /\ fast \in BOOLEAN
  BY RefreshAssumption DEF Init, RfshInit, BankReset, IDLE, T!TimingInit, S!SimInit
<1>2. PinsInv
  BY <1>1, Order DEF PinsInv, Nop
<1>3. TimingInv
  <2>1. \A b \in Banks : BankIs(b)
    BY <1>1, ChipTimes, Order DEF BankIs, Upto, T!Rested
  <2> QED BY <1>1, <2>1, ChipTimes DEF TimingInv, IDLE
<1>4. SimInv
  BY <1>1, Order DEF SimInv
<1> QED BY <1>2, <1>3, <1>4 DEF ChipInv

(* The chip's invariant between clocks. *)
LEMMA ChipStutters ==
  ASSUME ChipInv, UNCHANGED vars
  PROVE  ChipInv'
<1>1. UNCHANGED <<fast, file, bank, gone, out, rfsh, sim, timing>>
  BY DEF vars
<1>2. PinsInv'
  BY <1>1 DEF ChipInv, PinsInv, First, ACT, READ, PRE_ACT, PRE_RD, BankOf, RowOf, WordOf, HalfOf, Offset
<1>3. TimingInv'
  <2>1. \A b \in Banks : BankIs(b)'
    BY <1>1 DEF ChipInv, TimingInv, BankIs, Current, Closing, ACT, READ, PRE_ACT, PRE_RD, BankOf, RowOf,
                WordOf, Offset, Idle, T!tRC, T!tRP
  <2> QED BY <1>1, <2>1 DEF ChipInv, TimingInv, First, ACT, PRE_ACT, T!tRRD, T!tRFC
<1>4. SimInv'
  BY <1>1 DEF ChipInv, SimInv, ACT, READ, PRE_ACT, PRE_RD, BankOf, RowOf, WordOf, Offset
<1> QED BY <1>2, <1>3, <1>4 DEF ChipInv

(* The rows and the times of the chip are known throughout. *)
THEOREM ChipHolds == Spec /\ Ordinary => [](FullPace => ControlInv /\ ChipInv)
<1>1. Init => ChipInv
  BY ChipInit
<1>2. ControlInv /\ Ordinary /\ ChipInv /\ [Next]_vars => ChipInv'
  <2> SUFFICES ASSUME ControlInv, Ordinary, ChipInv, [Next]_vars PROVE ChipInv'
    OBVIOUS
  <2>1. CASE Next
    BY <2>1, PinsKept, TimingKept, SimKept DEF ChipInv
  <2>2. CASE UNCHANGED vars
    BY <2>2, ChipStutters
  <2> QED BY <2>1, <2>2
<1>3. (FullPace => ControlInv) /\ Ordinary /\ (FullPace => ChipInv) /\ [Next]_vars => (FullPace => ChipInv)'
  <2>1. [Next]_vars => (FullPace' <=> FullPace)
    BY DEF FullPace, vars, Next
  <2> QED BY <1>2, <2>1
<1>4. Ordinary => Ordinary'
  BY DEF Ordinary
<1> QED BY <1>1, <1>3, <1>4, ControlHolds, PTL DEF Spec

(* Every command on the pins keeps the rules and the times of the chip.    *)
THEOREM DownloadLegal == Spec /\ Ordinary => [](FullPace => ChipRules)
BY ChipHolds, ChipLegal, PTL

-----------------------------------------------------------------------------
(* The bytes in their places.                                              *)

(* The cell that the bank's write stores in. *)
LEMMA StoresIs ==
  ASSUME ControlInv, ChipInv, Next
  PROVE  /\ bank.st = READ => S!SimStores(out.pins) = <<BankOf(gone), WordOf(gone)>>
         /\ bank.st # READ => S!SimStores(out.pins) = S!Nothing
<1>1. /\ PinsInv /\ SimInv /\ gone \in Nat /\ file.header \in Nat /\ file.ba1 \in Nat
      /\ file.header <= gone /\ S!SimStep(out.pins, Mode, FALSE)
  BY FileFacts DEF ChipInv, ControlInv, HostInv, DwnInv, Next, Memories
<1>2. BankOf(gone) \in Banks
  BY DownloadAssumption DEF BankOf
<1>3. /\ out.pins.op \in {"NOP", "PRECHARGE_ALL", "REFRESH", "ACTIVE", "WRITEA"}
      /\ out.pins.op = "ACTIVE" <=> bank.st = ACT
      /\ out.pins.op = "WRITEA" <=> bank.st = READ
  BY <1>1, PinsAre
<1>4. out.pins.op \in {"ACTIVE", "WRITEA"} => out.pins.ba \in Banks
  BY <1>1, <1>2, <1>3 DEF PinsInv
<1>5. /\ out.pins.op # "WRITEA" => S!SimStores(out.pins) = S!Nothing
      /\ out.pins.op = "WRITEA" => S!SimStores(out.pins) = S!CellOf(S!Start(out.pins))
  BY <1>1, <1>3, <1>4, SimMoves DEF SimInv
<1>6. CASE bank.st = READ
  <2>1. out.pins = [op |-> "WRITEA", ba |-> BankOf(gone), a |-> WordOf(gone)]
    BY <1>1, <1>6 DEF PinsInv
  <2>2. /\ WordOf(gone) \in Nat /\ Page \in Nat \ {0}
    <3>1. Offset(gone) \in Nat
      BY <1>1 DEF Offset, BankOf
    <3> QED BY <3>1, DownloadAssumption DEF WordOf
  <2>3. sim.row[BankOf(gone)] = <<RowOf(gone)>>
    BY <1>1, <1>2, <1>6, Order DEF SimInv
  <2>4. <<RowOf(gone)>> # S!Nothing /\ <<RowOf(gone)>>[1] = RowOf(gone)
    BY DEF S!Nothing
  <2>5. S!RowOf(BankOf(gone)) = RowOf(gone)
    BY <2>3, <2>4 DEF S!RowOf
  <2> DEFINE d == S!Start(out.pins)
             col == WordOf(gone) % Page
  <2>6. d.ba = BankOf(gone) /\ d.row = RowOf(gone) /\ d.col = col /\ d.beat = 0 /\ d.len = 1
    BY <1>1, <2>1, <2>5 DEF S!Start, S!Writes, S!Reads, Mode, SimInv
  <2>7. col \in Nat /\ RowOf(gone) \in Nat /\ RowOf(gone) * Page + col = WordOf(gone)
    <3>1. \A P \in Nat \ {0} : \A n \in Nat :
            n \div P \in Nat /\ n % P \in Nat /\ ((n \div P) * P) + (n % P) = n
      BY Division
    <3>2. /\ WordOf(gone) \div Page \in Nat /\ WordOf(gone) % Page \in Nat
          /\ ((WordOf(gone) \div Page) * Page) + (WordOf(gone) % Page) = WordOf(gone)
      BY <2>2, <3>1
    <3> QED BY <3>2 DEF RowOf
  <2>8. (col \div 1) * 1 = col /\ (col + 0) % 1 = 0
    BY <2>7, DivisionByOne
  <2>9. RowOf(gone) * Page \in Nat
    BY <2>2, <2>7
  <2> HIDE DEF d, col
  <2>10. S!CellOf(d) = <<BankOf(gone), WordOf(gone)>>
    <3>1. S!CellOf(d) = <<BankOf(gone), RowOf(gone) * Page + ((col \div 1) * 1) + ((col + 0) % 1)>>
      BY <2>6 DEF S!CellOf
    <3>2. RowOf(gone) * Page + ((col \div 1) * 1) + ((col + 0) % 1) = WordOf(gone)
      BY <2>7, <2>8, <2>9
    <3> QED BY <3>1, <3>2
  <2> QED BY <1>3, <1>5, <1>6, <2>10 DEF d
<1> QED BY <1>3, <1>5, <1>6

(* Each write puts its byte where it belongs. *)
LEMMA MemKept ==
  ASSUME ControlInv, ChipInv, Ordinary, Next, mem = {Entry(k) : k \in file.header .. Written - 1}
  PROVE  (mem = {Entry(k) : k \in file.header .. Written - 1})'
<1>1. /\ gone \in Nat /\ file.header \in Nat /\ file.header <= gone /\ PinsInv
      /\ file' = file /\ READ' = READ
  BY FileFacts, ClockKept DEF ChipInv, ControlInv, HostInv, DwnInv
<1>2. mem' = IF Stores THEN mem \cup {<<S!SimStores(out.pins), out.mask, out.din>>} ELSE mem
  BY DEF Next, Memories
<1>3. \A k : Entry(k)' = Entry(k)
  BY <1>1 DEF Entry, BankOf, WordOf, HalfOf, Offset
<1>4. CASE bank.st = READ
  <2>1. Written = gone /\ Written' = gone + 1
    BY <1>1, <1>4, BankGoes, Order DEF Written, Idle
  <2>2. <<BankOf(gone), WordOf(gone)>> # S!Nothing
    BY DEF S!Nothing
  <2>3. mem' = mem \cup {Entry(gone)}
    BY <1>1, <1>2, <1>4, <2>2, StoresIs DEF Stores, PinsInv, Entry
  <2>4. file.header .. gone + 1 - 1 = (file.header .. gone - 1) \cup {gone}
    BY <1>1
  <2> QED BY <1>1, <1>3, <2>1, <2>3, <2>4
<1>5. CASE bank.st # READ
  <2>1. mem' = mem
    BY <1>2, <1>5, StoresIs DEF Stores
  <2>2. Written' = Written
    BY <1>1, <1>5, BankGoes, Order DEF Written, Idle
  <2> QED BY <1>1, <1>3, <2>1, <2>2
<1> QED BY <1>4, <1>5

(* What the host has behind it grows by the byte that is seen, or jumps to *)
(* the PROMs' bytes. *)
LEMMA PastMoves ==
  ASSUME HostInv, Next
  PROVE  /\ Past \in Nat
         /\ host.tick = 3 => Past = host.addr /\ Past' = host.addr + 1
         /\ host.tick # 3 => Past' = Past \/ (Past <= file.prom /\ Past' = file.prom)
<1>1. /\ pace \in {16, 32} /\ host.tick \in Nat /\ host.tick < pace /\ file \in Files
      /\ host.addr \in -1 .. Length /\ Length \in Nat /\ full \in BOOLEAN
      /\ file.prom \in Nat /\ FirstLen \in Nat
      /\ host.done => host.tick = 2 /\ host.addr = Length
      /\ ~ host.done /\ host.tick # 0 => host.addr >= 0
  BY FileFacts DEF HostInv, HostRegs
<1>2. Past \in Nat
  BY <1>1 DEF Past
<1>3. CASE host.done
  BY <1>1, <1>2, <1>3, HostOver DEF Past
<1>4. CASE ~ host.done /\ host.tick = 0
  <2>1. /\ host'.tick = 1
        /\ host'.addr = IF Jumps /\ host.addr + 1 = FirstLen THEN file.prom ELSE host.addr + 1
    BY <1>4, HostMoves
  <2>2. Jumps => FirstLen < file.prom
    BY <1>1, EndFacts
  <2> QED BY <1>1, <1>2, <1>4, <2>1, <2>2 DEF Past
<1>5. CASE ~ host.done /\ host.tick = 1
  <2>1. host'.tick = 2 /\ host'.addr = host.addr
    BY <1>5, HostWrites
  <2> QED BY <1>2, <1>5, <2>1 DEF Past
<1>6. CASE ~ host.done /\ host.tick > 1
  <2>1. /\ host'.tick = IF host.tick = pace - 1 THEN 0 ELSE host.tick + 1
        /\ host'.addr = host.addr
    BY <1>6, HostWaits
  <2> QED BY <1>1, <1>2, <1>6, <2>1 DEF Past
<1> QED BY <1>1, <1>3, <1>4, <1>5, <1>6

(* The PROMs take each of their bytes. *)
LEMMA PromKept ==
  ASSUME ControlInv, Ordinary, Next,
         prom \cup (IF dwn.prom THEN {dwn.prog} ELSE {}) = {k \in file.prom .. RomLen - 1 : k < Past}
  PROVE  (prom \cup (IF dwn.prom THEN {dwn.prog} ELSE {}) = {k \in file.prom .. RomLen - 1 : k < Past})'
<1>1. /\ HostInv /\ DwnInv /\ BankInv /\ RfshInv /\ TimeInv
      /\ file' = file /\ RomLen' = RomLen
      /\ file.prom \in Nat /\ RomLen \in Nat /\ file.nvram = RomLen /\ file.len \in Nat
      /\ file.nvram <= file.len /\ Past \in Nat /\ Past' \in Nat
  <2>1. HostInv /\ file \in Files
    BY DEF ControlInv, HostInv
  <2>2. Past' \in Nat
    BY <2>1, PastMoves, FileFacts DEF HostInv
  <2> QED BY <2>1, <2>2, FileFacts, ClockKept, PastMoves DEF ControlInv, RomLen
<1>2. /\ DwnType /\ HostLine \in Lines /\ out.ack \in BOOLEAN /\ (out.ack => dwn.we)
      /\ (dwn.pendwe => dwn.we) /\ DwnStep(HostLine, out.ack)
  BY <1>1, Respected, WriteMoves DEF DwnInv, Exact, QStep
<1>3. /\ ForSdramNow => ~ dwn'.prom
      /\ ForPromNow => dwn'.prom /\ dwn'.prog = dwn.seen.byte
      /\ ~ Taken => (dwn'.prom => dwn.prom /\ dwn'.prog = dwn.prog)
      /\ Taken <=> ForSdramNow \/ ForPromNow
  BY <1>2, Flags
<1>4. prom' = {k \in file.prom .. RomLen - 1 : k < Past}
  BY DEF Next, Memories
<1>5. CASE ForPromNow
  <2>1. /\ host.tick = 3 /\ host.rom /\ ~ host.done /\ host.addr \in Nat /\ host.addr < Length
        /\ dwn.seen.byte = host.addr /\ KindOf(host.addr) = "prom"
    BY <1>1, <1>5, SeenFacts DEF ForPromNow
  <2>2. host.addr >= file.prom
    BY <1>1, <2>1 DEF KindOf
  <2>3. host.addr < RomLen
    <3>1. host.rom => host.addr < file.nvram \/ file.nvram = file.len
      BY <1>1, <2>1 DEF HostInv
    <3>2. Length <= file.len
      BY <1>1, FileFacts DEF HostInv, Length, FirstLen, RomLen, HasTail
    <3>3. Length \in Nat
      BY <1>1, FileFacts DEF HostInv
    <3> QED BY <1>1, <2>1, <3>1, <3>2, <3>3
  <2>4. Past = host.addr /\ Past' = host.addr + 1
    BY <1>1, <2>1, PastMoves
  <2>5. {k \in file.prom .. RomLen - 1 : k < Past'} = {k \in file.prom .. RomLen - 1 : k < Past} \cup {host.addr}
    BY <1>1, <2>1, <2>2, <2>3, <2>4
  <2> QED BY <1>1, <1>3, <1>4, <1>5, <2>1, <2>5
<1>6. CASE ~ ForPromNow
  <2>1. {k \in file.prom .. RomLen - 1 : k < Past'} = {k \in file.prom .. RomLen - 1 : k < Past}
    <3>1. CASE host.tick # 3
      BY <1>1, <3>1, PastMoves
    <3>2. CASE host.tick = 3
      <4>1. Past = host.addr /\ Past' = host.addr + 1 /\ host.addr \in Nat /\ ~ host.done
        BY <1>1, <3>2, PastMoves, SeenFacts
      <4>2. host.addr < file.prom \/ host.addr >= RomLen
        <5> SUFFICES ASSUME host.addr >= file.prom, host.addr < RomLen PROVE FALSE
          BY <1>1, <4>1
        <5>1. host.rom
          BY <1>1, <4>1 DEF HostInv
        <5>2. ~ (host.addr < file.header) /\ KindOf(host.addr) = "prom"
          BY <1>1, <4>1, FileFacts DEF KindOf, HostInv
        <5> QED BY <1>1, <1>6, <3>2, <5>1, <5>2, SeenFacts DEF ForPromNow
      <4> QED BY <1>1, <4>1, <4>2
    <3> QED BY <3>1, <3>2
  <2>2. dwn'.prom => dwn'.prog \in prom'
    <3>1. dwn'.prom => dwn.prom /\ dwn'.prog = dwn.prog
      BY <1>3, <1>6
    <3> QED BY <3>1 DEF Next, Memories
  <2> QED BY <1>1, <1>4, <2>1, <2>2
<1> QED BY <1>5, <1>6

(* The bytes that go to the SDRAM are those from the header to their end, *)
(* and the PROMs' are sent without a gap. *)
LEMMA PlacesAre ==
  ASSUME file \in Files, full \in BOOLEAN
  PROVE  /\ ForSdram = file.header .. SdramEnd - 1
         /\ ForProms = {k \in file.prom .. RomLen - 1 : k < Length}
<1>1. /\ SdramEnd \in Nat /\ file.header \in Nat /\ file.header <= SdramEnd /\ SdramEnd <= file.prom
      /\ SdramEnd <= Length /\ Length \in Nat /\ file.prom \in Nat /\ FirstLen \in Nat /\ RomLen \in Nat
      /\ Jumps => SdramEnd = FirstLen /\ FirstLen < file.prom
      /\ ~ Jumps => SdramEnd = file.prom \/ SdramEnd = Length
      /\ file.header <= file.prom
  BY FileFacts, EndFacts
<1>2. \A k \in Nat : KindOf(k) = "sdram" <=> file.header <= k /\ k < file.prom
  BY <1>1 DEF KindOf
<1>3. \A k \in Nat : KindOf(k) = "prom" <=> file.prom <= k
  BY <1>1 DEF KindOf
<1>4. ForSdram = file.header .. SdramEnd - 1
  <2>1. \A k : k \in ForSdram <=> k \in Nat /\ k < Length /\ (Jumps => k < FirstLen \/ k >= file.prom)
                                  /\ file.header <= k /\ k < file.prom
    BY <1>1, <1>2 DEF ForSdram, Sent
  <2>2. \A k : k \in file.header .. SdramEnd - 1 <=> k \in Nat /\ file.header <= k /\ k < SdramEnd
    BY <1>1
  <2>3. \A k \in Nat : k < SdramEnd <=> k < Length /\ k < file.prom /\ (Jumps => k < FirstLen)
    BY <1>1
  <2>4. \A k \in Nat : k < file.prom => ((k < FirstLen \/ k >= file.prom) <=> k < FirstLen)
    BY <1>1
  <2> QED BY <2>1, <2>2, <2>3, <2>4
<1>5. ForProms = {k \in file.prom .. RomLen - 1 : k < Length}
  <2>1. \A k : k \in ForProms <=> k \in Nat /\ k < Length /\ (Jumps => k < FirstLen \/ k >= file.prom)
                                  /\ file.prom <= k /\ k < RomLen
    BY <1>1, <1>3 DEF ForProms, Sent
  <2>2. \A k : k \in file.prom .. RomLen - 1 <=> k \in Nat /\ file.prom <= k /\ k < RomLen
    BY <1>1
  <2>3. \A k \in Nat : file.prom <= k => (k < FirstLen \/ k >= file.prom)
    BY <1>1
  <2> QED BY <2>1, <2>2, <2>3
<1> QED BY <1>4, <1>5

(* When the host is done, the last write has been made. *)
LEMMA PlacedAtEnd ==
  ASSUME ControlInv, Ordinary, host.done, mem = {Entry(k) : k \in file.header .. Written - 1}
  PROVE  Placed
<1>1. /\ HostInv /\ DwnInv /\ BankInv /\ TimeInv /\ file \in Files /\ full \in BOOLEAN
      /\ fast \in BOOLEAN
  BY DEF ControlInv, HostInv
<1>2. /\ SdramEnd \in Nat /\ file.header \in Nat /\ file.header <= SdramEnd
      /\ SdramEnd <= Length /\ Length \in Nat /\ SdramEnd # file.header + 1
  BY <1>1, FileFacts, EndFacts
<1>3. came = SdramEnd /\ Age = pace - 2 /\ pace \in {16, 32}
  <2>1. host.tick = 2 /\ host.addr = Length /\ came = From(host.addr) /\ pace \in {16, 32}
    BY <1>1 DEF HostInv
  <2> QED BY <1>2, <2>1 DEF From, Age
<1>4. Written = came
  <2>1. gone \in Nat /\ bank.st \in Nat /\ bank.st < Last
    BY <1>1, Order DEF DwnInv, BankInv
  <2>2. CASE ~ dwn.we
    <3>1. bank.st # READ + 1
      BY <1>1, <2>2, Order DEF BankInv
    <3> QED BY <1>1, <2>2, <3>1 DEF Written, DwnInv, Exact
  <2>3. CASE dwn.we
    <3>1. ~ dwn.pendwe /\ came = gone + 1 /\ gone # file.header
      <4>1. ~ dwn.pendwe
        BY <1>1, <1>3 DEF TimeInv
      <4> QED BY <1>1, <1>2, <1>3, <2>1, <2>3, <4>1 DEF DwnInv, Exact
    <3>2. Bound = (IF fast THEN 13 ELSE 7) /\ ToRead \in Int /\ ToRead >= 0
      <4>1. rfsh.st \in Nat /\ rfsh.st < Steps
        BY Order DEF ControlInv, RfshInv, RfshRegs
      <4>2. Hold \in Nat /\ Pos \in Nat /\ (bank.st < READ => Pos <= READ)
        BY <2>1, <4>1, Order DEF Hold, Pos, Idle
      <4> QED BY <2>1, <3>1, <4>2, Order DEF Bound, ToRead
    <3>3. bank.st = READ + 1
      <4>1. bank.st \in {READ, READ + 1}
        BY <1>1, <1>3, <2>3, <3>2 DEF TimeInv
      <4>2. bank.st # READ
        BY <1>1, <1>3, <2>1, <3>1, <3>2, Order DEF TimeInv
      <4> QED BY <4>1, <4>2
    <3> QED BY <3>1, <3>3 DEF Written
  <2> QED BY <2>2, <2>3
<1> QED BY <1>1, <1>3, <1>4, PlacesAre DEF Placed

(* What is known of the bytes at the start ... *)
LEMMA DataInit ==
  ASSUME Init, FullPace, Ordinary
  PROVE  DataInv
<1>1. ControlInv /\ file \in Files
  BY ControlInit DEF Init
<1>2. /\ file.header \in Nat /\ file.prom \in Nat /\ RomLen \in Nat
  BY <1>1, FileFacts
<1>3. mem = {} /\ prom = {} /\ ~ dwn.prom /\ host.tick = 0 /\ host.addr = -1 /\ rst
      /\ ~ host.release /\ ~ host.dumps /\ gone = file.header /\ bank.st = 0
  BY DEF Init, DwnInit, BankReset, IDLE
<1>4. file.header .. Written - 1 = {}
  BY <1>2, <1>3, Order DEF Written
<1>5. {k \in file.prom .. RomLen - 1 : k < Past} = {}
  BY <1>2, <1>3 DEF Past
<1> QED BY <1>3, <1>4, <1>5 DEF DataInv

(* A clock keeps what is known of the bytes. *)
LEMMA DataKept ==
  ASSUME ControlInv, ChipInv, DataInv, Ordinary, Next
  PROVE  DataInv'
<1>1. /\ HostInv /\ DwnInv /\ BankInv /\ RfshInv /\ TimeInv
  BY DEF ControlInv
<1>2. (mem = {Entry(k) : k \in file.header .. Written - 1})'
  BY MemKept DEF DataInv
<1>3. (prom \cup (IF dwn.prom THEN {dwn.prog} ELSE {}) = {k \in file.prom .. RomLen - 1 : k < Past})'
  BY PromKept DEF DataInv
<1>4. /\ host'.dumps <=> Finishes /\ full
      /\ host'.release <=> (host.release \/ Finishes) /\ ~ Released
      /\ host'.done <=> Update(host).done
      /\ rst' <=> rst /\ ~ Released
  <2>1. host' \in HostRegs
    BY <1>1, HostOver, HostMoves, HostWrites, HostWaits DEF HostInv, HostRegs
  <2>2. DOMAIN host' = {"addr", "tick", "rom", "ram", "wr", "done", "dumps", "release"}
    BY <2>1 DEF HostRegs
  <2>3. host' = [Update(host) EXCEPT !.dumps = Finishes /\ full,
                                     !.release = (@ \/ Finishes) /\ ~ Released]
        /\ rst' = (rst /\ ~ Released)
    BY DEF Next, HostStep
  <2>4. DOMAIN Update(host) = {"addr", "tick", "rom", "ram", "wr", "done", "dumps", "release"}
    BY <2>2, <2>3
  <2>5. Update(host).release = host.release
    <3>1. DOMAIN host = {"addr", "tick", "rom", "ram", "wr", "done", "dumps", "release"}
      BY <1>1 DEF HostInv, HostRegs
    <3> QED BY <3>1 DEF Update, Bytes
  <2> HIDE DEF Update
  <2> QED BY <2>3, <2>4, <2>5
<1>5. host.done => host'.done
  BY <1>1, HostOver
<1>6. Finishes => host'.done
  BY <1>4 DEF Finishes
<1>7. Released => host.release /\ ~ dwn'.prom /\ ~ dwn'.we
  BY DEF Released
<1>8. host'.release \/ host'.dumps \/ ~ rst' => host'.done
  BY <1>4, <1>5, <1>6, <1>7 DEF DataInv
<1>9. ~ rst => ~ dwn'.we /\ ~ dwn'.prom
  <2> SUFFICES ASSUME ~ rst PROVE ~ dwn'.we /\ ~ dwn'.prom
    OBVIOUS
  <2>1. host.done /\ ~ dwn.we /\ ~ dwn.prom
    BY DEF DataInv
  <2>2. ~ ForSdramNow /\ ~ ForPromNow
    BY <1>1, <2>1, WriteMoves
  <2>3. /\ DwnType /\ HostLine \in Lines /\ out.ack \in BOOLEAN /\ (out.ack => dwn.we)
        /\ (dwn.pendwe => dwn.we) /\ DwnStep(HostLine, out.ack)
    BY <1>1, Respected, WriteMoves DEF DwnInv, Exact, QStep
  <2> QED BY <2>1, <2>2, <2>3, Flags
<1>10. ~ rst' => ~ dwn'.we /\ ~ dwn'.prom
  BY <1>4, <1>7, <1>9
<1> QED BY <1>2, <1>3, <1>8, <1>10 DEF DataInv

(* So does a step that changes nothing. *)
LEMMA DataStutters ==
  ASSUME DataInv, UNCHANGED vars
  PROVE  DataInv'
<1>1. UNCHANGED <<fast, file, bank, gone, mem, prom, dwn, host, rst>>
  BY DEF vars
<1>2. /\ Written' = Written /\ Past' = Past /\ RomLen' = RomLen
      /\ \A k : Entry(k)' = Entry(k)
  BY <1>1 DEF Written, Past, RomLen, READ, PRE_RD, PRE_ACT, Entry, BankOf, WordOf, HalfOf, Offset
<1> QED BY <1>1, <1>2 DEF DataInv

(* What the SDRAM and the PROMs hold is known throughout. *)
THEOREM DataHolds == Spec /\ Ordinary => [](FullPace => ControlInv /\ DataInv)
<1>1. Init /\ Ordinary => (FullPace => DataInv)
  BY DataInit
<1>2. ControlInv /\ ChipInv /\ Ordinary /\ DataInv /\ [Next]_vars => DataInv'
  <2> SUFFICES ASSUME ControlInv, ChipInv, Ordinary, DataInv, [Next]_vars PROVE DataInv'
    OBVIOUS
  <2>1. CASE Next
    BY <2>1, DataKept
  <2>2. CASE UNCHANGED vars
    BY <2>2, DataStutters
  <2> QED BY <2>1, <2>2
<1>3. (FullPace => ControlInv /\ ChipInv) /\ Ordinary /\ (FullPace => DataInv) /\ [Next]_vars
        => (FullPace => DataInv)'
  <2>1. [Next]_vars => (FullPace' <=> FullPace)
    BY DEF FullPace, vars, Next
  <2> QED BY <1>2, <2>1
<1>4. Ordinary => Ordinary'
  BY DEF Ordinary
<1> QED BY <1>1, <1>3, <1>4, ChipHolds, PTL DEF Spec

(* The game leaves its reset with all of the file in its place.            *)
THEOREM GameIsLoaded == Spec /\ Ordinary => [](FullPace => LoadedAtRelease)
<1>1. ControlInv /\ Ordinary /\ DataInv => LoadedAtRelease
  <2> SUFFICES ASSUME ControlInv, Ordinary, DataInv, ~ rst PROVE Placed /\ prom = ForProms
    BY DEF LoadedAtRelease
  <2>1. host.done /\ ~ dwn.prom
    BY DEF DataInv
  <2>2. Placed
    BY <2>1, PlacedAtEnd DEF DataInv
  <2>3. Past = Length /\ file \in Files /\ full \in BOOLEAN
    BY <2>1 DEF ControlInv, HostInv, Past
  <2>4. prom = {k \in file.prom .. RomLen - 1 : k < Past}
    BY <2>1 DEF DataInv
  <2> QED BY <2>2, <2>3, <2>4, PlacesAre
<1>2. Ordinary => Ordinary'
  BY DEF Ordinary
<1> QED BY <1>1, <1>2, DataHolds, PTL

(* And so have the files with the contents of the SDRAM. *)
THEOREM DumpIsComplete == Spec /\ Ordinary => []DumpComplete
<1>1. ControlInv /\ Ordinary /\ DataInv => (host.dumps => Placed)
  BY PlacedAtEnd DEF DataInv
<1>2. (FullPace => ControlInv /\ DataInv) /\ Ordinary => DumpComplete
  BY <1>1 DEF DumpComplete
<1>3. Ordinary => Ordinary'
  BY DEF Ordinary
<1> QED BY <1>2, <1>3, DataHolds, PTL

=============================================================================
