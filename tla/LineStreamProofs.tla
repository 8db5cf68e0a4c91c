------------------------- MODULE LineStreamProofs -------------------------
(***************************************************************************)
(* What a lane does with a line, for every geometry: the registers of a    *)
(* write-back always hold the half-words the port is about to ask for.     *)
(***************************************************************************)
EXTENDS LineStream, TLAPS

(* A lane as its parameters make it.                                       *)
Geometry == /\ Words \in Nat \ {0, 1} /\ Half \in Nat \ {0} /\ Words % Half = 0

(* All the states of the lane.                                             *)
AllStates == WriteStates \cup ReadStates \cup OtherStates

(* The registers and their ranges.                                         *)
LaneRegs ==
  /\ lane = [st |-> lane.st, flushing |-> lane.flushing, word |-> lane.word, wait |-> lane.wait,
             tail |-> lane.tail, at |-> lane.at, q |-> lane.q, wb |-> lane.wb, buf |-> lane.buf]
  /\ lane.st \in AllStates /\ lane.word \in 0 .. LastWord
  /\ lane.wait \in BOOLEAN /\ lane.tail \in BOOLEAN
  /\ lane.at \in Nat /\ lane.q \in Nat /\ lane.wb \in Nat
  /\ lane.buf = [i \in 0 .. LastWord |-> lane.buf[i]]

(* The word of the data RAM that is out, and the one that has been asked.  *)
Fetched(i) == lane.at = i /\ lane.q = i

(* What a write-back has ready: the half-word the port asks for next.      *)
WbReady ==
  /\ lane.st = "WB_PRIME" => Fetched(0)
  /\ lane.st = "WB_REQ" => lane.wb = 0 /\ (Words > Half => Fetched(1))
  /\ lane.st = "WB_STREAM" /\ lane.word < LastWord =>
       IF Half = 1
       THEN lane.wb = lane.word + 1 /\ (lane.word + 2 <= LastWord => Fetched(lane.word + 2))
       ELSE /\ (lane.wb * Half) + ((lane.word + 1) % Half) = lane.word + 1
            /\ lane.word % Half # Half - 1 /\ ((lane.word \div Half) + 1) * Half < Words =>
                 Fetched((lane.word \div Half) + 1)

(* How far the line is, by the state.                                      *)
Counted ==
  /\ lane.st \in {"WB_LOAD", "WB_PRIME", "WB_REQ", "WB_GAP", "FILL_REQ", "FILL_WB_WAIT", "FILL_WB_PRIME"} =>
       lane.word = 0 /\ ~ lane.tail
  /\ lane.st = "FILL_STREAM" => lane.word > 0 /\ (lane.tail => lane.word = LastWord)

(* The invariant of a lane.                                                *)
LaneInv == LaneRegs /\ WbReady /\ Counted

(* An answer of the port.                                                  *)
Bus(b) == b.ack \in BOOLEAN /\ b.dok \in BOOLEAN /\ b.rdy \in BOOLEAN

(* The states in which the lane holds the port, once it has got it.        *)
Mid == {"WB_STREAM", "FILL_WB_WAIT", "FILL_WB_PRIME", "FILL_STREAM"}

-----------------------------------------------------------------------------
(* Clocks that move no half-word.                                          *)
Elsewhere ==
  \/ Rest \/ Ask \/ Flush \/ Hit \/ Serve
  \/ Wait \/ Check \/ Advance \/ Done
  \/ Evict \/ Miss \/ PostFill

(* Clocks that move no half-word keep the invariant.                       *)
LEMMA ElsewhereKept ==
  ASSUME Geometry, LaneInv, Elsewhere
  PROVE  /\ LaneInv'
         /\ lane.st \in OtherStates
         /\ lane'.st \in OtherStates \cup {"WB_LOAD", "FILL_REQ"} /\ lane'.st # "POSTFILL_WAIT"
<1>1. LaneRegs
  BY DEF LaneInv
<1>2. 0 \in 0 .. LastWord
  BY DEF Geometry, LastWord
<1>3. /\ lane.st \in OtherStates
      /\ lane'.st \in OtherStates \cup {"WB_LOAD", "FILL_REQ"} /\ lane'.st # "POSTFILL_WAIT"
      /\ LaneRegs'
      /\ lane'.st \in {"WB_LOAD", "FILL_REQ"} => lane'.word = 0 /\ ~ lane'.tail
  <2>1. CASE Rest
    BY <1>1, <2>1 DEF Rest, LaneRegs, OtherStates
  <2>2. CASE Ask \/ Hit \/ Serve \/ Wait \/ Check \/ Advance \/ PostFill
    BY <1>1, <2>2 DEF Ask, Hit, Serve, Wait, Check, Advance, PostFill, To, LaneRegs, OtherStates, AllStates
  <2>3. CASE Flush \/ Done
    BY <1>1, <2>3 DEF Flush, Done, LaneRegs, OtherStates, AllStates
  <2>4. CASE Evict
    BY <1>1, <1>2, <2>4 DEF Evict, LaneRegs, OtherStates, AllStates, WriteStates
  <2>5. CASE Miss
    BY <1>1, <1>2, <2>5 DEF Miss, LaneRegs, OtherStates, AllStates, ReadStates
  <2> QED BY <2>1, <2>2, <2>3, <2>4, <2>5 DEF Elsewhere
<1>4. WbReady' /\ Counted'
  BY <1>3 DEF WbReady, Counted, OtherStates
<1> QED BY <1>3, <1>4 DEF LaneInv

(* The counts of a write-back, in words of the data RAM.                   *)
LEMMA Multiple ==
  ASSUME NEW H \in Nat \ {0}, NEW W \in Nat, W % H = 0
  PROVE  \E m \in Nat : W = m * H
<1>1. W = ((W \div H) * H) + (W % H) /\ W \div H \in Nat
  OBVIOUS
<1> QED BY <1>1

(* A half-word lies in one word of the data RAM, at one place of it.       *)
LEMMA Split ==
  ASSUME NEW H \in Nat \ {0}, NEW w \in Nat
  PROVE  \E k \in Nat, j \in 0 .. H - 1 : w = (k * H) + j /\ w \div H = k /\ w % H = j
OBVIOUS

(* Which word and which place.                                             *)
LEMMA Joined ==
  ASSUME NEW H \in Nat \ {0}, NEW k \in Nat, NEW j \in 0 .. H - 1
  PROVE  ((k * H) + j) \div H = k /\ ((k * H) + j) % H = j
OBVIOUS

(* One half-word on: the word that is out is the next one's, and the one   *)
(* after it has been asked for when it is needed.                          *)
LEMMA Prefetched ==
  ASSUME Geometry, Half # 1, NEW w \in Nat, w + 1 < Words - 1,
         NEW wb \in Nat, NEW q \in Nat,
         (wb * Half) + ((w + 1) % Half) = w + 1,
         w % Half # Half - 1 /\ ((w \div Half) + 1) * Half < Words => q = (w \div Half) + 1
  PROVE  /\ w % Half = Half - 2 => (q * Half) + ((w + 2) % Half) = w + 2
         /\ w % Half # Half - 2 => (wb * Half) + ((w + 2) % Half) = w + 2
         /\ w % Half # Half - 1 /\ (w + 1) % Half # Half - 1 => (w + 1) \div Half = w \div Half
         /\ w % Half = Half - 1 /\ (((w + 1) \div Half) + 1) * Half < Words =>
              Words > 2 * Half /\ w + Half < Words - 1 /\ (w + Half + 1) \div Half = ((w + 1) \div Half) + 1
<1>0. Half \in Nat \ {0} /\ Half > 1 /\ Words \in Nat /\ Words % Half = 0
  BY DEF Geometry
<1>1. PICK k \in Nat, j \in 0 .. Half - 1 : w = (k * Half) + j /\ w \div Half = k /\ w % Half = j
  BY <1>0, Split
<1>2. PICK kH \in Nat : kH = k * Half /\ (k + 1) * Half = kH + Half /\ (k + 2) * Half = kH + Half + Half
  BY <1>0, <1>1
<1>3. PICK k1 \in Nat, k2 \in Nat, j1 \in Nat, j2 \in Nat :
        k1 = k + 1 /\ k2 = k + 2 /\ j1 = j + 1 /\ j2 = j + 2 /\ k1 * Half = kH + Half /\ k2 * Half = kH + Half + Half
  BY <1>0, <1>1, <1>2
<1>4. PICK w1 \in Nat, w2 \in Nat, w3 \in Nat : w1 = w + 1 /\ w2 = w + 2 /\ w3 = w + Half + 1
  BY <1>0
<1>5. PICK x \in Nat : x = wb * Half
  BY <1>0
<1>6. x + (w1 % Half) = w1 /\ (j # Half - 1 /\ k1 * Half < Words => q = k1)
  <2>1. x + ((w + 1) % Half) = w + 1 /\ (j # Half - 1 /\ (k + 1) * Half < Words => q = k + 1)
    BY <1>0, <1>1, <1>5
  <2> QED BY <1>3, <1>4, <2>1
<1>7. /\ j = Half - 2 => (q * Half) + (w2 % Half) = w2
      /\ j # Half - 2 => x + (w2 % Half) = w2
      /\ j # Half - 1 /\ w1 % Half # Half - 1 => w1 \div Half = k
      /\ j = Half - 1 /\ ((w1 \div Half) + 1) * Half < Words =>
           Words > 2 * Half /\ w + Half < Words - 1 /\ w3 \div Half = (w1 \div Half) + 1
  <2>1. CASE j + 2 < Half
    <3>1. j1 \in 0 .. Half - 1 /\ j2 \in 0 .. Half - 1 /\ w1 = (k * Half) + j1 /\ w2 = (k * Half) + j2
      BY <1>0, <1>1, <1>2, <1>3, <1>4, <2>1
    <3>2. w1 \div Half = k /\ w1 % Half = j1 /\ w2 % Half = j2
      <4>1. w1 \div Half = k /\ w1 % Half = j1
        BY <1>0, <3>1, Joined
      <4>2. w2 % Half = j2
        BY <1>0, <3>1, Joined
      <4> QED BY <4>1, <4>2
    <3>3. x + j2 = w2
      BY <1>0, <1>3, <1>4, <1>6, <3>2
    <3>4. j # Half - 1 /\ j # Half - 2
      BY <1>0, <1>1, <2>1
    <3> QED BY <3>2, <3>3, <3>4
  <2>2. CASE j + 2 = Half
    <3>1. j1 \in 0 .. Half - 1 /\ 0 \in 0 .. Half - 1 /\ w1 = (k * Half) + j1 /\ w2 = (k1 * Half) + 0
      BY <1>0, <1>1, <1>2, <1>3, <1>4, <2>2
    <3>2. w1 % Half = j1 /\ w2 % Half = 0
      <4>1. w1 % Half = j1
        BY <1>0, <3>1, Joined
      <4>2. w2 % Half = 0
        BY <1>0, <3>1, Joined
      <4> QED BY <4>1, <4>2
    <3>3. j # Half - 1 /\ j = Half - 2 /\ j1 = Half - 1
      BY <1>0, <1>1, <1>3, <2>2
    <3>4. k1 * Half < Words
      <4>1. PICK m \in Nat : Words = m * Half
        BY <1>0, Multiple
      <4>2. k1 * Half <= m * Half
        BY <1>0, <1>1, <1>2, <1>3, <2>2, <4>1
      <4> QED BY <1>0, <1>1, <1>2, <1>3, <2>2, <4>1
    <3>5. q = k1
      BY <1>6, <3>3, <3>4
    <3>6. (q * Half) + 0 = w2
      BY <3>1, <3>5
    <3> QED BY <3>2, <3>3, <3>6
  <2>3. CASE j + 1 = Half
    <3>1. 1 \in 0 .. Half - 1 /\ 0 \in 0 .. Half - 1 /\ w1 = (k1 * Half) + 0 /\ w2 = (k1 * Half) + 1
          /\ w3 = (k2 * Half) + 0
      BY <1>0, <1>1, <1>2, <1>3, <1>4, <2>3
    <3>2. w1 \div Half = k1 /\ w1 % Half = 0 /\ w2 % Half = 1 /\ w3 \div Half = k2
      <4>1. w1 \div Half = k1 /\ w1 % Half = 0
        BY <1>0, <3>1, Joined
      <4>2. w2 % Half = 1
        BY <1>0, <3>1, Joined
      <4>3. w3 \div Half = k2
        BY <1>0, <3>1, Joined
      <4> QED BY <4>1, <4>2, <4>3
    <3>3. x + 1 = w2
      BY <1>4, <1>6, <3>2
    <3>4. j = Half - 1 /\ j # Half - 2 /\ k1 + 1 = k2
      BY <1>0, <1>1, <1>3, <2>3
    <3>5. k2 * Half < Words => Words > 2 * Half /\ w + Half < Words - 1
      <4>1. 2 * Half <= kH + Half + Half
        BY <1>0, <1>2
      <4> QED BY <1>0, <1>1, <1>2, <1>3, <2>3, <4>1
    <3> QED BY <3>2, <3>3, <3>4, <3>5
  <2>4. j + 2 < Half \/ j + 2 = Half \/ j + 1 = Half
    BY <1>0, <1>1
  <2> QED BY <2>1, <2>2, <2>3, <2>4
<1> QED BY <1>0, <1>1, <1>4, <1>5, <1>7

-----------------------------------------------------------------------------
(* The write-back.                                                         *)
LEMMA WbLoadKept ==
  ASSUME Geometry, LaneInv, WbLoad \/ WbPrime \/ WbGap
  PROVE  /\ LaneInv'
         /\ lane.st \in {"WB_LOAD", "WB_PRIME", "WB_GAP"}
         /\ lane'.st \in {"WB_PRIME", "WB_REQ", "FLUSH_ADVANCE", "FILL_REQ"}
<1>1. LaneRegs /\ WbReady /\ Counted
  BY DEF LaneInv
<1>2. CASE WbLoad
  <2>1. LaneRegs' /\ lane'.st = "WB_PRIME" /\ lane'.word = lane.word /\ lane'.tail = lane.tail
        /\ lane'.at = 0 /\ lane'.q = 0 /\ lane.st = "WB_LOAD"
    BY <1>1, <1>2 DEF WbLoad, Fetch, LaneRegs, AllStates, WriteStates
  <2> QED BY <1>1, <2>1 DEF LaneInv, WbReady, Counted, Fetched
<1>3. CASE WbPrime
  <2>1. /\ LaneRegs' /\ lane'.st = "WB_REQ" /\ lane'.word = lane.word /\ lane'.tail = lane.tail
        /\ lane.st = "WB_PRIME" /\ lane'.wb = lane.q
        /\ Words > Half => lane'.at = 1 /\ lane'.q = 1
    BY <1>1, <1>3 DEF WbPrime, Fetch, Keep, LaneRegs, AllStates, WriteStates
  <2> QED BY <1>1, <2>1 DEF LaneInv, WbReady, Counted, Fetched
<1>4. CASE WbGap
  <2>1. /\ LaneRegs' /\ lane'.st \in {"FLUSH_ADVANCE", "FILL_REQ"}
        /\ lane'.word = lane.word /\ lane'.tail = lane.tail /\ lane.st = "WB_GAP"
    BY <1>1, <1>4 DEF WbGap, LaneRegs, AllStates, ReadStates, OtherStates
  <2> QED BY <1>1, <2>1 DEF LaneInv, WbReady, Counted
<1> QED BY <1>2, <1>3, <1>4

(* They stay while the lane asks, and through the grant.                   *)
LEMMA WbReqKept ==
  ASSUME Geometry, LaneInv, NEW b, Bus(b), WbReq(b)
  PROVE  /\ LaneInv' /\ lane.st = "WB_REQ" /\ lane'.word = 0
         /\ lane'.st = IF b.ack THEN "WB_STREAM" ELSE "WB_REQ"
<1>1. LaneRegs /\ WbReady /\ Counted /\ lane.st = "WB_REQ"
  BY DEF LaneInv, WbReq
<1>2. lane.word = 0 /\ ~ lane.tail /\ lane.wb = 0 /\ (Words > Half => Fetched(1))
  BY <1>1 DEF Counted, WbReady
<1>3. Words \in Nat /\ Words > 1 /\ Half \in Nat \ {0} /\ LastWord = Words - 1 /\ 0 \in 0 .. LastWord
  BY DEF Geometry, LastWord
<1>4. CASE ~ b.ack
  <2>1. LaneRegs' /\ lane'.st = "WB_REQ" /\ lane'.word = lane.word /\ lane'.tail = lane.tail
        /\ lane'.wb = lane.wb /\ lane'.at = lane.at /\ lane'.q = lane.at
    BY <1>1, <1>4 DEF WbReq, Keep, LaneRegs
  <2> QED BY <1>1, <1>2, <1>4, <2>1 DEF LaneInv, WbReady, Counted, Fetched
<1>5. CASE b.ack
  <2>1. LaneRegs' /\ lane'.st = "WB_STREAM" /\ lane'.word = 0
        /\ lane'.wb = (IF Half = 1 THEN lane.q ELSE lane.wb)
        /\ (IF Half = 1 /\ Words > 2 THEN lane'.at = 2 /\ lane'.q = 2 ELSE lane'.at = lane.at /\ lane'.q = lane.at)
    <3> DEFINE r == [lane EXCEPT !.st = "WB_STREAM", !.word = 0,
                                 !.wb = IF Half = 1 THEN lane.q ELSE lane.wb]
               pre == Half = 1 /\ Words > 2
    <3>1. lane' = IF pre THEN Fetch(r, 2) ELSE Keep(r)
      BY <1>5 DEF WbReq
    <3>2. /\ lane' = [st |-> r.st, flushing |-> r.flushing, word |-> r.word, wait |-> r.wait,
                      tail |-> r.tail, at |-> IF pre THEN 2 ELSE r.at, q |-> IF pre THEN 2 ELSE r.at,
                      wb |-> r.wb, buf |-> r.buf]
          /\ r.at = lane.at /\ r.wait = lane.wait /\ r.buf = lane.buf /\ r.tail = lane.tail
      <4> HIDE DEF pre
      <4> QED BY <1>1, <3>1 DEF Fetch, Keep, LaneRegs
    <3>3. r.st = "WB_STREAM" /\ r.word = 0 /\ r.wb = IF Half = 1 THEN lane.q ELSE lane.wb
      BY <1>1 DEF LaneRegs
    <3> HIDE DEF r
    <3>4. LaneRegs'
      BY <1>1, <1>3, <3>2, <3>3 DEF LaneRegs, AllStates, WriteStates
    <3> QED BY <3>2, <3>3, <3>4
  <2>2. WbReady'
    <3>1. CASE Half = 1
      BY <1>2, <1>3, <2>1, <3>1 DEF WbReady, Fetched
    <3>2. CASE Half # 1
      <4>1. (0 * Half) + (1 % Half) = 1 /\ 0 % Half = 0 /\ 0 \div Half = 0 /\ (0 + 1) * Half = Half
        <5>1. 1 \in 0 .. Half - 1 /\ 0 \in 0 .. Half - 1 /\ (0 * Half) + 1 = 1 /\ (0 * Half) + 0 = 0
          BY <1>3, <3>2
        <5>2. ((0 * Half) + 1) % Half = 1 /\ ((0 * Half) + 0) % Half = 0 /\ ((0 * Half) + 0) \div Half = 0
          BY <1>3, <5>1, Joined
        <5> QED BY <1>3, <5>1, <5>2
      <4>2. lane'.wb = 0 /\ lane'.word = 0 /\ (Words > Half => lane'.at = 1 /\ lane'.q = 1)
        BY <1>2, <2>1, <3>2 DEF Fetched
      <4>3. (lane'.wb * Half) + ((lane'.word + 1) % Half) = lane'.word + 1
        BY <4>1, <4>2
      <4>4. ((lane'.word \div Half) + 1) * Half < Words => lane'.at = (lane'.word \div Half) + 1 /\ lane'.q = (lane'.word \div Half) + 1
        BY <1>3, <4>1, <4>2
      <4> QED BY <2>1, <3>2, <4>3, <4>4 DEF WbReady, Fetched
    <3> QED BY <3>1, <3>2
  <2>3. Counted'
    BY <2>1 DEF Counted
  <2> QED BY <1>1, <1>5, <2>1, <2>2, <2>3 DEF LaneInv
<1> QED BY <1>1, <1>4, <1>5 DEF Bus

(* With each half-word the next one is ready.                              *)
LEMMA WbStreamKept ==
  ASSUME Geometry, LaneInv, NEW b, Bus(b), WbStream(b)
  PROVE  /\ LaneInv' /\ lane.st = "WB_STREAM"
         /\ b.rdy => lane'.st = "WB_GAP"
         /\ ~ b.rdy => /\ lane'.st = "WB_STREAM"
                       /\ lane'.word = IF lane.word = LastWord THEN LastWord ELSE lane.word + 1
<1>1. LaneRegs /\ WbReady /\ Counted /\ lane.st = "WB_STREAM"
  BY DEF LaneInv, WbStream
<1>2. Words \in Nat /\ Words > 1 /\ Half \in Nat \ {0} /\ LastWord = Words - 1 /\ 0 \in 0 .. LastWord
      /\ lane.word \in 0 .. LastWord /\ Words % Half = 0
  BY <1>1 DEF Geometry, LastWord, LaneRegs
<1>3. PICK i \in Nat :
        IF Half = 1
        THEN lane.word + 2 < LastWord => i = lane.word + 3
        ELSE Words > 2 * Half /\ lane.word % Half = Half - 1 /\ lane.word + Half < LastWord =>
               i = (lane.word + Half + 1) \div Half
  <2>1. (lane.word + Half + 1) \div Half \in Nat /\ lane.word + 3 \in Nat
    BY <1>2
  <2> QED BY <2>1
<1> DEFINE pre == IF Half = 1 THEN lane.word + 2 < LastWord
                  ELSE Words > 2 * Half /\ lane.word % Half = Half - 1 /\ lane.word + Half < LastWord
           r == IF b.rdy THEN [lane EXCEPT !.st = "WB_GAP", !.word = 0, !.tail = FALSE]
                ELSE IF lane.word = LastWord THEN lane
                ELSE [lane EXCEPT !.word = lane.word + 1, !.wb = IF WbTakes THEN lane.q ELSE lane.wb]
<1>4. lane' = IF pre THEN Fetch(r, i) ELSE Keep(r)
  BY <1>3 DEF WbStream, WbPrefetch
<1>5. /\ lane' = [st |-> r.st, flushing |-> r.flushing, word |-> r.word, wait |-> r.wait,
                  tail |-> r.tail, at |-> IF pre THEN i ELSE r.at, q |-> IF pre THEN i ELSE r.at,
                  wb |-> r.wb, buf |-> r.buf]
      /\ r.at = lane.at /\ r.wait = lane.wait /\ r.buf = lane.buf
  <2> HIDE DEF pre
  <2> QED BY <1>1, <1>4 DEF Fetch, Keep, LaneRegs
<1>6. CASE b.rdy
  <2>1. r.st = "WB_GAP" /\ r.word = 0 /\ r.tail = FALSE /\ r.wb = lane.wb
    BY <1>1, <1>6 DEF LaneRegs
  <2> HIDE DEF r, pre
  <2>2. LaneRegs'
    BY <1>1, <1>2, <1>5, <2>1 DEF LaneRegs, AllStates, WriteStates
  <2>3. WbReady' /\ Counted'
    BY <1>5, <2>1 DEF WbReady, Counted
  <2> QED BY <1>1, <1>5, <1>6, <2>1, <2>2, <2>3 DEF LaneInv
<1>7. CASE ~ b.rdy /\ lane.word = LastWord
  <2>1. r = lane
    BY <1>7
  <2> HIDE DEF r, pre
  <2>2. LaneRegs'
    BY <1>1, <1>2, <1>5, <2>1 DEF LaneRegs
  <2>3. lane'.st = "WB_STREAM" /\ lane'.word = LastWord
    BY <1>1, <1>5, <1>7, <2>1
  <2>4. WbReady' /\ Counted'
    BY <1>2, <2>3 DEF WbReady, Counted
  <2> QED BY <1>1, <1>7, <2>2, <2>3, <2>4 DEF LaneInv
<1>8. CASE ~ b.rdy /\ lane.word # LastWord
  <2>1. /\ r.st = "WB_STREAM" /\ r.word = lane.word + 1 /\ r.tail = lane.tail
        /\ r.wb = IF WbTakes THEN lane.q ELSE lane.wb
    BY <1>1, <1>8 DEF LaneRegs
  <2> HIDE DEF r
  <2>2. LaneRegs'
    <3> HIDE DEF pre
    <3> QED BY <1>1, <1>2, <1>5, <1>8, <2>1 DEF LaneRegs
  <2>3. /\ lane'.st = "WB_STREAM" /\ lane'.word = lane.word + 1
        /\ lane'.wb = (IF WbTakes THEN lane.q ELSE lane.wb)
        /\ pre => lane'.at = i /\ lane'.q = i
        /\ ~ pre => lane'.at = lane.at /\ lane'.q = lane.at
    <3> HIDE DEF pre
    <3> QED BY <1>5, <2>1
  <2>4. lane.word < LastWord
    BY <1>2, <1>8
  <2>5. ASSUME lane'.word < LastWord
        PROVE  IF Half = 1
               THEN lane'.wb = lane'.word + 1 /\ (lane'.word + 2 <= LastWord => lane'.at = lane'.word + 2 /\ lane'.q = lane'.word + 2)
               ELSE /\ (lane'.wb * Half) + ((lane'.word + 1) % Half) = lane'.word + 1
                    /\ lane'.word % Half # Half - 1 /\ ((lane'.word \div Half) + 1) * Half < Words =>
                         lane'.at = (lane'.word \div Half) + 1 /\ lane'.q = (lane'.word \div Half) + 1
    <3>1. CASE Half = 1
      <4>1. lane.wb = lane.word + 1 /\ lane.q = lane.word + 2 /\ lane.at = lane.word + 2
        BY <1>1, <1>2, <2>3, <2>4, <2>5, <3>1 DEF WbReady, Fetched
      <4>2. lane'.wb = lane.word + 2
        BY <2>3, <3>1, <4>1 DEF WbTakes
      <4>3. lane'.word + 2 <= LastWord => lane'.at = lane.word + 3 /\ lane'.q = lane.word + 3
        BY <1>2, <1>3, <2>3, <3>1
      <4> QED BY <1>2, <2>3, <3>1, <4>2, <4>3 DEF Fetched
    <3>2. CASE Half # 1
      <4>1. PICK w \in Nat, x \in Nat, y \in Nat : w = lane.word /\ x = lane.wb /\ y = lane.q
        BY <1>1, <1>2 DEF LaneRegs
      <4>2. /\ (x * Half) + ((w + 1) % Half) = w + 1
            /\ w % Half # Half - 1 /\ ((w \div Half) + 1) * Half < Words =>
                 lane.at = (w \div Half) + 1 /\ y = (w \div Half) + 1
        BY <1>1, <2>4, <3>2, <4>1 DEF WbReady, Fetched
      <4>3. Half \in Nat /\ Half > 1 /\ w + 1 < Words - 1
        BY <1>2, <2>3, <2>5, <3>2, <4>1
      <4>4. /\ w % Half = Half - 2 => (y * Half) + ((w + 2) % Half) = w + 2
            /\ w % Half # Half - 2 => (x * Half) + ((w + 2) % Half) = w + 2
            /\ w % Half # Half - 1 /\ (w + 1) % Half # Half - 1 => (w + 1) \div Half = w \div Half
            /\ w % Half = Half - 1 /\ (((w + 1) \div Half) + 1) * Half < Words =>
                 /\ Words > 2 * Half /\ w + Half < Words - 1
                 /\ (w + Half + 1) \div Half = ((w + 1) \div Half) + 1
        <5>1. /\ Half # 1 /\ w + 1 < Words - 1
              /\ (x * Half) + ((w + 1) % Half) = w + 1 /\ w \in Nat /\ x \in Nat /\ y \in Nat
          BY <1>2, <4>1, <4>2, <4>3
        <5>2. w % Half # Half - 1 /\ ((w \div Half) + 1) * Half < Words => y = (w \div Half) + 1
          BY <4>2
        <5> QED BY <5>1, <5>2, Prefetched
      <4>5. lane'.wb = (IF w % Half = Half - 2 THEN y ELSE x) /\ lane'.word = w + 1 /\ (w + 1) + 1 = w + 2
        BY <2>3, <3>2, <4>1 DEF WbTakes
      <4>6. (lane'.wb * Half) + ((lane'.word + 1) % Half) = lane'.word + 1
        BY <4>4, <4>5
      <4>7. ASSUME (w + 1) % Half # Half - 1, (((w + 1) \div Half) + 1) * Half < Words
            PROVE  lane'.at = ((w + 1) \div Half) + 1 /\ lane'.q = ((w + 1) \div Half) + 1
        <5>1. CASE w % Half # Half - 1
          <6>1. (w + 1) \div Half = w \div Half
            BY <4>4, <4>7, <5>1
          <6>2. ~ pre
            BY <3>2, <4>1, <5>1
          <6> QED BY <2>3, <4>2, <4>7, <5>1, <6>1, <6>2
        <5>2. CASE w % Half = Half - 1
          <6>1. pre
            BY <1>2, <3>2, <4>1, <4>4, <4>7, <5>2
          <6>2. i = ((w + 1) \div Half) + 1
            <7>1. i = (lane.word + Half + 1) \div Half
              BY <1>3, <3>2, <6>1
            <7> QED BY <4>1, <4>4, <4>7, <5>2, <7>1
          <6> QED BY <2>3, <6>1, <6>2
        <5> QED BY <5>1, <5>2
      <4> QED BY <3>2, <4>5, <4>6, <4>7
    <3> QED BY <3>1, <3>2
  <2>6. WbReady'
    <3> HIDE DEF pre
    <3>1. lane'.st = "WB_STREAM"
      BY <2>3
    <3> QED BY <2>5, <3>1 DEF WbReady, Fetched
  <2>7. Counted'
    BY <2>3 DEF Counted
  <2> QED BY <1>1, <1>8, <2>2, <2>3, <2>6, <2>7 DEF LaneInv
<1> QED BY <1>6, <1>7, <1>8 DEF Bus

-----------------------------------------------------------------------------
(* The fill.                                                               *)
LEMMA FillReqKept ==
  ASSUME Geometry, LaneInv, NEW b, Bus(b), FillReq(b) \/ FillWait
  PROVE  /\ LaneInv' /\ lane.st \in {"FILL_REQ", "FILL_WB_WAIT"}
         /\ lane.st = "FILL_REQ" => lane'.st = IF b.ack THEN "FILL_WB_WAIT" ELSE "FILL_REQ"
         /\ lane.st = "FILL_WB_WAIT" => lane'.st = "FILL_WB_PRIME" /\ lane'.wait
<1>1. LaneRegs /\ WbReady /\ Counted /\ 0 \in 0 .. LastWord
  BY DEF LaneInv, Geometry, LastWord
<1>2. CASE FillReq(b) /\ ~ b.ack
  BY <1>2 DEF FillReq, LaneInv, LaneRegs, WbReady, Counted, Fetched
<1>3. CASE FillReq(b) /\ b.ack
  <2>1. LaneRegs' /\ lane'.st = "FILL_WB_WAIT" /\ lane'.word = 0 /\ ~ lane'.tail /\ lane.st = "FILL_REQ"
    BY <1>1, <1>3 DEF FillReq, LaneRegs, AllStates, ReadStates
  <2> QED BY <1>3, <2>1 DEF LaneInv, WbReady, Counted
<1>4. CASE FillWait
  <2>1. /\ LaneRegs' /\ lane'.st = "FILL_WB_PRIME" /\ lane'.word = lane.word /\ lane'.tail = lane.tail
        /\ lane.st = "FILL_WB_WAIT" /\ lane'.wait
    BY <1>1, <1>4 DEF FillWait, LaneRegs, AllStates, ReadStates
  <2> QED BY <1>1, <2>1 DEF LaneInv, WbReady, Counted
<1> QED BY <1>2, <1>3, <1>4 DEF Bus, FillReq

(* It takes the first half-word when it comes,                             *)
LEMMA FillPrimeKept ==
  ASSUME Geometry, LaneInv, NEW b, Bus(b), FillPrime(b)
  PROVE  /\ LaneInv' /\ lane.st = "FILL_WB_PRIME"
         /\ lane.wait => lane'.st = "FILL_WB_PRIME" /\ ~ lane'.wait
         /\ ~ lane.wait /\ ~ b.rdy =>
              lane'.st = "FILL_STREAM" /\ lane'.word = 1 /\ ~ lane'.tail /\ lane'.buf[0] = b.din
         /\ ~ lane.wait /\ b.rdy => lane'.st = "POSTFILL_WAIT"
<1>1. LaneRegs /\ WbReady /\ Counted /\ 0 \in 0 .. LastWord /\ 1 \in 0 .. LastWord
      /\ lane.st = "FILL_WB_PRIME"
  BY DEF LaneInv, Geometry, LastWord, FillPrime
<1>2. CASE lane.wait
  <2>1. /\ LaneRegs' /\ lane'.st = "FILL_WB_PRIME" /\ lane'.word = lane.word /\ lane'.tail = lane.tail
        /\ ~ lane'.wait
    BY <1>1, <1>2 DEF FillPrime, LaneRegs, AllStates, ReadStates
  <2> QED BY <1>1, <1>2, <2>1 DEF LaneInv, WbReady, Counted
<1>3. CASE ~ lane.wait /\ b.rdy
  <2>1. LaneRegs' /\ lane'.st = "POSTFILL_WAIT"
    BY <1>1, <1>3 DEF FillPrime, LaneRegs, AllStates, OtherStates
  <2> QED BY <1>1, <1>3, <2>1 DEF LaneInv, WbReady, Counted
<1>4. CASE ~ lane.wait /\ ~ b.rdy
  <2>1. /\ LaneRegs' /\ lane'.st = "FILL_STREAM" /\ lane'.word = 1 /\ lane'.tail = lane.tail
        /\ lane'.buf[0] = b.din
    BY <1>1, <1>4 DEF FillPrime, LaneRegs, AllStates, ReadStates
  <2> QED BY <1>1, <1>4, <2>1 DEF LaneInv, WbReady, Counted
<1> QED BY <1>1, <1>2, <1>3, <1>4 DEF LaneRegs, Bus

(* and each of the others at its place.                                    *)
LEMMA FillStreamKept ==
  ASSUME Geometry, LaneInv, NEW b, Bus(b), FillStream(b)
  PROVE  /\ LaneInv' /\ lane.st = "FILL_STREAM"
         /\ ~ b.dok => lane' = lane
         /\ b.dok => /\ \A i \in 0 .. LastWord :
                          lane'.buf[i] = IF i = lane.word /\ ~ lane.tail THEN b.din ELSE lane.buf[i]
                     /\ b.rdy => lane'.st = "POSTFILL_WAIT"
                     /\ ~ b.rdy => /\ lane'.st = "FILL_STREAM"
                                   /\ lane'.word = IF lane.word = LastWord THEN LastWord ELSE lane.word + 1
                                   /\ lane'.tail <=> lane.word = LastWord
<1>1. LaneRegs /\ WbReady /\ Counted /\ 0 \in 0 .. LastWord /\ LastWord \in Nat
      /\ lane.st = "FILL_STREAM" /\ lane.word > 0 /\ (lane.tail => lane.word = LastWord)
  BY DEF LaneInv, Geometry, LastWord, FillStream, Counted
<1>2. CASE ~ b.dok
  <2>1. lane' = lane
    BY <1>2 DEF FillStream
  <2> QED BY <1>1, <1>2, <2>1 DEF LaneInv, LaneRegs, WbReady, Counted, Fetched
<1>3. CASE b.dok
  <2> DEFINE s == IF ~ lane.tail THEN [lane EXCEPT !.buf[lane.word] = b.din] ELSE lane
  <2>1. lane' = IF b.rdy THEN [s EXCEPT !.st = "POSTFILL_WAIT", !.word = 0, !.tail = FALSE]
                ELSE IF lane.word # LastWord THEN [s EXCEPT !.word = lane.word + 1]
                ELSE [s EXCEPT !.tail = TRUE]
    BY <1>3 DEF FillStream
  <2>2. /\ s = [st |-> lane.st, flushing |-> lane.flushing, word |-> lane.word, wait |-> lane.wait,
                tail |-> lane.tail, at |-> lane.at, q |-> lane.q, wb |-> lane.wb, buf |-> s.buf]
        /\ s.buf = [i \in 0 .. LastWord |-> s.buf[i]]
        /\ \A i \in 0 .. LastWord : s.buf[i] = IF i = lane.word /\ ~ lane.tail THEN b.din ELSE lane.buf[i]
    BY <1>1 DEF LaneRegs
  <2> HIDE DEF s
  <2>3. CASE b.rdy
    <3>0. lane' = [st |-> "POSTFILL_WAIT", flushing |-> lane.flushing, word |-> 0, wait |-> lane.wait,
                   tail |-> FALSE, at |-> lane.at, q |-> lane.q, wb |-> lane.wb, buf |-> s.buf]
      <4> DEFINE f == s.buf
      <4>1. s = [st |-> lane.st, flushing |-> lane.flushing, word |-> lane.word, wait |-> lane.wait,
                 tail |-> lane.tail, at |-> lane.at, q |-> lane.q, wb |-> lane.wb, buf |-> f]
        BY <2>2
      <4>2. lane' = [s EXCEPT !.st = "POSTFILL_WAIT", !.word = 0, !.tail = FALSE]
        BY <2>1, <2>3
      <4> HIDE DEF f
      <4>3. lane' = [st |-> "POSTFILL_WAIT", flushing |-> lane.flushing, word |-> 0, wait |-> lane.wait,
                     tail |-> FALSE, at |-> lane.at, q |-> lane.q, wb |-> lane.wb, buf |-> f]
        BY <4>1, <4>2
      <4> QED BY <4>3 DEF f
    <3>1. LaneRegs' /\ lane'.st = "POSTFILL_WAIT" /\ lane'.buf = s.buf
      BY <1>1, <2>2, <3>0 DEF LaneRegs, AllStates, OtherStates
    <3> QED BY <1>1, <1>3, <2>2, <2>3, <3>1 DEF LaneInv, WbReady, Counted
  <2>4. CASE ~ b.rdy /\ lane.word # LastWord
    <3>1. LaneRegs' /\ lane'.st = "FILL_STREAM" /\ lane'.buf = s.buf /\ lane'.word = lane.word + 1
          /\ lane'.tail = lane.tail
      BY <1>1, <2>1, <2>2, <2>4 DEF LaneRegs
    <3>2. lane'.word > 0 /\ ~ lane.tail
      BY <1>1, <2>4, <3>1 DEF LaneRegs
    <3> QED BY <1>1, <1>3, <2>2, <2>4, <3>1, <3>2 DEF LaneInv, WbReady, Counted
  <2>5. CASE ~ b.rdy /\ lane.word = LastWord
    <3>0. lane' = [st |-> lane.st, flushing |-> lane.flushing, word |-> lane.word, wait |-> lane.wait,
                   tail |-> TRUE, at |-> lane.at, q |-> lane.q, wb |-> lane.wb, buf |-> s.buf]
      <4> DEFINE f == s.buf
      <4>1. s = [st |-> lane.st, flushing |-> lane.flushing, word |-> lane.word, wait |-> lane.wait,
                 tail |-> lane.tail, at |-> lane.at, q |-> lane.q, wb |-> lane.wb, buf |-> f]
        BY <2>2
      <4>2. lane' = [s EXCEPT !.tail = TRUE]
        BY <2>1, <2>5
      <4> HIDE DEF f
      <4>3. lane' = [st |-> lane.st, flushing |-> lane.flushing, word |-> lane.word, wait |-> lane.wait,
                     tail |-> TRUE, at |-> lane.at, q |-> lane.q, wb |-> lane.wb, buf |-> f]
        BY <4>1, <4>2
      <4> QED BY <4>3 DEF f
    <3>1. LaneRegs' /\ lane'.st = "FILL_STREAM" /\ lane'.buf = s.buf /\ lane'.word = lane.word
          /\ lane'.tail = TRUE
      BY <1>1, <2>2, <3>0 DEF LaneRegs
    <3> QED BY <1>1, <1>3, <2>2, <2>5, <3>1 DEF LaneInv, WbReady, Counted
  <2> QED BY <2>3, <2>4, <2>5
<1> QED BY <1>1, <1>2, <1>3 DEF Bus

-----------------------------------------------------------------------------
(* A clock of the lane, as the port sees it.                               *)
LaneMoves(b) ==
  /\ lane.st \in OtherStates \cup {"WB_LOAD", "WB_PRIME", "WB_GAP"} =>
       lane'.st \notin Mid \cup {"WB_GAP", "POSTFILL_WAIT"}
  /\ lane.st = "WB_REQ" => lane'.st = (IF b.ack THEN "WB_STREAM" ELSE "WB_REQ") /\ lane'.word = 0
  /\ lane.st = "WB_STREAM" =>
       IF b.rdy THEN lane'.st = "WB_GAP"
       ELSE lane'.st = "WB_STREAM" /\ lane'.word = IF lane.word = LastWord THEN LastWord ELSE lane.word + 1
  /\ lane.st = "FILL_REQ" => lane'.st = IF b.ack THEN "FILL_WB_WAIT" ELSE "FILL_REQ"
  /\ lane.st = "FILL_WB_WAIT" => lane'.st = "FILL_WB_PRIME" /\ lane'.wait
  /\ lane.st = "FILL_WB_PRIME" /\ lane.wait => lane'.st = "FILL_WB_PRIME" /\ ~ lane'.wait
  /\ lane.st = "FILL_WB_PRIME" /\ ~ lane.wait /\ ~ b.rdy =>
       lane'.st = "FILL_STREAM" /\ lane'.word = 1 /\ ~ lane'.tail /\ lane'.buf[0] = b.din
  /\ lane.st = "FILL_STREAM" /\ b.dok =>
       /\ \A i \in 0 .. LastWord :
             lane'.buf[i] = IF i = lane.word /\ ~ lane.tail THEN b.din ELSE lane.buf[i]
       /\ IF b.rdy THEN lane'.st = "POSTFILL_WAIT"
          ELSE /\ lane'.st = "FILL_STREAM"
               /\ lane'.word = IF lane.word = LastWord THEN LastWord ELSE lane.word + 1
               /\ lane'.tail <=> lane.word = LastWord

(* A clock of a lane keeps its invariant and moves it as the port is told. *)
LEMMA LaneNext ==
  ASSUME Geometry, LaneInv, NEW b, Bus(b), LaneStep(b)
  PROVE  LaneInv' /\ LaneMoves(b)
<1>1. CASE Elsewhere
  BY <1>1, ElsewhereKept DEF LaneMoves, OtherStates, Mid
<1>2. CASE WbLoad \/ WbPrime \/ WbGap
  BY <1>2, WbLoadKept DEF LaneMoves, OtherStates, Mid
<1>3. CASE WbReq(b)
  BY <1>3, WbReqKept DEF LaneMoves, OtherStates
<1>4. CASE WbStream(b)
  BY <1>4, WbStreamKept DEF LaneMoves, OtherStates, Bus
<1>5. CASE FillReq(b) \/ FillWait
  BY <1>5, FillReqKept DEF LaneMoves, OtherStates
<1>6. CASE FillPrime(b)
  BY <1>6, FillPrimeKept DEF LaneMoves, OtherStates
<1>7. CASE FillStream(b)
  BY <1>7, FillStreamKept DEF LaneMoves, OtherStates
<1> QED BY <1>1, <1>2, <1>3, <1>4, <1>5, <1>6, <1>7 DEF LaneStep, Elsewhere

(* What the lane shows on the port.                                        *)
LEMMA LanePort ==
  ASSUME Geometry, LaneInv
  PROVE  /\ lane.st = "WB_REQ" => ExtWr /\ ~ ExtRd /\ ExtDout = Cell(0)
         /\ lane.st = "WB_STREAM" => ~ ExtRd /\ (ExtWr <=> lane.word # LastWord)
                                     /\ (lane.word # LastWord => ExtDout = Cell(lane.word + 1))
         /\ lane.st \in {"FILL_REQ", "FILL_WB_WAIT", "FILL_WB_PRIME"} => ExtRd /\ ~ ExtWr
         /\ lane.st = "FILL_STREAM" => ~ ExtWr /\ (ExtRd <=> lane.word # LastWord)
         /\ ExtReq => lane.st \in Mid \cup {"WB_REQ", "FILL_REQ"}
<1>1. LaneRegs /\ WbReady /\ Counted /\ Half \in Nat \ {0} /\ Words \in Nat /\ LastWord = Words - 1
  BY DEF LaneInv, Geometry, LastWord
<1>2. lane.st = "WB_REQ" => ExtDout = Cell(0)
  <2> HAVE lane.st = "WB_REQ"
  <2>1. lane.wb = 0 /\ HalfIndex = 0
    BY <1>1 DEF HalfIndex, WbReady, Counted
  <2>2. 0 % Half = 0 /\ 0 * Half = 0
    BY <1>1
  <2>3. (lane.wb * Half) + (IF Half > 1 THEN HalfIndex % Half ELSE 0) = 0
    BY <2>1, <2>2
  <2> QED BY <2>3 DEF ExtDout
<1>3. lane.st = "WB_STREAM" /\ lane.word # LastWord => ExtDout = Cell(lane.word + 1)
  <2> HAVE lane.st = "WB_STREAM" /\ lane.word # LastWord
  <2>1. lane.word \in Nat /\ lane.word < LastWord
    BY <1>1 DEF LaneRegs
  <2>2. (lane.wb * Half) + (IF Half > 1 THEN HalfIndex % Half ELSE 0) = lane.word + 1
    <3>1. CASE Half = 1
      <4>1. lane.wb = lane.word + 1 /\ lane.wb * 1 = lane.wb
        BY <1>1, <2>1, <3>1 DEF WbReady
      <4> QED BY <2>1, <3>1, <4>1
    <3>2. CASE Half # 1
      <4>1. HalfIndex = lane.word + 1 /\ Half > 1
        BY <1>1, <2>1, <3>2 DEF HalfIndex
      <4> QED BY <1>1, <2>1, <3>2, <4>1 DEF WbReady
    <3> QED BY <3>1, <3>2
  <2> QED BY <2>2 DEF ExtDout
<1> QED BY <1>2, <1>3 DEF ExtWr, ExtRd, ExtReq, Mid

(* A lane starts in its invariant.                                         *)
LEMMA LaneStarts ==
  ASSUME Geometry, LaneInit
  PROVE  LaneInv /\ lane.st = "IDLE"
<1>1. 0 \in 0 .. LastWord
  BY DEF Geometry, LastWord
<1> QED BY <1>1 DEF LaneInit, LaneInv, LaneRegs, WbReady, Counted, AllStates, OtherStates

=============================================================================
