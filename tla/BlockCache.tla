----------------------------- MODULE BlockCache -----------------------------
(***************************************************************************)
(* The default buffer of a ROM slot, jtframe_romrq_bcache.v: the last two  *)
(* blocks of two half-words, with LATCH=0.  A block is its number.  clr is *)
(* tied to 0 in every slot.                                                *)
(*                                                                         *)
(* b is the registers, entry 1 the newest; i is as in LineCache.           *)
(***************************************************************************)
EXTENDS Naturals

CONSTANT Double   \* DOUBLE: a burst of four fills both entries

BlockOf(a) == a \div 2

BlockReset ==
  [good |-> <<FALSE, FALSE>>, block |-> <<0, 0>>, data |-> <<<<0, 0>>, <<0, 0>>>>,
   last |-> 0, hitl |-> <<FALSE, FALSE>>, cache_ok |-> FALSE,
   dend |-> FALSE, double |-> FALSE]

Hits(b, i) == [e \in 1..2 |-> b.good[e] /\ b.block[e] = BlockOf(i.a)]
AnyHit(b, i) == Hits(b, i)[1] \/ Hits(b, i)[2]

BlockReq(b, i)  == i.cs /\ ~ i.we /\ ~ AnyHit(b, i)
BlockAddr(i)    == 2 * BlockOf(i.a)
BlockOk(b, i)   == b.cache_ok /\ Hits(b, i) = b.hitl /\ AnyHit(b, i)
BlockDout(b, i) == b.data[IF Hits(b, i)[1] THEN 1 ELSE 2][(i.a % 2) + 1]

-----------------------------------------------------------------------------
(* The first half-word of a block moves the newest block to entry 2; the   *)
(* second one completes it.  The other block of a burst of four is its     *)
(* neighbour: above, or below when the burst has wrapped.                  *)
Neighbour(n) == IF n % 2 = 0 THEN n + 1 ELSE n - 1

FirstOf(b, i) == i.we /\ (i.dst \/ (b.double /\ ~ b.dend))
LastOf(b, i)  == i.we /\ b.dend

CacheOk(b, i) ==
  IF i.we THEN b.cache_ok \/ (LastOf(b, i) /\ ~ Double) ELSE i.cs /\ AnyHit(b, i)

BlockStep(b, i) ==
  LET first == FirstOf(b, i)
      last  == LastOf(b, i)
  IN [good   |-> IF first THEN <<TRUE, b.good[1]>> ELSE b.good,
      block  |-> IF first
                 THEN <<IF b.double THEN Neighbour(b.block[1]) ELSE b.last, b.block[1]>>
                 ELSE b.block,
      data   |-> <<IF last THEN <<b.data[1][2], i.din>>
                   ELSE IF first THEN <<b.data[1][1], i.din>> ELSE b.data[1],
                   IF first THEN b.data[1] ELSE b.data[2]>>,
      last   |-> IF BlockReq(b, i) THEN BlockOf(i.a) ELSE b.last,
      hitl   |-> Hits(b, i),
      cache_ok |-> CacheOk(b, i),
      dend   |-> ~ last /\ (first \/ b.dend),
      double |-> IF ~ i.we THEN FALSE ELSE IF last /\ Double THEN ~ b.double ELSE b.double]
=============================================================================
