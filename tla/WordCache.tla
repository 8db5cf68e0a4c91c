----------------------------- MODULE WordCache -----------------------------
(***************************************************************************)
(* The small ROM cache of a slot, jtframe_romrq_xscache.v with             *)
(* jtframe_ucache.v: half-words that were asked for, compared with all     *)
(* entries at once and replaced in turn.  A client of 16 bits.  clr is     *)
(* tied to 0 in every slot.                                                *)
(*                                                                         *)
(* u is the registers; i is as in LineCache.                               *)
(***************************************************************************)
EXTENDS Naturals

CONSTANT Words   \* SIZE: entries of the cache

Entries == 0 .. Words - 1

WordReset ==
  [valid |-> [e \in Entries |-> FALSE], amem |-> [e \in Entries |-> 0],
   dmem |-> [e \in Entries |-> 0], wr_indx |-> 0, ok |-> FALSE, dout |-> 0]

Match(u, i)   == {e \in Entries : u.valid[e] /\ u.amem[e] = i.a}
Served(i)     == i.we /\ i.dst
WordReq(u, i) == i.cs /\ Match(u, i) = {} /\ ~ Served(i)

(* The word that comes is kept under the address that is on the port now.  *)
Keeps(u, i) == i.cs /\ Served(i) /\ Match(u, i) = {}

WordStep(u, i) ==
  LET keep == Keeps(u, i)
      Put(f, v) == IF keep THEN [f EXCEPT ![u.wr_indx] = v] ELSE f
  IN [valid   |-> Put(u.valid, TRUE),
      amem    |-> Put(u.amem, i.a),
      dmem    |-> Put(u.dmem, i.din),
      wr_indx |-> IF keep THEN (u.wr_indx + 1) % Words ELSE u.wr_indx,
      ok      |-> i.cs /\ (Match(u, i) # {} \/ Served(i)),
      dout    |-> IF ~ i.cs THEN u.dout
                  ELSE IF Match(u, i) # {} THEN u.dmem[CHOOSE e \in Match(u, i) : TRUE]
                  ELSE IF Served(i) THEN i.din ELSE u.dout]
=============================================================================
