---------------------------- MODULE CacheMuxArb ----------------------------
(***************************************************************************)
(* The arbiter of the cache mux, jtframe_cache_mux_arb.v: the lowest lane  *)
(* that asks owns the burst port until rdy.  req is the set of lanes that  *)
(* ask in this clock.                                                      *)
(***************************************************************************)
EXTENDS Naturals, FiniteSetsExt

CONSTANTS Lanes     \* the lanes of the mux, numbers

ASSUME LanesAssumption == Lanes \subseteq Nat /\ Lanes # {}

VARIABLE arb

ArbInit == arb = [active |-> FALSE, sel |-> 0]

Owns(l) == arb.active /\ arb.sel = l

Hold    == arb.active /\ UNCHANGED arb
Release == arb.active /\ arb' = [arb EXCEPT !.active = FALSE]
Stay    == ~ arb.active /\ UNCHANGED arb
Pick(req) == ~ arb.active /\ arb' = [active |-> TRUE, sel |-> Min(req)]

ArbStep(req, rdy) ==
  \/ ~ rdy /\ Hold
  \/ rdy /\ Release
  \/ req = {} /\ Stay
  \/ req # {} /\ Pick(req)

=============================================================================
