---------------------------- MODULE CacheSystem ----------------------------
(***************************************************************************)
(* One cache lane with its requester and with the burst controller behind  *)
(* it: what doc/sdram/jtframe_cache.md promises the requester.             *)
(***************************************************************************)
EXTENDS Cache

CONSTANTS
  Uses    \* what the requester may do, a subset of AllUses

AllUses == {"write", "flush", "invalidate",
            "flush_over_request",     \* flush rises although a request is on
            "request_over_flush"}     \* a request rises although a flush is on

ASSUME UsesAssumption == Uses \subseteq AllUses

VARIABLES
  latest,      \* history: the word a reader must see, at every address
  draining     \* history: a flush or an invalidation has been asked for

vars == <<tags, req, port, ctl, data, mem, latest, draining>>

Quiet == [rd |-> FALSE, wr |-> FALSE, at |-> ZeroAddr, din |-> 0,
          flush |-> FALSE, invalidate |-> FALSE]

Init ==
  /\ CacheInit
  /\ port = Quiet
  /\ mem \in [Line -> [Off -> Val]]
  /\ latest = mem
  /\ draining = FALSE

Asking == port.rd \/ port.wr

Reads  == {[Quiet EXCEPT !.rd = TRUE, !.at = a] : a \in Addr}
Writes == UNION {{[Quiet EXCEPT !.wr = TRUE, !.at = a, !.din = v] : v \in Val} : a \in Addr}

MayAsk == draining => "request_over_flush" \in Uses

(* rd and wr stay up until ok is seen, then fall for at least a clock.     *)
Requests ==
  IF Asking
    THEN {IF ctl.ok THEN Quiet ELSE port}
    ELSE {Quiet} \cup {p \in Reads  : MayAsk}
                 \cup {p \in Writes : MayAsk /\ "write" \in Uses}

(* flush and invalidate are pulses of one clock, raised again only once    *)
(* the previous one is done.                                               *)
MayDrain(p) ==
  /\ ~ draining
  /\ Asking \/ p.rd \/ p.wr => "flush_over_request" \in Uses

Drains(p) ==
  {[p EXCEPT !.flush = (d = "flush"), !.invalidate = (d = "invalidate")] :
     d \in {"none"} \cup {u \in Uses \cap {"flush", "invalidate"} : MayDrain(p)}}

ClientStep ==
  /\ \E r \in Requests : \E p \in Drains(r) : port' = p
  /\ draining' = \/ port'.flush \/ port'.invalidate
                 \/ draining /\ ~ ctl.flush_done /\ ~ ctl.invalidate_done
  /\ latest' = IF ctl.ok /\ port.wr
                 THEN [latest EXCEPT ![[tag |-> port.at.tag, set |-> port.at.set]]
                                      [port.at.off] = port.din]
                 ELSE latest

Answers == [ack: BOOLEAN, rdy: BOOLEAN]

Next == \E x \in Answers : CacheStep(x) /\ ClientStep

Spec == Init /\ [][Next]_vars

(* A requester need never ask for anything more.                           *)
Raises == \/ ~ Asking /\ (port'.rd \/ port'.wr)
          \/ port'.flush \/ port'.invalidate

(* The clock runs, and a burst that is asked for is accepted and ends.     *)
BurstMoves ==
  \/ WbReq([ack |-> TRUE, rdy |-> FALSE])
  \/ FillReq([ack |-> TRUE, rdy |-> FALSE])
  \/ WbStream([ack |-> FALSE, rdy |-> TRUE])
  \/ FillStream([ack |-> FALSE, rdy |-> TRUE])

Fairness ==
  /\ WF_vars(Next /\ ~ Raises)
  /\ WF_vars(BurstMoves /\ ReqStep(CtlOut) /\ ClientStep)

FairSpec == Spec /\ Fairness

-----------------------------------------------------------------------------
(* The refinement mapping: the word the lane would return at an address is *)
(* the cached one when a valid entry names the line, memory's otherwise.   *)
Holders(a) == {w \in Way : /\ ctl.st # "INIT_CLEAR"
                           /\ tags.ram[a.set][w].valid
                           /\ tags.ram[a.set][w].tag = a.tag}

LineOf(a) == [tag |-> a.tag, set |-> a.set]

Stored == [a \in Addr |->
  IF Holders(a) = {}
    THEN mem[LineOf(a)][a.off]
    ELSE data[[set |-> a.set, way |-> CHOOSE w \in Holders(a) : TRUE]][a.off]]

Serving == ~ ctl.flushing /\ ctl.st \in ServeStates

Open == [s \in {"main", "probe"} |->
  CASE s = "main"  -> IF Serving THEN {ctl.cur} ELSE {}
    [] s = "probe" -> IF req.probe = "resp" \/ ctl.resp_l
                        THEN {[wr |-> FALSE, at |-> req.probe_at, din |-> 0]}
                        ELSE {}]

Store == INSTANCE WordStore WITH
  Address <- Addr, Word <- Val,
  store <- Stored, open <- Open, ok <- ctl.ok, dout <- ctl.dout

(* The lane is a store of words, whatever the requester overlaps: filling, *)
(* evicting, writing back and flushing never show.                         *)
IsWordStore == Store!StoreSpec

-----------------------------------------------------------------------------
(* Every register holds a value of its width.                              *)
TypeOK ==
  /\ CacheType
  /\ latest \in [Line -> [Off -> Val]]
  /\ draining \in BOOLEAN

(* dout is the last word written there whenever ok answers a read.         *)
ReadLatest == ctl.ok /\ port.rd => ctl.dout = latest[LineOf(port.at)][port.at.off]

(* ok is only seen by a requester that has a request on: no request is     *)
(* served twice.                                                           *)
OkAnswersRequest == ctl.ok => Asking

(* A line is never cached in two ways of its set: a hit is unambiguous and *)
(* no write can go to a copy that a later read does not see.               *)
UniqueTags == ctl.st # "INIT_CLEAR" => \A s \in Set : \A v, w \in Way :
  /\ tags.ram[s][v].valid /\ tags.ram[s][w].valid
  /\ tags.ram[s][v].tag = tags.ram[s][w].tag
  => v = w

(* A valid line without the dirty mark equals memory, so that dropping it  *)
(* loses nothing.                                                          *)
CleanMatchesMemory == ctl.st # "INIT_CLEAR" => \A b \in Block :
  LET e == tags.ram[b.set][b.way] IN
  e.valid /\ ~ e.dirty => data[b] = mem[[tag |-> e.tag, set |-> b.set]]

(* When flush_done is seen, memory holds every word the lane would return. *)
FlushDoneCoherent == ctl.flush_done => \A a \in Addr :
  Stored[a] = mem[LineOf(a)][a.off]

(* While a flush runs no line enters, leaves or changes.                   *)
FlushKeepsLines == [][ctl.flushing =>
  /\ data' = data
  /\ \A s \in Set, w \in Way :
       /\ tags'.ram[s][w].valid = tags.ram[s][w].valid
       /\ tags'.ram[s][w].tag = tags.ram[s][w].tag]_vars

(* When invalidate_done is seen, no line is valid: the next read refills.  *)
InvalidateDoneEmpty == ctl.invalidate_done =>
  \A s \in Set, w \in Way : ~ tags.ram[s][w].valid

(* A request that is held is answered.                                     *)
RequestServed == Asking ~> ctl.ok

(* A flush or an invalidation that was asked for is completed, unless      *)
(* requests keep coming for ever: no single one of them, however it falls, *)
(* holds it off, since every request is answered.                          *)
DrainServed == []<>~ draining \/ []<>Asking

=============================================================================
