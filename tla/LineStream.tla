---------------------------- MODULE LineStream ----------------------------
(***************************************************************************)
(* How one cache lane moves a line, half-word by half-word, over the burst *)
(* port: the states of jtframe_cache_ctrl.sv that module Cache abstracts   *)
(* to one step.  Everything before and after a transfer keeps its clocks   *)
(* but chooses freely: a lookup hits, misses a clean victim or misses a    *)
(* dirty one, a flush finds dirty blocks or not.                           *)
(*                                                                         *)
(* b is what the arbiter hands the lane in this clock: ack, dok, rdy and   *)
(* the data bus din.  A half-word is the cell of memory it belongs to.     *)
(***************************************************************************)
EXTENDS Naturals

CONSTANTS
  Words,    \* WORDS: half-words in a line
  Half,     \* HALF_PER_WORD: half-words in a word of the data RAM
  Bank,     \* the bank of the lane
  Base      \* the first cell of its line

VARIABLE lane

LastWord == Words - 1
Cell(i)  == <<Bank, Base + i>>
Stale    == <<>>                 \* a half-word of the line that was evicted

WriteStates == {"WB_LOAD", "WB_PRIME", "WB_REQ", "WB_STREAM", "WB_GAP"}
ReadStates  == {"FILL_REQ", "FILL_WB_WAIT", "FILL_WB_PRIME", "FILL_STREAM"}
OtherStates == {"IDLE", "LOOKUP", "POSTFILL_WAIT", "SERVE",
                "FLUSH_WAIT", "FLUSH_CHECK", "FLUSH_ADVANCE"}

LaneInit ==
  lane = [st |-> "IDLE", flushing |-> FALSE, word |-> 0, wait |-> FALSE, tail |-> FALSE,
          at |-> 0, q |-> 0, wb |-> 0, buf |-> [i \in 0..LastWord |-> Cell(i)]]

(* wb_ext_word: the half-word on the bus while a line is written back.     *)
HalfIndex_fault == lane.word
HalfIndex ==
  IF Half > 1 /\ lane.st = "WB_STREAM" /\ lane.word # LastWord THEN lane.word + 1
                                                               ELSE lane.word

ExtDout == Cell(lane.wb * Half + IF Half > 1 THEN HalfIndex % Half ELSE 0)

ExtRd == \/ lane.st \in {"FILL_REQ", "FILL_WB_WAIT", "FILL_WB_PRIME"}
         \/ lane.st = "FILL_STREAM" /\ lane.word # LastWord
ExtWr == \/ lane.st = "WB_REQ"
         \/ lane.st = "WB_STREAM" /\ lane.word # LastWord
ExtReq == ExtRd \/ ExtWr

(* The data RAM answers an address one clock later.                        *)
Fetch(r, i) == [r EXCEPT !.at = i, !.q = i]
Keep(r)     == [r EXCEPT !.q = r.at]

-----------------------------------------------------------------------------
To(s) == lane' = [lane EXCEPT !.st = s]

Rest    == lane.st = "IDLE" /\ UNCHANGED lane
Ask     == lane.st = "IDLE" /\ To("LOOKUP")
Flush   == lane.st = "IDLE" /\ lane' = [lane EXCEPT !.st = "FLUSH_CHECK", !.flushing = TRUE]
Hit     == lane.st = "LOOKUP" /\ To("SERVE")
Serve   == lane.st = "SERVE" /\ To("IDLE")
Wait    == lane.st = "FLUSH_WAIT" /\ To("FLUSH_CHECK")
Check   == lane.st = "FLUSH_CHECK" /\ To("FLUSH_ADVANCE")
Advance == lane.st = "FLUSH_ADVANCE" /\ To("FLUSH_WAIT")
Done    == lane.st = "FLUSH_ADVANCE" /\ lane' = [lane EXCEPT !.st = "IDLE", !.flushing = FALSE]

Evict ==
  /\ lane.st \in {"LOOKUP", "FLUSH_CHECK"}
  /\ lane' = [lane EXCEPT !.st = "WB_LOAD", !.word = 0, !.tail = FALSE]

Miss ==
  /\ lane.st = "LOOKUP"
  /\ lane' = [lane EXCEPT !.st = "FILL_REQ", !.word = 0, !.tail = FALSE]

WbLoad ==
  /\ lane.st = "WB_LOAD"
  /\ lane' = Fetch([lane EXCEPT !.st = "WB_PRIME"], 0)

WbPrime ==
  /\ lane.st = "WB_PRIME"
  /\ LET r == [lane EXCEPT !.st = "WB_REQ", !.wb = lane.q]
     IN lane' = IF Words > Half THEN Fetch(r, 1) ELSE Keep(r)

WbReq(b) ==
  /\ lane.st = "WB_REQ"
  /\ IF b.ack
       THEN LET r == [lane EXCEPT !.st = "WB_STREAM", !.word = 0,
                                  !.wb = IF Half = 1 THEN lane.q ELSE lane.wb]
            IN lane' = IF Half = 1 /\ Words > 2 THEN Fetch(r, 2) ELSE Keep(r)
       ELSE lane' = Keep(lane)

(* The address of the next word is presented three half-words ahead when   *)
(* the RAM holds half-words, and once in a word when it holds wider words. *)
WbPrefetch(r) ==
  IF Half = 1
    THEN IF lane.word + 2 < LastWord THEN Fetch(r, lane.word + 3) ELSE Keep(r)
    ELSE IF /\ Words > 2 * Half
            /\ lane.word % Half = Half - 1
            /\ lane.word + Half < LastWord
           THEN Fetch(r, (lane.word + Half + 1) \div Half)
           ELSE Keep(r)

WbTakes == Half = 1 \/ lane.word % Half = Half - 2

WbStream(b) ==
  /\ lane.st = "WB_STREAM"
  /\ lane' = WbPrefetch(
       IF b.rdy THEN [lane EXCEPT !.st = "WB_GAP", !.word = 0, !.tail = FALSE]
       ELSE IF lane.word = LastWord THEN lane
       ELSE [lane EXCEPT !.word = lane.word + 1,
                         !.wb = IF WbTakes THEN lane.q ELSE lane.wb])

(* The registers of the write-back are dead once it is over.               *)
WbGap ==
  /\ lane.st = "WB_GAP"
  /\ lane' = [lane EXCEPT !.st = IF lane.flushing THEN "FLUSH_ADVANCE" ELSE "FILL_REQ",
                          !.at = 0, !.q = 0, !.wb = 0]

FillReq(b) ==
  /\ lane.st = "FILL_REQ"
  /\ IF b.ack THEN lane' = [lane EXCEPT !.st = "FILL_WB_WAIT", !.word = 0, !.tail = FALSE,
                                        !.buf = [i \in 0..LastWord |-> Stale]]
              ELSE UNCHANGED lane

FillWait ==
  /\ lane.st = "FILL_WB_WAIT"
  /\ lane' = [lane EXCEPT !.st = "FILL_WB_PRIME", !.wait = TRUE]

(* The first half-word is taken by counting clocks from ack, without dok.  *)
FillPrime(b) ==
  /\ lane.st = "FILL_WB_PRIME"
  /\ lane' = IF lane.wait THEN [lane EXCEPT !.wait = FALSE]
             ELSE IF b.rdy THEN [lane EXCEPT !.buf[0] = b.din, !.st = "POSTFILL_WAIT", !.word = 0]
             ELSE [lane EXCEPT !.buf[0] = b.din, !.st = "FILL_STREAM", !.word = 1]

FillStream_fault(b) ==
  /\ lane.st = "FILL_STREAM"
  /\ lane' = IF ~ b.dok THEN lane
             ELSE IF b.rdy THEN [lane EXCEPT !.buf[lane.word] = b.din, !.tail = FALSE,
                                             !.word = 0, !.st = "POSTFILL_WAIT"]
             ELSE IF lane.word # LastWord
                    THEN [lane EXCEPT !.buf[lane.word] = b.din, !.word = lane.word + 1]
                    ELSE [lane EXCEPT !.buf[lane.word] = b.din, !.tail = TRUE]

FillStream(b) ==
  /\ lane.st = "FILL_STREAM"
  /\ LET stored == IF b.dok /\ ~ lane.tail THEN [lane EXCEPT !.buf[lane.word] = b.din]
                                           ELSE lane
     IN lane' = IF ~ b.dok THEN lane
                ELSE IF b.rdy THEN [stored EXCEPT !.st = "POSTFILL_WAIT", !.word = 0,
                                                  !.tail = FALSE]
                ELSE IF lane.word # LastWord THEN [stored EXCEPT !.word = lane.word + 1]
                ELSE [stored EXCEPT !.tail = TRUE]

PostFill == lane.st = "POSTFILL_WAIT" /\ To("SERVE")

LaneStep(b) ==
  \/ Rest \/ Ask \/ Flush \/ Hit \/ Serve
  \/ Wait \/ Check \/ Advance \/ Done
  \/ Evict \/ Miss
  \/ WbLoad \/ WbPrime \/ WbReq(b) \/ WbStream(b) \/ WbGap
  \/ FillReq(b) \/ FillWait \/ FillPrime(b) \/ FillStream(b)
  \/ PostFill

=============================================================================
