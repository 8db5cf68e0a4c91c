----------------------------- MODULE WordStore -----------------------------
(***************************************************************************)
(* What a cache lane promises: it is a plain store of words.  An accepted  *)
(* request is answered by one ok strobe; a read is answered with the word  *)
(* the store holds at that moment, a write changes that word and no other. *)
(* Two requests may be open at once, one in each slot: the one the         *)
(* controller works on, and a read that a running flush lets through.      *)
(***************************************************************************)
CONSTANTS Address, Word

VARIABLES
  store,   \* the word at each address
  open,    \* the request open in each slot: a set of at most one
  ok,      \* the completion strobe
  dout     \* the word it brings

Slot == {"main", "probe"}
Ask  == [wr: BOOLEAN, at: Address, din: Word]

StoreInit ==
  /\ store \in [Address -> Word]
  /\ open = [s \in Slot |-> {}]
  /\ ok = FALSE
  /\ dout \in Word

Accept(s, r) ==
  /\ open[s] = {}
  /\ open' = [open EXCEPT ![s] = {r}]
  /\ ok' = FALSE
  /\ UNCHANGED <<store, dout>>

(* The other slot may accept a request in the clock of an answer.          *)
Answer(s, r) ==
  /\ open[s] = {r} /\ open'[s] = {}
  /\ \A t \in Slot \ {s} :
       \/ open'[t] = open[t]
       \/ open[t] = {} /\ \E q \in Ask : open'[t] = {q}
  /\ ok' = TRUE
  /\ IF r.wr
       THEN store' = [store EXCEPT ![r.at] = r.din] /\ UNCHANGED dout
       ELSE dout' = store[r.at] /\ UNCHANGED store

Fall ==
  /\ ok /\ ok' = FALSE
  /\ UNCHANGED <<store, open, dout>>

StoreNext ==
  \/ \E s \in Slot, r \in Ask : Accept(s, r) \/ Answer(s, r)
  \/ Fall

StoreSpec == StoreInit /\ [][StoreNext]_<<store, open, ok, dout>>

=============================================================================
