------------------------------ MODULE MCSlots ------------------------------
(***************************************************************************)
(* Two slots of one bank, in the pairs of kinds that differ.               *)
(***************************************************************************)
EXTENDS Slots

Setup(a, b, manners, tag, len, auto) ==
  [kind |-> [s \in Slots |-> IF s = 0 THEN a ELSE b],
   client |-> [s \in Slots |-> IF s = 0 THEN "hold" ELSE manners],
   tag_ram |-> tag, len |-> len, auto |-> auto, erase |-> {}]

(* Addresses of three lines, two of which share an entry of the cache; the *)
(* client of the first slot takes turns between those.                     *)
Addresses == [s \in Slots |-> IF s = 0 THEN {0, 8} ELSE {0, 3, 8}]

(* A RAM with a cache; two RAMs in the same cells, both of them erased;    *)
(* caches that share the bank and wait their turn, the second with a       *)
(* client that does not wait; and each cache alone with the worst of       *)
(* clients.                                                                *)
Pairs ==
  {Setup("ram", "block", "hold", FALSE, 2, TRUE),
   [Setup("ram", "ram", "hold", FALSE, 2, FALSE) EXCEPT !.erase = {0, 1}],
   Setup("word", "line", "hold", TRUE, 2, FALSE),
   Setup("line", "line", "toggle", FALSE, 2, FALSE),
   Setup("line", "block", "toggle", TRUE, 4, FALSE)}
  \cup {Setup("none", k, m, FALSE, 2, FALSE) :
          k \in {"line", "block", "word"}, m \in {"toggle", "glitch"}}
  \cup {Setup("none", "line", m, TRUE, 2, FALSE) : m \in {"toggle", "glitch"}}
=============================================================================
