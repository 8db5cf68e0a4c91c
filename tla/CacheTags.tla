----------------------------- MODULE CacheTags -----------------------------
(***************************************************************************)
(* The tag store of one cache lane, jtframe_cache_tags.sv.                 *)
(*                                                                         *)
(* Each way has a dual-port RAM indexed by set.  Port 0 is read every      *)
(* clock and its output is registered (q), so every comparison made in a   *)
(* clock uses the set that was addressed in the clock before it.  Port 1   *)
(* clears, or writes one entry.  A read that meets a write to the same set *)
(* returns the entry before the write, as the RTL does.                    *)
(*                                                                         *)
(* Here and in the modules above this one, an operator whose name ends in  *)
(* _fault is a broken variant of the definition after it: the bug that a   *)
(* property is there to notice.  Nothing uses it.                          *)
(***************************************************************************)
EXTENDS Naturals

CONSTANTS
  Ways,    \* number of ways: WAYS
  Sets,    \* number of sets: SETS
  Tags,    \* number of values of an address tag: 2^TAGW
  Offs,    \* words in a line: DEPTH
  Vals     \* distinct data words

ASSUME GeometryAssumption ==
  /\ Ways \in Nat \ {0}
  /\ Sets \in Nat \ {0}
  /\ Tags \in Nat \ {0}
  /\ Offs \in Nat \ {0}
  /\ Vals \in Nat \ {0}

VARIABLE tags

Way == 0 .. Ways-1
Set == 0 .. Sets-1
Tag == 0 .. Tags-1
Off == 0 .. Offs-1
Val == 0 .. Vals-1

Addr  == [tag: Tag, set: Set, off: Off]   \* what a requester addresses
Block == [set: Set, way: Way]             \* where a line sits in the data RAM
Entry == [valid: BOOLEAN, dirty: BOOLEAN, tag: Tag]

NoEntry == [valid |-> FALSE, dirty |-> FALSE, tag |-> 0]

TagsInit ==
  /\ tags \in [ram:  [Set -> [Way -> Entry]],
               q:    [Way -> {NoEntry}],
               repl: [Set -> {0}]]

TagStore == [ram:  [Set -> [Way -> Entry]],
             q:    [Way -> Entry],
             repl: [Set -> Way]]

TagsType == tags \in TagStore

(* Comparison of the registered entries with the tag that is looked up.    *)
Matches_fault(tag) == {w \in {0} : tags.q[w].valid /\ tags.q[w].tag = tag}

Matches(tag) == {w \in Way : tags.q[w].valid /\ tags.q[w].tag = tag}
Hit(tag)     == Matches(tag) # {}
HitWay(tag)  == CHOOSE w \in Matches(tag) : \A v \in Matches(tag) : v <= w

(* An invalid way is preferred, the lowest one; otherwise the victim is    *)
(* the way the set's replacement pointer names.                            *)
Invalid        == {w \in Way : ~ tags.q[w].valid}
VictimWay(set) == IF Invalid # {}
                    THEN CHOOSE w \in Invalid : \A v \in Invalid : w <= v
                    ELSE tags.repl[set]
VictimDirty_fault(set) == FALSE
VictimDirty(set) == Invalid = {} /\ tags.q[tags.repl[set]].dirty
VictimTag_fault(set) == 0
VictimTag(set)   == IF Invalid = {} THEN tags.q[tags.repl[set]].tag ELSE 0

NextWay_fault(w) == w + 1

NextWay(w) == (w + 1) % Ways

(* The clock edge of the tag store: rs is the set read through port 0.     *)
TagsRead(rs) ==
  tags' = [tags EXCEPT !.q = tags.ram[rs]]

TagsClear(rs, s) ==
  tags' = [tags EXCEPT !.q = tags.ram[rs], !.ram[s] = [w \in Way |-> NoEntry]]

TagsUpdate(rs, s, w, e) ==
  tags' = [tags EXCEPT !.q = tags.ram[rs], !.ram[s][w] = e]

TagsAdvance(rs, s, w) ==
  tags' = [tags EXCEPT !.q = tags.ram[rs], !.repl[s] = NextWay(w)]

=============================================================================
