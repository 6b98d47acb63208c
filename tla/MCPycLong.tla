----------------------------- MODULE MCPycLong -----------------------------
(***************************************************************************)
(* PycLong on the longs of up to five digits, positive and negative, with  *)
(* digits that have bits at both ends, on longs of 33 digits (the 32nd     *)
(* ends at the end of a word of 32 bits), and on 64-bit integers.          *)
(***************************************************************************)
EXTENDS PycLong

Digits == {{}, {0}, {14}, {3, 12, 14}, 0..14}

DigitsUpTo(n) == UNION {[1..k -> Digits] : k \in 0..n}

Signed(w) == {Len(w), -Len(w)}

MCLongs ==
  UNION {{[type |-> "long", size |-> s, words |-> w, py3 |-> p] :
            s \in Signed(w), p \in BOOLEAN} : w \in DigitsUpTo(4)}
  \cup
  {[type |-> "long", size |-> 5, words |-> w \o <<{0, 14}>>, py3 |-> TRUE] : w \in [1..4 -> Digits]}
  \cup
  {[type |-> "long", size |-> -33, words |-> [k \in 1..33 |-> d], py3 |-> TRUE] :
     d \in {{0}, {14}, 0..14}}
  \cup
  {[type |-> "int64", size |-> 0, words |-> <<{}, {}, {0}, h>>, py3 |-> FALSE] :
     h \in {{}, {15}}}
=============================================================================
