-------------------------------- MODULE Dis --------------------------------
(***************************************************************************)
(* What CPython's modules opcode and dis say of each version: where        *)
(* arguments begin, the opcode of a prefix, and the jumps.  Not part of    *)
(* this repository.                                                        *)
(***************************************************************************)
EXTENDS Integers

\* The versions there are tables for.
Versions ==
  {<<1, n>> : n \in {0, 1, 3, 4, 5, 6}} \cup {<<2, n>> : n \in 0..7} \cup {<<3, n>> : n \in 0..13}

From(w, maj, min)           == w[1] > maj \/ (w[1] = maj /\ w[2] >= min)
Between(w, maj, low, high)  == w[1] = maj /\ w[2] >= low /\ w[2] <= high

WordCode(w) == From(w, 3, 6)

\* dis.HAVE_ARGUMENT and dis.EXTENDED_ARG
HAVE_ARGUMENT(w) == IF From(w, 3, 13) THEN 45 ELSE 90

HasPrefixes(w) == From(w, 2, 0)

EXTENDED_ARG(w) ==
  CASE From(w, 3, 13) -> 71
    [] From(w, 3, 2) /\ ~From(w, 3, 13) -> 144
    [] w = <<2, 7>> -> 145
    [] OTHER -> 143

\* dis.hasjrel, forward and backward, and dis.hasjabs until 3.11.
JumpsToEarly(w) == From(w, 2, 7) /\ w # <<3, 0>>

hasjrel(w) ==
  {110} \cup (IF From(w, 2, 2) THEN {93} ELSE {})
        \cup (IF ~From(w, 2, 3) THEN {114} ELSE {})
        \cup (IF ~JumpsToEarly(w) \/ From(w, 3, 11) THEN {111, 112} ELSE {})
        \cup (IF ~From(w, 3, 8) THEN {120, 121} ELSE {})
        \cup (IF ~From(w, 3, 11) THEN {122} ELSE {})
        \cup (IF w = <<2, 7>> \/ Between(w, 3, 2, 10) THEN {143} ELSE {})
        \cup (IF Between(w, 3, 5, 10) THEN {154} ELSE {})
        \cup (IF w = <<3, 8>> THEN {162} ELSE {})
        \cup (IF w = <<3, 11>> THEN {114, 115, 123, 128, 129} ELSE {})

hasjback(w) == IF w = <<3, 11>> THEN {134, 140, 173, 174, 175, 176} ELSE {}

hasjabs(w) ==
  IF From(w, 3, 11) THEN {}
  ELSE {113} \cup (IF JumpsToEarly(w) THEN {111, 112, 114, 115} ELSE {})
             \cup (IF From(w, 3, 9) THEN {121} ELSE {})

\* What one more in the argument of a jump is in bytes.
Unit(w) == IF From(w, 3, 10) THEN 2 ELSE 1
=============================================================================
