----------------------------- MODULE PycLong -----------------------------
(***************************************************************************)
(* An integer constant from the file to the text of the program            *)
(* (pyc_numeric.cpp, PycLong, and its case of print_const).                *)
(*                                                                         *)
(* A word of a number is the set of the positions of its 1 bits, so that   *)
(* "|" is union and a shift moves positions; a number is the set of the    *)
(* positions of its bits, from 0 for the lowest.                           *)
(***************************************************************************)
EXTENDS Integers, Sequences

CONSTANT Longs
  \* What the file holds: records with at least "type", "long" or "int64", the
  \* size "size" before the words of a long, the words "words" of 16 bits, and
  \* whether the file is of Python 3, "py3".

Word == SUBSET (0..15)

ASSUME LongsAssumption ==
  \A l \in Longs :
    /\ l.type \in {"long", "int64"}
    /\ l.size \in Int
    /\ l.words \in Seq(Word)
    /\ l.type = "int64" => Len(l.words) = 4
    /\ l.type = "long" => Len(l.words) \in {l.size, -l.size}
    /\ l.py3 \in BOOLEAN

VARIABLES
  file,      \* the number in the file
  m_size,    \* its number of words, negative for a negative number
  m_value,   \* its words, lowest first
  i,         \* words the loop of repr() has taken
  shift,     \* where in temp the next word goes
  temp,      \* the bits that are not yet in "bits"
  bits,      \* words of 32 bits, lowest first
  text,      \* what is printed: a sign, the words in hexadecimal, an L
  pc         \* "load", "print", "realign", "write", "done", "undefined"

vars == <<file, m_size, m_value, i, shift, temp, bits, text, pc>>

Nothing == [kind |-> "nothing", neg |-> FALSE, groups |-> <<>>, suffix |-> FALSE]

Text(kind, neg, groups) ==
  [kind |-> kind, neg |-> neg, groups |-> groups, suffix |-> ~file.py3]

----------------------------------------------------------------------------
(* PycLong::load                                                             *)

LoadedSize(l) ==
  IF l.type = "long" THEN l.size ELSE IF 15 \in l.words[4] THEN -4 ELSE 4

load ==
  /\ pc = "load"
  /\ m_size' = LoadedSize(file)
  /\ m_value' = file.words
  /\ pc' = "print"
  /\ UNCHANGED <<file, i, shift, temp, bits, text>>

----------------------------------------------------------------------------
(* print_const                                                               *)

\* No case of its own: "<TYPE: 73>".
PrintType ==
  /\ pc = "print"
  /\ file.type = "int64"
  /\ text' = Text("type", FALSE, <<>>)
  /\ pc' = "done"
  /\ UNCHANGED <<file, m_size, m_value, i, shift, temp, bits>>

\* repr() of no words.
PrintZero ==
  /\ pc = "print"
  /\ file.type = "long"
  /\ m_size = 0
  /\ text' = Text("hex", FALSE, <<{}>>)
  /\ pc' = "done"
  /\ UNCHANGED <<file, m_size, m_value, i, shift, temp, bits>>

PrintLong ==
  /\ pc = "print"
  /\ file.type = "long"
  /\ m_size # 0
  /\ pc' = "realign"
  /\ UNCHANGED <<file, m_size, m_value, i, shift, temp, bits, text>>

----------------------------------------------------------------------------
(* repr(): "Realign to 32 bits, since Python uses only 15"                   *)

Left(word, n)  == {b \in 0..31 : b - n \in word}
Right(word, n) == {b \in 0..31 : b + n \in word}

Filled == temp \cup Left(m_value[i + 1], shift)

InLoop == pc = "realign" /\ i < Len(m_value)

\* Mutant: a word of exactly 32 bits is not yet put away.
Gather_Full ==
  /\ InLoop
  /\ shift + 15 <= 32
  /\ temp' = Filled
  /\ shift' = shift + 15
  /\ i' = i + 1
  /\ UNCHANGED <<file, m_size, m_value, bits, text, pc>>

\* The word fits.
Gather ==
  /\ InLoop
  /\ shift + 15 < 32
  /\ temp' = Filled
  /\ shift' = shift + 15
  /\ i' = i + 1
  /\ UNCHANGED <<file, m_size, m_value, bits, text, pc>>

\* Mutant: what did not fit is shifted by the shift, not by what did fit.
Carry_Shift ==
  /\ InLoop
  /\ shift + 15 >= 32
  /\ bits' = Append(bits, Filled)
  /\ shift' = shift - 17
  /\ temp' = Right(m_value[i + 1], shift - 17)
  /\ i' = i + 1
  /\ UNCHANGED <<file, m_size, m_value, text, pc>>

\* It does not: what is left of it starts the next 32 bits.
Carry ==
  /\ InLoop
  /\ shift + 15 >= 32
  /\ bits' = Append(bits, Filled)
  /\ shift' = shift - 17
  /\ temp' = Right(m_value[i + 1], 32 - shift)
  /\ i' = i + 1
  /\ UNCHANGED <<file, m_size, m_value, text, pc>>

\* Mutant: the last bits are forgotten.
EndLoop_Drop ==
  /\ pc = "realign"
  /\ i = Len(m_value)
  /\ bits' = bits
  /\ temp' = {}
  /\ pc' = "write"
  /\ UNCHANGED <<file, m_size, m_value, i, shift, text>>

EndLoop ==
  /\ pc = "realign"
  /\ i = Len(m_value)
  /\ bits' = IF temp = {} THEN bits ELSE Append(bits, temp)
  /\ temp' = {}
  /\ pc' = "write"
  /\ UNCHANGED <<file, m_size, m_value, i, shift, text>>

\* The words from the highest; the highest without leading zeros.
Write ==
  /\ pc = "write"
  /\ bits # <<>>
  /\ text' = Text("hex", m_size < 0, bits)
  /\ pc' = "done"
  /\ UNCHANGED <<file, m_size, m_value, i, shift, temp, bits>>

\* *iter of an empty vector.
WriteUndefined ==
  /\ pc = "write"
  /\ bits = <<>>
  /\ pc' = "undefined"
  /\ UNCHANGED <<file, m_size, m_value, i, shift, temp, bits, text>>

\* Mutant: no room for the sign.
Room_NoSign == 2 + 8 * Len(bits) + 2

\* accum.resize: what may be written.
Room == 3 + 8 * Len(bits) + 2

\* What is written: sign, 0x, the words, L, and the 0 at the end.
HexDigits(word) ==
  CHOOSE d \in 1..8 : /\ \A b \in word : b < 4 * d
                      /\ d > 1 => \E b \in word : b >= 4 * (d - 1)

Written(t) ==
  (IF t.neg THEN 1 ELSE 0) + 2 + HexDigits(t.groups[Len(t.groups)])
    + 8 * (Len(t.groups) - 1) + (IF t.suffix THEN 1 ELSE 0) + 1

Init ==
  /\ file \in Longs
  /\ m_size = 0
  /\ m_value = <<>>
  /\ i = 0
  /\ shift = 0
  /\ temp = {}
  /\ bits = <<>>
  /\ text = Nothing
  /\ pc = "load"

Next ==
  \/ load \/ PrintType \/ PrintZero \/ PrintLong
  \/ Gather \/ Carry \/ EndLoop
  \/ Write \/ WriteUndefined

Spec == Init /\ [][Next]_vars

----------------------------------------------------------------------------
(* Properties                                                                *)

\* The number that words of a width stand for.
Positions(words, width) ==
  UNION {{width * (k - 1) + b : b \in words[k]} : k \in 1..Len(words)}

\* The types, and how far the loop can get.
TypeOK ==
  /\ m_size \in Int
  /\ m_value \in Seq(Word)
  /\ i \in 0..Len(m_value)
  /\ shift \in 0..31
  /\ temp \in SUBSET (0..31)
  /\ bits \in Seq(SUBSET (0..31))
  /\ text \in [kind : {"nothing", "hex", "type"}, neg : BOOLEAN,
               groups : Seq(SUBSET (0..31)), suffix : BOOLEAN]
  /\ pc \in {"load", "print", "realign", "write", "done", "undefined"}

(* The text of a long has the sign and the bits of the number in the file: no  *)
(* bit is lost or moved where a digit lies across two words of 32 bits.        *)
ValueKept ==
  pc = "done" /\ file.type = "long" =>
    /\ Positions(text.groups, 32) = Positions(file.words, 15)
    /\ text.neg <=> file.size < 0

(* The digits of the text fit into the string made for them.                   *)
TextFits == pc = "done" /\ text.kind = "hex" /\ bits # <<>> => Written(text) <= Room

(* A number as CPython writes it, without a leading digit that is zero, is     *)
(* never the case in which repr() reads from an empty vector.                  *)
Normal(l) == l.words # <<>> => l.words[Len(l.words)] # {}

NormalIsDefined == Normal(file) => pc # "undefined"

(* repr() stays inside its memory: it writes no more than there is room for,   *)
(* and of an empty vector it reads only on files that CPython does not write.  *)
InBounds == TextFits /\ NormalIsDefined
=============================================================================
