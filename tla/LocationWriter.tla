--------------------------- MODULE LocationWriter ---------------------------
(***************************************************************************)
(* The other side of the location table: the compiler that writes it.  It  *)
(* is not part of the repository; pyc_code.cpp reads what it writes.       *)
(*                                                                         *)
(* A source location is the number of code units of an instruction and the *)
(* line, end line and columns its text came from.  The table comes with    *)
(* the listing LocationListing describes.                                  *)
(***************************************************************************)
EXTENDS Integers, Sequences, SequencesExt

WriteVarint(u) ==
  LET V[n \in 0..u] == IF n < 64 THEN <<n>> ELSE <<64 + (n % 64)>> \o V[n \div 64]
  IN V[u]

WriteSigned(d) == WriteVarint(IF d < 0 THEN 2 * (-d) + 1 ELSE 2 * d)

FirstByte(form, units) == 128 + form * 8 + units - 1

\* The form of an entry of the instruction at loc, and what follows its first byte.
Chosen(loc, prev) ==
  LET d == loc.line - prev
      E(form, rest) == [form |-> form, rest |-> rest]
  IN
  IF loc.line = -1 THEN E(15, <<>>)
  ELSE IF loc.scol < 0 \/ loc.ecol < 0 THEN E(13, <<WriteSigned(d)>>)
  ELSE IF loc.eline = loc.line /\ d = 0 /\ loc.scol < 80
          /\ loc.ecol - loc.scol \in 0..15
    THEN E(loc.scol \div 8, << <<(loc.scol % 8) * 16 + loc.ecol - loc.scol>> >>)
  ELSE IF loc.eline = loc.line /\ d \in 0..2 /\ loc.scol < 128 /\ loc.ecol < 128
    THEN E(10 + d, << <<loc.scol>>, <<loc.ecol>> >>)
  ELSE E(14, <<WriteSigned(d), WriteVarint(loc.eline - loc.line),
               WriteVarint(loc.scol + 1), WriteVarint(loc.ecol + 1)>>)

\* An instruction longer than eight units is written in pieces.
Splits(units) ==
  [k \in 1..((units + 7) \div 8) |-> IF 8 * k <= units THEN 8 ELSE units % 8]

\* What is written so far: the bytes, the line and the code units behind them.
WritePiece(s, k, loc, units) ==
  LET e      == Chosen(loc, s.prev)
      p      == Len(s.bytes)
      EndOfPart(i) == p + 1 + Len(FlattenSeq(SubSeq(e.rest, 1, i)))
      next   == EndOfPart(Len(e.rest))
  IN [bytes  |-> s.bytes \o <<FirstByte(e.form, units)>> \o FlattenSeq(e.rest),
      prev   |-> IF loc.line = -1 THEN s.prev ELSE loc.line,
      from   |-> s.from + units,
      pieces |-> Append(s.pieces,
                   [of |-> k, from |-> s.from, units |-> units, form |-> e.form, prev |-> s.prev,
                    at |-> p, ends |-> [i \in 1..Len(e.rest) |-> EndOfPart(i)], next |-> next])]

\* Every location with the code units before its instruction.
Placed(locs) ==
  LET Before(k) == FoldLeft(LAMBDA n, l : n + l.units, 0, SubSeq(locs, 1, k - 1))
  IN [k \in 1..Len(locs) |-> [from |-> Before(k)] @@ locs[k]]

WriteTable(first, locs) ==
  FoldLeft(LAMBDA s, k : FoldLeft(LAMBDA t, u : WritePiece(t, k, locs[k], u), s, Splits(locs[k].units)),
           [bytes |-> <<>>, prev |-> first, from |-> 0, pieces |-> <<>>],
           [k \in 1..Len(locs) |-> k])
=============================================================================
