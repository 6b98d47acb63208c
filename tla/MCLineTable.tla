---------------------------- MODULE MCLineTable ----------------------------
(***************************************************************************)
(* LineTable on the tables a compiler writes for short instruction lists,  *)
(* whole and cut short anywhere, and on tables with a stray byte.          *)
(***************************************************************************)
EXTENDS LocationListing, LocationWriter

\* One location per entry form; the two of more than eight units take two entries.
Locations ==
  { [units |-> 1, line |-> 10, eline |-> 10, scol |-> 4,  ecol |-> 9],
    [units |-> 2, line |-> 10, eline |-> 10, scol |-> 79, ecol |-> 94],
    [units |-> 9, line |-> 12, eline |-> 12, scol |-> 4,  ecol |-> 40],
    [units |-> 3, line |-> 11, eline |-> 13, scol |-> 0,  ecol |-> 130],
    [units |-> 1, line |-> 8,  eline |-> 8,  scol |-> -1, ecol |-> -1],
    [units |-> 10, line |-> -1, eline |-> -1, scol |-> -1, ecol |-> -1],
    [units |-> 1, line |-> 90, eline |-> 160, scol |-> 200, ecol |-> 3] }

Lists == UNION {[1..n -> Locations] : n \in 0..2} \cup [1..3 -> {l \in Locations : l.line \in {-1, 8, 12}}]
FirstLine == 10

Tables ==
  { LET t == WriteTable(FirstLine, l)
    IN [locs |-> Placed(l), pieces |-> t.pieces, firstLine |-> FirstLine, whole |-> TRUE,
        lnTable |-> t.bytes] : l \in Lists }

Cut ==
  UNION { { [c EXCEPT !.whole = FALSE, !.lnTable = SubSeq(@, 1, k)]
              : k \in 0..(Len(c.lnTable) - 1) }
          : c \in {w \in Tables : Len(w.locs) <= 2} }

Stray ==
  { [c EXCEPT !.whole = FALSE, !.lnTable = Append(@, b)]
      : c \in {w \in Tables : Len(w.locs) <= 1}, b \in {0, 63, 127} }

MCCodes == Tables \cup Cut \cup Stray
MCOffsets == {-1, 0, 1, 2, 17, 18, 23, 24}
=============================================================================
