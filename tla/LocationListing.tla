-------------------------- MODULE LocationListing --------------------------
(***************************************************************************)
(* LineTable on tables that come with their listing: the source locations  *)
(* they were written from, and the entries, pieces of them of at most      *)
(* eight code units.  Written says when the bytes are those of the         *)
(* listing; LocationWriter writes such tables.                             *)
(***************************************************************************)
EXTENDS LineTable

\* A table that is no compiler's, or not known to be, has no entries.
IsWritten(c) == c.whole \/ c.pieces # <<>>

Varints == Seq(Nat)

\* A location is an instruction's: its code units begin behind those "from".
\* A piece is the entry at "at" for the units behind "from" of the location
\* "of", prev being the line of the one before; its varints end at "ends".
Location ==
  [from : Nat, units : Nat, line : Int, eline : Int, scol : Int, ecol : Int]

Piece == [of : Nat, from : Nat, units : 1..8, form : 0..15, prev : Int, at : Nat, ends : Varints,
          next : Nat]

\* The byte at p, if the table is not cut off before it.
HasByte(T, p, byte) == p < Len(T) => T[p + 1] = byte

\* The groups of six bits of a varint, the lowest first.
Group(u, i) ==
  CASE i = 0 -> u % 64
    [] i = 1 -> (u \div 64) % 64
    [] i = 2 -> (u \div 4096) % 64
    [] i = 3 -> (u \div 262144) % 64
    [] i = 4 -> u \div 16777216

\* What so many bytes have room for.
Room(m) ==
  CASE m = 1 -> 64
    [] m = 2 -> 4096
    [] m = 3 -> 262144
    [] m = 4 -> 16777216
    [] m = 5 -> 1073741824

\* The varint u from p up to q.
IsVarint(T, p, q, u) ==
  \E m \in 1..5 :
    /\ q = p + m
    /\ u \in Nat /\ u < Room(m)
    /\ \A i \in 0..(m - 1) :
         HasByte(T, p + i, Group(u, i) + (IF i < m - 1 THEN 64 ELSE 0))

\* The sign is the lowest bit.
Zigzag(d) == IF d < 0 THEN 2 * (-d) + 1 ELSE 2 * d

\* The entry of each form.
IsLong(T, e, l) ==
  /\ Len(e.ends) = 4
  /\ IsVarint(T, e.at + 1, e.ends[1], Zigzag(l.line - e.prev))
  /\ IsVarint(T, e.ends[1], e.ends[2], l.eline - l.line)
  /\ IsVarint(T, e.ends[2], e.ends[3], l.scol + 1)
  /\ IsVarint(T, e.ends[3], e.ends[4], l.ecol + 1)
  /\ e.next = e.ends[4]
  /\ l.eline >= 0

IsNoColumn(T, e, l) ==
  /\ Len(e.ends) = 1
  /\ IsVarint(T, e.at + 1, e.ends[1], Zigzag(l.line - e.prev))
  /\ e.next = e.ends[1]
  /\ l.eline = l.line /\ l.scol = -1 /\ l.ecol = -1

IsOneLine(T, e, l) ==
  /\ e.next = e.at + 3
  /\ l.line = e.prev + e.form - 10 /\ l.eline = l.line
  /\ HasByte(T, e.at + 1, l.scol)
  /\ HasByte(T, e.at + 2, l.ecol)

IsShort(T, e, l) ==
  /\ e.next = e.at + 2
  /\ l.line = e.prev /\ l.eline = l.line
  /\ l.scol \in 0..79 /\ e.form = l.scol \div 8
  /\ l.ecol - l.scol \in 0..15
  /\ HasByte(T, e.at + 1, (l.scol % 8) * 16 + (l.ecol - l.scol))

IsNowhere(e, l) ==
  /\ e.next = e.at + 1
  /\ l.line = -1 /\ l.eline = -1 /\ l.scol = -1 /\ l.ecol = -1

IsEntry(T, e, l) ==
  /\ HasByte(T, e.at, 128 + 8 * e.form + e.units - 1)
  /\ CASE e.form = 15       -> IsNowhere(e, l)
       [] e.form = 14       -> IsLong(T, e, l)
       [] e.form = 13       -> IsNoColumn(T, e, l)
       [] e.form \in 10..12 -> IsOneLine(T, e, l)
       [] e.form \in 0..9   -> IsShort(T, e, l)
       [] OTHER             -> FALSE

\* Where the first n entries end, the units they are for and the line then.
EndOf(c, n)   == IF n = 0 THEN 0 ELSE c.pieces[n].next
UnitsOf(c, n) == IF n = 0 THEN 0 ELSE c.pieces[n].from + c.pieces[n].units

LineOf(c, n) ==
  IF n = 0 THEN c.firstLine
  ELSE IF c.pieces[n].form = 15 THEN c.pieces[n].prev ELSE c.locs[c.pieces[n].of].line

Ends(l) == l.from + l.units

\* Entry by entry, and each inside its instruction.
Pieced(c) ==
  \A i \in 1..Len(c.pieces) :
    LET e == c.pieces[i]
    IN /\ e.of \in 1..Len(c.locs)
       /\ e.at = EndOf(c, i - 1)
       /\ e.from = UnitsOf(c, i - 1)
       /\ e.prev = LineOf(c, i - 1)
       /\ c.locs[e.of].from <= e.from /\ e.from + e.units <= Ends(c.locs[e.of])
       /\ IsEntry(c.lnTable, e, c.locs[e.of])

Written(c) ==
  /\ c.locs \in Seq(Location)
  /\ c.pieces \in Seq(Piece)
  /\ Pieced(c)
  /\ \A k \in 1..Len(c.locs) : Ends(c.locs[k]) <= UnitsOf(c, Len(c.pieces))
  /\ LET n == EndOf(c, Len(c.pieces))
     IN /\ c.whole => Len(c.lnTable) = n
        /\ Len(c.lnTable) > n => c.lnTable[n + 1] < 128

ASSUME ListingsAssumption ==
  \A c \in Codes : c.whole \in BOOLEAN /\ (IsWritten(c) => Written(c))

----------------------------------------------------------------------------
(* Properties                                                                *)

\* The instructions that the offset o is in.
Covering(locs, o) == {k \in 1..Len(locs) : 2 * locs[k].from <= o /\ o < 2 * Ends(locs[k])}

Answers(l) ==
  /\ lineForOffset = l.line /\ elineForOffset = l.eline
  /\ colForOffset = l.scol  /\ ecolForOffset = l.ecol

(* On a table the compiler wrote, every lookup that completes answers with   *)
(* the source location of the instruction at the offset, in all its four     *)
(* parts, and with -1 past the last instruction: buildLineCache undoes the   *)
(* writer's five entry forms, its line deltas and its splitting of long      *)
(* instructions.                                                             *)
LookupMatchesSource ==
  pc = "idle" /\ code.whole /\ ret # "none" =>
    LET ks == Covering(code.locs, off)
    IN IF ks = {} THEN ret = "miss"
                  ELSE ret = "hit" /\ \E k \in ks : Answers(code.locs[k])

(* On a table cut short the answers are still never wrong: a lookup returns  *)
(* the source location or says it knows none, also when it finds the cache   *)
(* an earlier, interrupted build left behind.                                *)
CutTableNeverLies ==
  pc = "idle" /\ IsWritten(code) /\ ret = "hit" =>
    \E k \in Covering(code.locs, off) : Answers(code.locs[k])
=============================================================================
