--------------------------- MODULE MarshalListing ---------------------------
(***************************************************************************)
(* Marshal on files that come with their listing: the objects and          *)
(* references they were written from, in the order of the file.  Listed    *)
(* says when the bytes are those of the listing; MarshalWriter writes such *)
(* files.                                                                  *)
(***************************************************************************)
EXTENDS Marshal

\* A file that is no writer's, or not known to be, has no pieces.
IsListed(f) == f.pieces # <<>>

\* Where the file is behind a part: the piece that is the part, or 0 for a
\* number, its end, the last piece so far, and how many parts so far are numbers.
Part == [piece : Nat, end : Nat, last : Nat, taken : Nat]

\* A piece is what one call of LoadObject reads, from "at" to "next"; behind it
\* stand its parts, and "last" is the last piece in it.
Piece ==
  [type : 0..127, flagged : BOOLEAN, at : Nat, next : Nat, last : Nat,
   val   : Seq(Int),   \* the bytes of a number or text, the numbers of a code object
   parts : Seq(Part),
   way   : Seq(Nat),   \* the pieces it is in, outermost first, and itself
   nth   : Nat,        \* which part of the one around it it is
   to    : Nat,        \* what a reference refers to
   is    : Nat,        \* the type of the object it stands for
   obj   : Nat,        \* the number of this object, in the order they are made
   made : Nat, noted : Nat, kept : Nat]  \* objects, references and interned texts up to it

\* What an object begins with, behind its type.
LeadOf(e) == IF e.type \in Series THEN LengthWidth(e.type) ELSE 0

\* Before the first part of piece i, and behind the nth.
Behind(i, e, n) ==
  IF n = 0 THEN [piece |-> 0, end |-> e.at + 1 + LeadOf(e), last |-> i, taken |-> 0]
           ELSE e.parts[n]

Made(f, i)  == IF i = 0 THEN 0 ELSE f.pieces[i].made
Noted(f, i) == IF i = 0 THEN 0 ELSE f.pieces[i].noted
Kept(f, i)  == IF i = 0 THEN 0 ELSE f.pieces[i].kept

----------------------------------------------------------------------------
(* The comment at the head of pyc_code.cpp, which is the layout of CPython:  *)
(* what each field is in the versions from 1.0, 1.3, 1.5, 2.1, 2.3, 3.0,     *)
(* 3.8 and 3.11 on: 2 or 4 for a number of so many bytes, 1 for an object,   *)
(* or 0.                                                                     *)

Columns == <<<<1, 0>>, <<1, 3>>, <<1, 5>>, <<2, 1>>, <<2, 3>>, <<3, 0>>, <<3, 8>>, <<3, 11>>>>

Row(name, as, in) == [name |-> name, as |-> as, in |-> in]

Rows ==
  << Row("argCount",        "long",     <<0, 2, 2, 2, 4, 4, 4, 4>>),
     Row("posOnlyArgCount", "long",     <<0, 0, 0, 0, 0, 0, 4, 4>>),
     Row("kwOnlyArgCount",  "long",     <<0, 0, 0, 0, 0, 4, 4, 4>>),
     Row("numLocals",       "long",     <<0, 2, 2, 2, 4, 4, 4, 0>>),
     Row("stackSize",       "long",     <<0, 0, 2, 2, 4, 4, 4, 4>>),
     Row("flags",           "long",     <<0, 2, 2, 2, 4, 4, 4, 4>>),
     Row("code",            "string",   <<1, 1, 1, 1, 1, 1, 1, 1>>),
     Row("consts",          "sequence", <<1, 1, 1, 1, 1, 1, 1, 1>>),
     Row("names",           "sequence", <<1, 1, 1, 1, 1, 1, 1, 1>>),
     Row("localNames",      "sequence", <<0, 1, 1, 1, 1, 1, 1, 1>>),
     Row("localKinds",      "string",   <<0, 0, 0, 0, 0, 0, 0, 1>>),
     Row("freeVars",        "sequence", <<0, 0, 0, 1, 1, 1, 1, 0>>),
     Row("cellVars",        "sequence", <<0, 0, 0, 1, 1, 1, 1, 0>>),
     Row("fileName",        "string",   <<1, 1, 1, 1, 1, 1, 1, 1>>),
     Row("name",            "string",   <<1, 1, 1, 1, 1, 1, 1, 1>>),
     Row("qualName",        "string",   <<0, 0, 0, 0, 0, 0, 0, 1>>),
     Row("firstLine",       "long",     <<0, 0, 2, 2, 4, 4, 4, 4>>),
     Row("lnTable",         "string",   <<0, 0, 1, 1, 1, 1, 1, 1>>),
     Row("exceptTable",     "string",   <<0, 0, 0, 0, 0, 0, 0, 1>>) >>

NotBefore(v, c) == v.maj > c[1] \/ (v.maj = c[1] /\ v.min >= c[2])

Column(v) == CHOOSE k \in 1..8 :
  NotBefore(v, Columns[k]) /\ (k = 8 \/ ~NotBefore(v, Columns[k + 1]))

FieldsOf(v) ==
  LET column == Column(v)
      rows   == SelectSeq(Rows, LAMBDA r : r.in[column] # 0)
  IN [k \in 1..Len(rows) |->
        [name |-> rows[k].name, kind |-> IF rows[k].in[column] = 2 THEN "short" ELSE rows[k].as]]

\* The versions there are.
KnownVersions == [maj : 1..3, min : 0..13, unicode : BOOLEAN]

\* PycCode::load reads the fields of the comment.
ASSUME LayoutAssumption == \A v \in KnownVersions : Layout(v) = FieldsOf(v)

----------------------------------------------------------------------------
(* The bytes of a listing.  Each is there as far as the file is not cut off  *)
(* before it.                                                                *)

HasByte(f, p, b)   == p < Len(f.bytes) => f.bytes[p + 1] = b
HasBytes(f, p, s)  == \A i \in 1..Len(s) : HasByte(f, p + i - 1, s[i])
HasShort(f, p, n)  == n \in Nat /\ n < 65536 /\ HasByte(f, p, n % 256) /\ HasByte(f, p + 1, n \div 256)
Fits(n) == n \in Nat /\ n <= 2147483647
HasLong(f, p, n)   ==
  /\ Fits(n)
  /\ HasShort(f, p, n % 65536) /\ HasShort(f, p + 2, n \div 65536)

\* A length in front of a text or of elements.
HasLength(f, t, p, n) ==
  IF LengthWidth(t) = 1 THEN n < 256 /\ HasByte(f, p, n) ELSE HasLong(f, p, n)

\* The least bytes that say how long a number of type t is, and the bytes that
\* one takes which begins with those of v.
Lead(t) == CASE t = TYPE_LONG -> 4 [] t = TYPE_FLOAT -> 1 [] t = TYPE_COMPLEX -> 2 [] OTHER -> 0

Digits(v) == Int32(v[1] + 256 * v[2], v[3] + 256 * v[4])

Sized(t, v) ==
  CASE t = TYPE_INT -> 4
    [] t \in {TYPE_INT64, TYPE_BINARY_FLOAT} -> 8
    [] t = TYPE_BINARY_COMPLEX -> 16
    [] t = TYPE_LONG -> 4 + 2 * (IF Digits(v) < 0 THEN -Digits(v) ELSE Digits(v))
    [] t = TYPE_FLOAT -> 1 + v[1]
    [] t = TYPE_COMPLEX -> 2 + v[1] + v[2 + v[1]]

IsNumeral(f, e) ==
  /\ e.val \in Seq(Byte) /\ Lead(e.type) <= Len(e.val)
  /\ e.type = TYPE_COMPLEX => 2 + e.val[1] <= Len(e.val)
  /\ Len(e.val) = Sized(e.type, e.val)
  /\ HasBytes(f, e.at + 1, e.val)
  /\ e.next = e.at + 1 + Len(e.val)

IsText(f, e) ==
  LET from == e.at + 1 + LengthWidth(e.type)
  IN /\ HasLength(f, e.type, e.at + 1, Len(e.val))
     /\ HasBytes(f, from, e.val)
     /\ e.type \in Ascii => check_ascii(e.val)
     /\ e.next = from + Len(e.val)

IsReference(f, i, e) ==
  LET to == f.pieces[e.to]
  IN /\ ~e.flagged /\ e.to \in 1..(i - 1) /\ to.flagged
     /\ HasLong(f, e.at + 1, to.noted - 1)
     /\ e.obj = to.obj /\ e.is = to.is
     /\ e.next = e.at + 5

IsStringReference(f, i, e) ==
  LET to == f.pieces[e.to]
  IN /\ e.to \in 1..(i - 1) /\ to.type \in Interned
     /\ HasLong(f, e.at + 1, to.kept - 1)
     /\ e.val = to.val /\ e.is = to.type
     /\ e.next = e.at + 5

\* The kth part, an object: it follows what was before it.
IsPart(f, i, e, k) ==
  LET p == e.parts[k].piece
      part == f.pieces[p]
  IN /\ p = Behind(i, e, k - 1).last + 1 /\ p <= Len(f.pieces)
     /\ part.at = Behind(i, e, k - 1).end /\ part.next = e.parts[k].end
     /\ part.last = e.parts[k].last
     /\ e.parts[k].taken = Behind(i, e, k - 1).taken
     /\ part.way = Append(e.way, p) /\ part.nth = k

\* Until 3.8 the flags of the future were four bits lower.
Lower(v, field) == field.name = "flags" /\ ~NotBefore(v, <<3, 8>>)

Storable(v, field, n) == Fits(n) /\ (Lower(v, field) => (n \div 65536) % 16 = 0)

Stored(v, field, n) == IF Lower(v, field) THEN (n % 65536) + 65536 * (n \div 1048576) ELSE n

\* The kth part, a number.
IsNumberPart(f, i, e, k, field) ==
  LET part == e.parts[k]
      from == Behind(i, e, k - 1).end
      n    == e.val[part.taken]
  IN /\ part.piece = 0
     /\ part.end = from + Width(field)
     /\ part.last = Behind(i, e, k - 1).last
     /\ part.taken = Behind(i, e, k - 1).taken + 1 /\ part.taken <= Len(e.val)
     /\ Storable(f.ver, field, n)
     /\ IF field.kind = "short" THEN HasShort(f, from, Stored(f.ver, field, n))
                                ELSE HasLong(f, from, Stored(f.ver, field, n))

IsFieldPart(f, i, e, k, field) ==
  IF IsNumber(field) THEN IsNumberPart(f, i, e, k, field)
  ELSE IsPart(f, i, e, k) /\ f.pieces[e.parts[k].piece].is \in Castable(field.kind)

IsSeries(f, i, e) ==
  /\ e.val = <<>>
  /\ HasLength(f, e.type, e.at + 1, Len(e.parts))
  /\ \A k \in 1..Len(e.parts) : IsPart(f, i, e, k)

\* Keys and values, and behind them the mark that ends a dict.
IsDict(f, i, e) ==
  /\ e.val = <<>>
  /\ Len(e.parts) % 2 = 1
  /\ \A k \in 1..Len(e.parts) :
       /\ IsPart(f, i, e, k)
       /\ k % 2 = 1 => (f.pieces[e.parts[k].piece].obj = 0 <=> k = Len(e.parts))

IsCode(f, i, e) ==
  /\ LET fields == FieldsOf(f.ver)
     IN /\ Len(e.parts) = Len(fields)
        /\ \A k \in 1..Len(e.parts) : IsFieldPart(f, i, e, k, fields[k])
  /\ Len(e.val) = Behind(i, e, Len(e.parts)).taken

Holders    == Series \cup CodeTypes \cup {TYPE_DICT}
Creates(e) == e.type \in Texts \cup Numbers \cup {TYPE_STRINGREF} \cup Holders

\* The elements of an object: those of a dict are without the mark.
Elements(e) == IF e.type = TYPE_DICT THEN Len(e.parts) - 1 ELSE Len(e.parts)

\* What stands there for an element: 0 for a number or NULL.
Item(f, e, k) == IF e.parts[k].piece = 0 THEN 0 ELSE f.pieces[e.parts[k].piece].obj

\* One call of LoadObject, by type.
IsLoad(f, i, e) ==
  \/ e.type = TYPE_OBREF /\ IsReference(f, i, e)
  \/ e.type = TYPE_NULL /\ ~e.flagged /\ e.obj = 0 /\ e.is = 0 /\ e.next = e.at + 1
  \/ e.obj \in 1..5 /\ e.type = Singletons[e.obj] /\ e.is = e.type /\ e.next = e.at + 1
  \/ e.type \in Numbers /\ IsNumeral(f, e)
  \/ e.type \in Texts /\ IsText(f, e)
  \/ e.type = TYPE_STRINGREF /\ IsStringReference(f, i, e)
  \/ e.type \in Series /\ IsSeries(f, i, e)
  \/ e.type = TYPE_DICT /\ IsDict(f, i, e)
  \/ e.type \in CodeTypes /\ IsCode(f, i, e)

IsPiece(f, i, e) ==
  /\ HasByte(f, e.at, e.type + (IF e.flagged THEN 128 ELSE 0))
  /\ e.made = Made(f, i - 1) + (IF Creates(e) THEN 1 ELSE 0)
  /\ e.noted = Noted(f, i - 1) + (IF e.flagged THEN 1 ELSE 0)
  /\ e.kept = Kept(f, i - 1) + (IF e.type \in Interned THEN 1 ELSE 0)
  /\ Creates(e) => e.obj = 5 + e.made /\ (e.type # TYPE_STRINGREF => e.is = e.type)
  /\ IF e.type \in Holders THEN e.next = Behind(i, e, Len(e.parts)).end
                           ELSE e.parts = <<>>
  /\ e.last = Behind(i, e, Len(e.parts)).last
  /\ \A k \in 1..Len(e.parts) : e.parts[k].last >= i /\ e.parts[k].last <= Len(f.pieces)
  /\ IsLoad(f, i, e)

\* Every piece but the first, the code object, is a part of one around it.
IsInside(f, i, e) ==
  LET w == e.way
      around == w[Len(w) - 1]
  IN IF i = 1 THEN w = <<1>>
     ELSE /\ Len(w) > 1 /\ w[Len(w)] = i
          /\ around \in 1..Len(f.pieces)
          /\ f.pieces[around].type \in Holders
          /\ e.nth \in 1..Len(f.pieces[around].parts)
          /\ f.pieces[around].parts[e.nth].piece = i

\* What stands before the code object: nothing, or magic, flags and the rest.
IsHeader(f) ==
  IF f.given # NoVersion
  THEN /\ isSupportedVersion(f.given) /\ f.start = 0
       /\ f.ver = [f.given EXCEPT !.unicode = f.given.maj >= 3]
  ELSE /\ f.ver # NoVersion /\ setVersion(f.magic) = f.ver /\ f.hashed \in BOOLEAN
       /\ HasLong(f, 0, f.magic)
       /\ NotBefore(f.ver, <<3, 7>>) => HasByte(f, 4, IF f.hashed THEN 1 ELSE 0)
       /\ f.start = 8 + (IF NotBefore(f.ver, <<3, 7>>) THEN 4 ELSE 0)
                      + (IF NotBefore(f.ver, <<3, 3>>) THEN 4 ELSE 0)

\* All that is read of a piece.
Within(n, i, e) == e.next <= n /\ \A k \in 0..Len(e.parts) : Behind(i, e, k).end <= n

Listed(f) ==
  /\ f.ver \in KnownVersions /\ IsHeader(f)
  /\ f.pieces \in Seq(Piece)
  /\ \A i \in 1..Len(f.pieces) : IsPiece(f, i, f.pieces[i]) /\ IsInside(f, i, f.pieces[i])
  /\ f.pieces[1].type \in CodeTypes
  /\ f.pieces[1].at = f.start /\ f.pieces[1].last = Len(f.pieces)
  /\ IF f.whole THEN \A i \in 1..Len(f.pieces) : Within(Len(f.bytes), i, f.pieces[i])
                ELSE Len(f.bytes) < f.pieces[1].next

ASSUME ListingsAssumption == \A f \in Files : IsListed(f) => Listed(f)

----------------------------------------------------------------------------
(* Properties                                                                *)

\* An object read has in it what was written, but for what is said by references.
Refers(f, e, k) == e.parts[k].piece # 0 /\ f.pieces[e.parts[k].piece].type = TYPE_OBREF

(* A file that CPython wrote is read, as what was written: in each version the *)
(* same fields with the same widths, each text, number and string reference as *)
(* it was, each sequence and each dict to its end.                             *)
ReadBack ==
  IsListed(file) =>
    /\ file.whole => pc # "failed"
    /\ pc = "done" =>
         /\ ver = file.ver /\ ret = file.pieces[1].obj
         /\ \A i \in 1..Len(file.pieces) :
              LET e == file.pieces[i]
              IN Creates(e) =>
                   /\ heap[e.obj].type = e.is /\ heap[e.obj].val = e.val
                   /\ Len(heap[e.obj].items) = Elements(e)
                   /\ \A k \in 1..Elements(e) :
                        ~Refers(file, e, k) => heap[e.obj].items[k] = Item(file, e, k)

(* What was one object when it was written is one object when it is read, from *)
(* 3.4 on: a reference is the object itself, also one that was still being     *)
(* loaded.                                                                     *)
SharingKept ==
  IsListed(file) /\ pc = "done" =>
    \A i \in 1..Len(file.pieces) :
      LET e == file.pieces[i]
      IN Creates(e) =>
           \A k \in 1..Elements(e) :
             Refers(file, e, k) => heap[e.obj].items[k] = Item(file, e, k)

(* No file cut short is read as a whole one.                                   *)
CutNeverLoads == IsListed(file) /\ ~file.whole => pc # "done"
=============================================================================
