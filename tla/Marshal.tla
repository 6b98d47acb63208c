----------------------------- MODULE Marshal -----------------------------
(***************************************************************************)
(* Reading a .pyc file or a marshalled code object (pyc_module.cpp,        *)
(* pyc_object.cpp and the load() methods of pyc_code, pyc_sequence,        *)
(* pyc_string and pyc_numeric) over the bytes of the file.                 *)
(*                                                                         *)
(* LoadObject and the load() methods call one another; the recursion is    *)
(* the stack "frames", one frame for each object whose load() is waiting   *)
(* for a part.  pc = "return" is LoadObject's return with "ret".  A file   *)
(* that ends early ends the program (PycFile::getByte, getBuffer); this    *)
(* and every exception is pc = "failed".                                   *)
(***************************************************************************)
EXTENDS Integers, Sequences

CONSTANT Files
  \* What the program may be given: records with at least "bytes" and "given",
  \* the version named on the command line, or NoVersion for a .pyc file.

Byte == 0..255

\* m_maj, m_min and m_unicode before a version is known.
NoVersion == [maj |-> -1, min |-> -1, unicode |-> FALSE]

ASSUME FilesAssumption ==
  \A f \in Files : /\ f.bytes \in Seq(Byte)
                   /\ f.given \in [maj : Int, min : Int, unicode : BOOLEAN]

VARIABLES
  file,      \* the file being read
  pos,       \* bytes read so far
  ver,       \* m_maj, m_min, m_unicode
  heap,      \* the objects created, by number
  refs,      \* m_refs
  interns,   \* m_interns
  frames,    \* the load() calls that wait for a part, innermost last
  ret,       \* what the last LoadObject returns, 0 for NULL
  pc         \* "open", "object", "field", "return", "done", "failed"

vars == <<file, pos, ver, heap, refs, interns, frames, ret, pc>>

----------------------------------------------------------------------------
(* PycObject::Type                                                           *)

TYPE_NULL == 48
TYPE_NONE == 78
TYPE_FALSE == 70
TYPE_TRUE == 84
TYPE_STOPITER == 83
TYPE_ELLIPSIS == 46
TYPE_INT == 105
TYPE_INT64 == 73
TYPE_FLOAT == 102
TYPE_BINARY_FLOAT == 103
TYPE_COMPLEX == 120
TYPE_BINARY_COMPLEX == 121
TYPE_LONG == 108
TYPE_STRING == 115
TYPE_INTERNED == 116
TYPE_STRINGREF == 82
TYPE_OBREF == 114
TYPE_TUPLE == 40
TYPE_LIST == 91
TYPE_DICT == 123
TYPE_CODE == 99
TYPE_CODE2 == 67
TYPE_UNICODE == 117
TYPE_SET == 60
TYPE_FROZENSET == 62
TYPE_ASCII == 97
TYPE_ASCII_INTERNED == 65
TYPE_SMALL_TUPLE == 41
TYPE_SHORT_ASCII == 122
TYPE_SHORT_ASCII_INTERNED == 90

Singletons == <<TYPE_NONE, TYPE_ELLIPSIS, TYPE_STOPITER, TYPE_FALSE, TYPE_TRUE>>
Short      == {TYPE_SHORT_ASCII, TYPE_SHORT_ASCII_INTERNED}
Ascii      == Short \cup {TYPE_ASCII, TYPE_ASCII_INTERNED}
Interned   == {TYPE_INTERNED, TYPE_ASCII_INTERNED, TYPE_SHORT_ASCII_INTERNED}
Texts      == Ascii \cup Interned \cup {TYPE_STRING, TYPE_UNICODE}
Strings    == Texts \cup {TYPE_STRINGREF}                        \* PycString
Numbers    == {TYPE_INT, TYPE_INT64, TYPE_LONG, TYPE_FLOAT, TYPE_COMPLEX,
               TYPE_BINARY_FLOAT, TYPE_BINARY_COMPLEX}
Series     == {TYPE_TUPLE, TYPE_SMALL_TUPLE, TYPE_LIST, TYPE_SET,
               TYPE_FROZENSET}                                   \* PycSequence
CodeTypes  == {TYPE_CODE, TYPE_CODE2}                            \* PycCode
Types      == {Singletons[i] : i \in 1..5} \cup Strings \cup Numbers
              \cup Series \cup CodeTypes \cup {TYPE_DICT}

\* An object: type, the bytes or numbers it holds, the objects it holds (a code
\* object has one entry for each field, 0 for a number), and how many of those a
\* sequence announces.
Object(t, v, n) == [type |-> t, val |-> v, items |-> <<>>, size |-> n]

----------------------------------------------------------------------------
(* PycData over the file.  Bytes past the end read as 0 here; every action   *)
(* that needs them fails by Has.                                             *)

At(p) == IF p < Len(file.bytes) THEN file.bytes[p + 1] ELSE 0

\* Mutant: bytes past the end are read as zero, as from a buffer that is too long.
Has_Padded(p, n) == p + n <= Len(file.bytes) + 4

Has(p, n) == p + n <= Len(file.bytes)

Int32(low, high) == low + 65536 * (IF high >= 32768 THEN high - 65536 ELSE high)

get16(p) == At(p) + 256 * At(p + 1)
get32(p) == Int32(get16(p), get16(p + 2))

\* A count as large as the file can never be satisfied: all such are one.
Count(n) == LET all == Len(file.bytes) + 1
            IN IF n > all \/ n < -all THEN all ELSE IF n < 0 THEN -n ELSE n

----------------------------------------------------------------------------
(* Versions                                                                  *)

Version(a, b, u) == [maj |-> a, min |-> b, unicode |-> u]

\* verCompare(a, b) >= 0
Since(v, a, b) == v.maj > a \/ (v.maj = a /\ v.min >= b)

\* setVersion, as pairs of a magic number and the version it stands for; 1.6
\* to 2.7 have one more with -U.
Magics2 ==
  << <<\h0A0DC4FC, 1, 6>>, <<\h0A0DC687, 2, 0>>, <<\h0A0DEB2A, 2, 1>>,
     <<\h0A0DED2D, 2, 2>>, <<\h0A0DF23B, 2, 3>>, <<\h0A0DF26D, 2, 4>>,
     <<\h0A0DF2B3, 2, 5>>, <<\h0A0DF2D1, 2, 6>>, <<\h0A0DF303, 2, 7>> >>

Magics1 ==
  << <<\h00999902, 1, 0>>, <<\h00999903, 1, 1>>, <<\h0A0D2E89, 1, 3>>,
     <<\h0A0D1704, 1, 4>>, <<\h0A0D4E99, 1, 5>> >>

Magics3 ==
  << <<\h0A0D0C3A + 1, 3, 0>>, <<\h0A0D0C4E + 1, 3, 1>>, <<\h0A0D0C6C, 3, 2>>,
     <<\h0A0D0C9E, 3, 3>>, <<\h0A0D0CEE, 3, 4>>, <<\h0A0D0D16, 3, 5>>,
     <<\h0A0D0D17, 3, 5>>, <<\h0A0D0D33, 3, 6>>, <<\h0A0D0D42, 3, 7>>,
     <<\h0A0D0D55, 3, 8>>, <<\h0A0D0D61, 3, 9>>, <<\h0A0D0D6F, 3, 10>>,
     <<\h0A0D0DA7, 3, 11>>, <<\h0A0D0DCB, 3, 12>>, <<\h0A0D0DF3, 3, 13>> >>

Known(magic, a, b, u) == [magic |-> magic, ver |-> Version(a, b, u)]

Magics ==
  {Known(Magics1[i][1], Magics1[i][2], Magics1[i][3], FALSE) : i \in 1..5}
  \cup {Known(Magics2[i][1], Magics2[i][2], Magics2[i][3], FALSE) : i \in 1..9}
  \cup {Known(Magics2[i][1] + 1, Magics2[i][2], Magics2[i][3], TRUE) : i \in 1..9}
  \cup {Known(Magics3[i][1], Magics3[i][2], Magics3[i][3], TRUE) : i \in 1..15}

setVersion(magic) ==
  IF \E m \in Magics : m.magic = magic
  THEN (CHOOSE m \in Magics : m.magic = magic).ver
  ELSE NoVersion

isSupportedVersion(v) ==
  \/ v.maj = 1 /\ v.min \in 0..6
  \/ v.maj = 2 /\ v.min \in 0..7
  \/ v.maj = 3 /\ v.min \in 0..12

\* Bytes before the code object: magic, flags from 3.7 on, then a hash or a
\* time stamp with, from 3.3 on, a size.
HeaderSize(v) ==
  LET hashed == Since(v, 3, 7) /\ At(4) % 2 = 1
  IN 4 + (IF Since(v, 3, 7) THEN 4 ELSE 0)
       + (IF hashed THEN 8 ELSE IF Since(v, 3, 3) THEN 8 ELSE 4)

----------------------------------------------------------------------------
(* PycCode::load: what it reads, in order, for a version.                    *)

Field(name, kind, present) == IF present THEN <<[name |-> name, kind |-> kind]>> ELSE <<>>

\* A number: 16 bits wide until 2.3, 32 from there.
Number(v, name, from) ==
  Field(name, IF Since(v, 2, 3) THEN "long" ELSE "short", from)

Layout(v) ==
     Number(v, "argCount", Since(v, 1, 3))
  \o Number(v, "posOnlyArgCount", Since(v, 3, 8))
  \o Number(v, "kwOnlyArgCount", v.maj >= 3)
  \o Number(v, "numLocals", Since(v, 1, 3) /\ ~Since(v, 3, 11))
  \o Number(v, "stackSize", Since(v, 1, 5))
  \o Number(v, "flags", Since(v, 1, 3))
  \o Field("code", "string", TRUE)
  \o Field("consts", "sequence", TRUE)
  \o Field("names", "sequence", TRUE)
  \o Field("localNames", "sequence", Since(v, 1, 3))
  \o Field("localKinds", "string", Since(v, 3, 11))
  \o Field("freeVars", "sequence", Since(v, 2, 1) /\ ~Since(v, 3, 11))
  \o Field("cellVars", "sequence", Since(v, 2, 1) /\ ~Since(v, 3, 11))
  \o Field("fileName", "string", TRUE)
  \o Field("name", "string", TRUE)
  \o Field("qualName", "string", Since(v, 3, 11))
  \o Number(v, "firstLine", Since(v, 1, 5))
  \o Field("lnTable", "string", Since(v, 1, 5))
  \o Field("exceptTable", "string", Since(v, 3, 11))

IsNumber(field) == field.kind \in {"short", "long"}

Width(field) == IF field.kind = "short" THEN 2 ELSE 4

\* Mutant: the upper half stays where it is.
Remap_Unmoved(f) == f

\* Flags from before 3.8: the upper half moves up by four bits.
Remap(f) == Int32(f % 65536, 16 * (f \div 65536))

CanRemap(f) == f >= 0 /\ f < \h10000000

\* What load() reads for a number at p, and what it stores.
NumberRead(field, p) == IF field.kind = "short" THEN get16(p) ELSE get32(p)

Remapped(field) == field.name = "flags" /\ ~Since(ver, 3, 8)

NumberAt(field, p) ==
  IF Remapped(field) THEN Remap(NumberRead(field, p)) ELSE NumberRead(field, p)

NumberIsGood(field, p) ==
  Has(p, Width(field)) /\ (Remapped(field) => CanRemap(NumberRead(field, p)))

\* What cast<PycString>() and cast<PycSequence>() accept.
Castable(kind) == IF kind = "string" THEN Strings ELSE Series

----------------------------------------------------------------------------
(* The loads that need no other object.                                      *)

Slice(p, n) == [i \in 1..n |-> At(p + i - 1)]

\* Bytes a number takes after its type.
Extent(t, p) ==
  CASE t = TYPE_INT -> 4
    [] t \in {TYPE_INT64, TYPE_BINARY_FLOAT} -> 8
    [] t = TYPE_BINARY_COMPLEX -> 16
    [] t = TYPE_LONG -> 4 + 2 * Count(get32(p))
    [] t = TYPE_FLOAT -> 1 + At(p)
    [] t = TYPE_COMPLEX -> 2 + At(p) + At(p + 1 + At(p))

\* Strings and small tuples may have their length in one byte.
LengthWidth(t) == IF t \in Short \cup {TYPE_SMALL_TUPLE} THEN 1 ELSE 4
LengthAt(t, p) == IF LengthWidth(t) = 1 THEN At(p) ELSE get32(p)

\* check_ascii stops at the first 0.
check_ascii(s) == \A i \in 1..Len(s) : s[i] >= 128 => \E j \in 1..(i - 1) : s[j] = 0

\* The text at p, after its length.
TextAt(t, p) == Slice(p + LengthWidth(t), LengthAt(t, p))

TextIsGood(t, p) ==
  /\ Has(p, LengthWidth(t))
  /\ LengthAt(t, p) >= 0
  /\ Has(p, LengthWidth(t) + Count(LengthAt(t, p)))
  /\ t \in Ascii => check_ascii(TextAt(t, p))

\* An index into a table of n entries at p.
IndexIsGood(p, n) == Has(p, 4) /\ get32(p) \in 0..(n - 1)

----------------------------------------------------------------------------
(* LoadObject                                                                *)

TypeByte == At(pos) % 128
Flagged  == At(pos) >= 128
New      == Len(heap) + 1

\* Whether LoadObject gets past the type byte and what follows it at once.
Readable ==
  /\ Has(pos, 1)
  /\ At(pos) = TYPE_OBREF => IndexIsGood(pos + 1, Len(refs))
  /\ TypeByte = TYPE_STRINGREF => IndexIsGood(pos + 1, Len(interns))
  /\ TypeByte \in Numbers => Has(pos + 1, Extent(TypeByte, pos + 1))
  /\ TypeByte \in Texts => TextIsGood(TypeByte, pos + 1)
  /\ TypeByte \in Series => /\ Has(pos + 1, LengthWidth(TypeByte))
                            /\ LengthAt(TypeByte, pos + 1) >= 0

\* refObject comes before load().
Create(o) ==
  /\ heap' = Append(heap, o)
  /\ refs' = IF Flagged THEN Append(refs, New) ELSE refs

Return(r, n) ==
  /\ ret' = r
  /\ pc' = "return"
  /\ pos' = pos + n

Loading == pc = "object" /\ Readable /\ UNCHANGED <<file, ver>>

\* Mutant: the object is copied, as a string reference is.
LoadReference_Copy ==
  /\ Loading
  /\ At(pos) = TYPE_OBREF
  /\ Return(New, 5)
  /\ heap' = Append(heap, heap[refs[get32(pos + 1) + 1]])
  /\ UNCHANGED <<refs, interns, frames>>

LoadReference ==
  /\ Loading
  /\ At(pos) = TYPE_OBREF
  /\ Return(refs[get32(pos + 1) + 1], 5)
  /\ UNCHANGED <<heap, refs, interns, frames>>

\* The mark that ends a dict, and types that CreateObject does not know.
LoadNothing ==
  /\ Loading
  /\ At(pos) # TYPE_OBREF
  /\ TypeByte \notin Types
  /\ Return(0, 1)
  /\ UNCHANGED <<heap, refs, interns, frames>>

LoadSingleton ==
  /\ Loading
  /\ \E s \in 1..5 :
       /\ TypeByte = Singletons[s]
       /\ Return(s, 1)
       /\ refs' = IF Flagged THEN Append(refs, s) ELSE refs
  /\ UNCHANGED <<heap, interns, frames>>

LoadNumber ==
  /\ Loading
  /\ TypeByte \in Numbers
  /\ LET n == Extent(TypeByte, pos + 1)
     IN /\ Create(Object(TypeByte, Slice(pos + 1, n), 0))
        /\ Return(New, 1 + n)
  /\ UNCHANGED <<interns, frames>>

LoadText ==
  /\ Loading
  /\ TypeByte \in Texts
  /\ LET text == TextAt(TypeByte, pos + 1)
     IN /\ Create(Object(TypeByte, text, 0))
        /\ Return(New, 1 + LengthWidth(TypeByte) + Len(text))
  /\ interns' = IF TypeByte \in Interned THEN Append(interns, New) ELSE interns
  /\ UNCHANGED frames

\* A new object with the type and the text of the interned one.
LoadStringRef ==
  /\ Loading
  /\ TypeByte = TYPE_STRINGREF
  /\ LET str == heap[interns[get32(pos + 1) + 1]]
     IN Create(Object(str.type, str.val, 0))
  /\ Return(New, 5)
  /\ UNCHANGED <<interns, frames>>

\* load() starts and waits for its parts.
Wait(left, n, next) ==
  /\ frames' = Append(frames, [obj |-> New, left |-> left])
  /\ pc' = next
  /\ pos' = pos + n
  /\ UNCHANGED ret

LoadSeries ==
  /\ Loading
  /\ TypeByte \in Series
  /\ LET size == LengthAt(TypeByte, pos + 1)
         n    == 1 + LengthWidth(TypeByte)
     IN /\ Create(Object(TypeByte, <<>>, size))
        /\ IF size = 0 THEN Return(New, n) /\ UNCHANGED frames
                       ELSE Wait(size, n, "object")
  /\ UNCHANGED interns

LoadDict ==
  /\ Loading
  /\ TypeByte = TYPE_DICT
  /\ Create(Object(TypeByte, <<>>, 0))
  /\ Wait(2, 1, "object")
  /\ UNCHANGED interns

LoadCode ==
  /\ Loading
  /\ TypeByte \in CodeTypes
  /\ Create(Object(TypeByte, <<>>, 0))
  /\ Wait(Len(Layout(ver)), 1, "field")
  /\ UNCHANGED interns

LoadObject ==
  \/ LoadReference \/ LoadNothing \/ LoadSingleton \/ LoadNumber \/ LoadText
  \/ LoadStringRef \/ LoadSeries \/ LoadDict \/ LoadCode

----------------------------------------------------------------------------
(* The loops of load(): an object that was waited for comes back.            *)

Top      == frames[Len(frames)]
TopType  == heap[Top.obj].type
Callers  == SubSeq(frames, 1, Len(frames) - 1)

Take == heap' = [heap EXCEPT ![Top.obj].items = Append(@, ret)]

\* Mutant: the loop goes round once too often.
Await_TooLong(left, next) ==
  IF left < 0
  THEN frames' = Callers /\ ret' = Top.obj /\ pc' = "return"
  ELSE /\ frames' = [frames EXCEPT ![Len(frames)].left = left]
       /\ pc' = next
       /\ UNCHANGED ret

\* One part less to wait for; load() goes on at next, or returns.
Await(left, next) ==
  IF left = 0
  THEN frames' = Callers /\ ret' = Top.obj /\ pc' = "return"
  ELSE /\ frames' = [frames EXCEPT ![Len(frames)].left = left]
       /\ pc' = next
       /\ UNCHANGED ret

Returned(types) == pc = "return" /\ frames # <<>> /\ TopType \in types

TakeElement ==
  /\ Returned(Series)
  /\ Take
  /\ Await(Top.left - 1, "object")
  /\ UNCHANGED <<file, pos, ver, refs, interns>>

\* A key that is NULL ends the dict; a value may be NULL.
TakeKey ==
  /\ Returned({TYPE_DICT})
  /\ Top.left = 2
  /\ IF ret = 0 THEN Await(0, "object") /\ UNCHANGED heap
                ELSE Take /\ Await(1, "object")
  /\ UNCHANGED <<file, pos, ver, refs, interns>>

TakeValue ==
  /\ Returned({TYPE_DICT})
  /\ Top.left = 1
  /\ Take
  /\ Await(2, "object")
  /\ UNCHANGED <<file, pos, ver, refs, interns>>

NextField == Layout(ver)[Len(Layout(ver)) - Top.left + 1]

\* Mutant: static_cast, as it were.
Cast_Unchecked(kinds) == ret # 0

Cast(kinds) == ret # 0 /\ heap[ret].type \in kinds

TakeField ==
  /\ Returned(CodeTypes)
  /\ Cast(Castable(NextField.kind))
  /\ Take
  /\ Await(Top.left - 1, "field")
  /\ UNCHANGED <<file, pos, ver, refs, interns>>

\* A number field.
WithNumber(o, n) == [o EXCEPT !.val = Append(@, n), !.items = Append(@, 0)]

ReadNumber ==
  /\ pc = "field"
  /\ IsNumber(NextField)
  /\ NumberIsGood(NextField, pos)
  /\ heap' = [heap EXCEPT ![Top.obj] = WithNumber(@, NumberAt(NextField, pos))]
  /\ pos' = pos + Width(NextField)
  /\ Await(Top.left - 1, "field")
  /\ UNCHANGED <<file, ver, refs, interns>>

AskField ==
  /\ pc = "field"
  /\ ~IsNumber(NextField)
  /\ pc' = "object"
  /\ UNCHANGED <<file, pos, ver, heap, refs, interns, frames, ret>>

----------------------------------------------------------------------------
(* The whole file                                                            *)

Open(v, n) ==
  /\ pc' = "object"
  /\ pos' = n
  /\ ver' = v
  /\ UNCHANGED <<file, heap, refs, interns, frames, ret>>

HeaderVersion == setVersion(get32(0))

HeaderIsGood == HeaderVersion # NoVersion /\ Has(0, HeaderSize(HeaderVersion))

loadFromFile ==
  /\ pc = "open"
  /\ file.given = NoVersion
  /\ HeaderIsGood
  /\ Open(HeaderVersion, HeaderSize(HeaderVersion))

loadFromMarshalledFile ==
  /\ pc = "open"
  /\ file.given # NoVersion
  /\ isSupportedVersion(file.given)
  /\ Open([file.given EXCEPT !.unicode = file.given.maj >= 3], 0)

\* m_code = LoadObject(...).cast<PycCode>()
Finish ==
  /\ pc = "return"
  /\ frames = <<>>
  /\ Cast(CodeTypes)
  /\ pc' = "done"
  /\ UNCHANGED <<file, pos, ver, heap, refs, interns, frames, ret>>

\* Mutant: at the end of the file getByte waits for more.
Fails_NotAtEnd ==
  \/ pc = "open" /\ file.given = NoVersion /\ ~HeaderIsGood
  \/ pc = "open" /\ file.given # NoVersion /\ ~isSupportedVersion(file.given)
  \/ pc = "object" /\ Has(pos, 1) /\ ~Readable
  \/ pc = "field" /\ IsNumber(NextField) /\ ~NumberIsGood(NextField, pos)
  \/ Returned(CodeTypes) /\ ~Cast(Castable(NextField.kind))
  \/ pc = "return" /\ frames = <<>> /\ ~Cast(CodeTypes)

\* What can go wrong at each point.
Fails ==
  \/ pc = "open" /\ file.given = NoVersion /\ ~HeaderIsGood
  \/ pc = "open" /\ file.given # NoVersion /\ ~isSupportedVersion(file.given)
  \/ pc = "object" /\ ~Readable
  \/ pc = "field" /\ IsNumber(NextField) /\ ~NumberIsGood(NextField, pos)
  \/ Returned(CodeTypes) /\ ~Cast(Castable(NextField.kind))
  \/ pc = "return" /\ frames = <<>> /\ ~Cast(CodeTypes)

Fail ==
  /\ Fails
  /\ pc' = "failed"
  /\ UNCHANGED <<file, pos, ver, heap, refs, interns, frames, ret>>

Init ==
  /\ file \in Files
  /\ pos = 0
  /\ ver = NoVersion
  /\ heap = [s \in 1..5 |-> Object(Singletons[s], <<>>, 0)]
  /\ refs = <<>>
  /\ interns = <<>>
  /\ frames = <<>>
  /\ ret = 0
  /\ pc = "open"

Next ==
  \/ loadFromFile \/ loadFromMarshalledFile
  \/ LoadObject
  \/ TakeElement \/ TakeKey \/ TakeValue \/ TakeField
  \/ ReadNumber \/ AskField
  \/ Finish \/ Fail

Spec == Init /\ [][Next]_vars

\* Reading is one call of a sequential program: once entered it goes on.
FairSpec == Spec /\ WF_vars(Next)

----------------------------------------------------------------------------
(* Properties                                                                *)

\* The values the variables take: every number that stands for an object is
\* that of an object.
TypeOK ==
  /\ pos \in Nat
  /\ ver \in [maj : Int, min : Int, unicode : BOOLEAN]
  /\ heap \in Seq([type : Types, val : Seq(Int), items : Seq(0..Len(heap)), size : Nat])
  /\ refs \in Seq(1..Len(heap))
  /\ interns \in Seq(1..Len(heap))
  /\ frames \in Seq([obj : 1..Len(heap), left : Nat \ {0}])
  /\ ret \in 0..Len(heap)
  /\ pc \in {"open", "object", "field", "return", "done", "failed"}

\* A field of a code object has the type it is used as.
FieldIsGood(field, o) == IsNumber(field) \/ (o # 0 /\ heap[o].type \in Castable(field.kind))

\* An object has all that its load() reads: a sequence the announced number of
\* elements, a dict pairs, a code object all fields of its version.
Whole(o) ==
  /\ o.type \in Series => Len(o.items) = o.size
  /\ o.type = TYPE_DICT => Len(o.items) % 2 = 0
  /\ o.type \in CodeTypes =>
       /\ Len(o.items) = Len(Layout(ver))
       /\ \A i \in 1..Len(o.items) : FieldIsGood(Layout(ver)[i], o.items[i])

(* Whatever the bytes, when reading ends every object is whole, also one that  *)
(* was referred to while it was still being loaded: the decompiler can use     *)
(* sizes, keys and the fields of nested code objects without looking.          *)
NothingHalfLoaded == pc = "done" => \A i \in 1..Len(heap) : Whole(heap[i])

(* Reading ends, also where a reference makes an object part of itself.        *)
Stops == <>(pc \in {"done", "failed"})
=============================================================================
