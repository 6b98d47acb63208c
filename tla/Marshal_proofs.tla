--------------------------- MODULE Marshal_proofs ---------------------------
(***************************************************************************)
(* Reading keeps its books on any bytes: the types of the variables, and   *)
(* that no object is left half loaded.  A file with a listing is read as   *)
(* the listing says, with its sharing, and is not read when it is cut off. *)
(***************************************************************************)
EXTENDS MarshalListing, TLAPS, SequenceTheorems

ObjectsUpTo(n) == [type : Types, val : Seq(Int), items : Seq(0..n), size : Nat]

\* FieldIsGood and Whole, for any heap and layout.
GoodItem(h, field, x) == IsNumber(field) \/ (x # 0 /\ h[x].type \in Castable(field.kind))

GoodItems(h, lay, o) == \A i \in 1..Len(o.items) : GoodItem(h, lay[i], o.items[i])

WholeIn(h, lay, o) ==
  /\ o.type \in Series => Len(o.items) = o.size
  /\ o.type = TYPE_DICT => Len(o.items) % 2 = 0
  /\ o.type \in CodeTypes => Len(o.items) = Len(lay) /\ GoodItems(h, lay, o)

\* What is still to come and what an object has make up what it announces.
WaitsIn(h, lay, o, left) ==
  /\ o.type \in Holders
  /\ o.type \in Series => left + Len(o.items) = o.size
  /\ o.type = TYPE_DICT => left \in {1, 2} /\ (left + Len(o.items)) % 2 = 0
  /\ o.type \in CodeTypes => left + Len(o.items) = Len(lay) /\ GoodItems(h, lay, o)

Waited(fr, k) == \E j \in 1..Len(fr) : fr[j].obj = k

\* Each object that is not whole is waited for by exactly one frame.
Books(h, fr, lay) ==
  /\ \A j \in 1..Len(fr) : WaitsIn(h, lay, h[fr[j].obj], fr[j].left)
  /\ \A i, j \in 1..Len(fr) : fr[i].obj = fr[j].obj => i = j
  /\ \A k \in 1..Len(h) : ~Waited(fr, k) => WholeIn(h, lay, h[k])

Heap(h) == h \in Seq(ObjectsUpTo(Len(h)))

Stack(h, fr) == fr \in Seq([obj : 1..Len(h), left : Nat \ {0}])

\* What holds at each place of the program.
AtPc ==
  /\ pc = "open" => frames = <<>> /\ \A k \in 1..Len(heap) : heap[k].type \notin Holders
  /\ pc = "field" => frames # <<>> /\ TopType \in CodeTypes
  /\ pc = "done" => frames = <<>>

\* The singletons stay.
HasSingletons == Len(heap) >= 5

\* What string references refer to.
AllTexts(h, t) == \A i \in 1..Len(t) : h[t[i]].type \in Texts

IInv ==
  /\ file \in Files
  /\ TypeOK
  /\ HasSingletons
  /\ AllTexts(heap, interns)
  /\ Books(heap, frames, Layout(ver))
  /\ AtPc

----------------------------------------------------------------------------
(* Sequences                                                                 *)

LEMMA SeqIn ==
  ASSUME NEW S, NEW s \in Seq(S)
  PROVE  Len(s) \in Nat /\ \A k \in 1..Len(s) : s[k] \in S
OBVIOUS

LEMMA SeqWider ==
  ASSUME NEW S, NEW T, NEW s \in Seq(S), \A x \in S : x \in T
  PROVE  s \in Seq(T)
OBVIOUS

LEMMA InnerSeq ==
  ASSUME NEW S, NEW T, NEW s \in Seq(S), \A k \in 1..Len(s) : s[k] \in T
  PROVE  s \in Seq(T)
OBVIOUS

LEMMA AppendIn ==
  ASSUME NEW S, NEW s \in Seq(S), NEW x \in S
  PROVE  /\ Append(s, x) \in Seq(S)
         /\ Len(Append(s, x)) = Len(s) + 1
         /\ Append(s, x)[Len(s) + 1] = x
         /\ \A k \in 1..Len(s) : Append(s, x)[k] = s[k]
OBVIOUS

LEMMA FrontOf ==
  ASSUME NEW S, NEW s \in Seq(S), s # <<>>
  PROVE  /\ SubSeq(s, 1, Len(s) - 1) \in Seq(S)
         /\ Len(SubSeq(s, 1, Len(s) - 1)) = Len(s) - 1
         /\ \A k \in 1..(Len(s) - 1) : SubSeq(s, 1, Len(s) - 1)[k] = s[k]
         /\ Len(s) \in 1..Len(s)
<1>1. Len(s) \in Nat /\ Len(s) # 0 /\ \A k \in 1..Len(s) : s[k] \in S
  BY SeqIn
<1>2. \A n \in Nat : n # 0 => /\ n - 1 \in Nat /\ n \in 1..n
                              /\ 1 \in Int /\ (n - 1) - 1 + 1 = n - 1
                              /\ (1 <= n - 1 \/ n - 1 = 0)
                              /\ \A k \in 1..(n - 1) : k \in 1..n /\ 1 + k - 1 = k
  OBVIOUS
<1> DEFINE n == Len(s) - 1
<1>3. /\ n \in Nat /\ Len(s) \in 1..Len(s) /\ n - 1 + 1 = n /\ (1 <= n \/ n = 0)
      /\ \A k \in 1..n : k \in 1..Len(s) /\ 1 + k - 1 = k
  BY <1>1, <1>2
<1> HIDE DEF n
<1>4. \A k \in 1..n : s[k] \in S
  BY <1>1, <1>3
<1>5. /\ SubSeq(s, 1, n) \in Seq(S)
      /\ Len(SubSeq(s, 1, n)) = IF 1 <= n THEN n - 1 + 1 ELSE 0
      /\ \A k \in 1..(n - 1 + 1) : SubSeq(s, 1, n)[k] = s[1 + k - 1]
  BY <1>3, <1>4, SubSeqProperties
<1>6. Len(SubSeq(s, 1, n)) = n
  BY <1>3, <1>5
<1>7. \A k \in 1..n : SubSeq(s, 1, n)[k] = s[k]
  BY <1>3, <1>5
<1>8. QED
  BY <1>3, <1>5, <1>6, <1>7 DEF n

----------------------------------------------------------------------------
(* Bytes and the numbers made of them                                        *)

LEMMA FileFacts ==
  ASSUME file \in Files
  PROVE  /\ file.bytes \in Seq(Byte)
         /\ Len(file.bytes) \in Nat
         /\ file.given \in [maj : Int, min : Int, unicode : BOOLEAN]
BY FilesAssumption

LEMMA AtIsByte == ASSUME file \in Files, NEW p \in Nat PROVE At(p) \in Byte
<1>1. file.bytes \in Seq(Byte)
  BY FileFacts
<1>2. p < Len(file.bytes) => p + 1 \in 1..Len(file.bytes)
  BY <1>1
<1>3. p < Len(file.bytes) => file.bytes[p + 1] \in Byte
  BY <1>1, <1>2, SeqIn
<1>4. 0 \in Byte
  BY DEF Byte
<1>5. QED
  BY <1>3, <1>4 DEF At

LEMMA Get16IsNat == ASSUME file \in Files, NEW p \in Nat PROVE get16(p) \in Nat
<1>1. At(p) \in Nat /\ At(p + 1) \in Nat
  BY AtIsByte DEF Byte
<1>2. \A a, b \in Nat : a + 256 * b \in Nat
  OBVIOUS
<1>3. QED
  BY <1>1, <1>2 DEF get16

LEMMA Get32IsInt == ASSUME file \in Files, NEW p \in Nat PROVE get32(p) \in Int
<1>1. get16(p) \in Nat /\ get16(p + 2) \in Nat
  BY Get16IsNat
<1>2. QED
  BY <1>1 DEF get32, Int32

LEMMA CountIsNat == ASSUME file \in Files, NEW n \in Int PROVE Count(n) \in Nat
BY FileFacts DEF Count

LEMMA SliceIsBytes ==
  ASSUME file \in Files, NEW p \in Nat, NEW n \in Nat
  PROVE  Slice(p, n) \in Seq(Int) /\ Len(Slice(p, n)) = n
<1>1. \A i \in 1..n : p + i - 1 \in Nat
  OBVIOUS
<1>2. \A i \in 1..n : At(p + i - 1) \in Int
  BY <1>1, AtIsByte DEF Byte
<1>3. QED
  BY <1>2 DEF Slice

LEMMA ExtentIsNat ==
  ASSUME file \in Files, NEW p \in Nat, NEW t \in Numbers
  PROVE  Extent(t, p) \in Nat
<1>1. At(p) \in Nat
  BY AtIsByte DEF Byte
<1>2. At(p + 1 + At(p)) \in Nat
  <2>1. p + 1 + At(p) \in Nat
    BY <1>1
  <2>2. QED
    BY <2>1, AtIsByte DEF Byte
<1>3. Count(get32(p)) \in Nat
  BY Get32IsInt, CountIsNat
<1> HIDE DEF At, Count, get32
<1>4. \/ t = TYPE_INT \/ t \in {TYPE_INT64, TYPE_BINARY_FLOAT} \/ t = TYPE_BINARY_COMPLEX
      \/ t = TYPE_LONG \/ t = TYPE_FLOAT \/ t = TYPE_COMPLEX
  BY DEF Numbers
<1> DEFINE A == 4 + 2 * Count(get32(p))
           B == 1 + At(p)
           C == 2 + At(p) + At(p + 1 + At(p))
<1>5. A \in Nat /\ B \in Nat /\ C \in Nat
  <2>1. \A a, b \in Nat : 4 + 2 * a \in Nat /\ 1 + a \in Nat /\ 2 + a + b \in Nat
    OBVIOUS
  <2>2. A \in Nat
    BY <1>3, <2>1
  <2>3. B \in Nat
    BY <1>1, <2>1
  <2>4. C \in Nat
    BY <1>1, <1>2, <2>1
  <2>5. QED
    BY <2>2, <2>3, <2>4
<1>6. Extent(t, p) =
        CASE t = TYPE_INT -> 4
          [] t \in {TYPE_INT64, TYPE_BINARY_FLOAT} -> 8
          [] t = TYPE_BINARY_COMPLEX -> 16
          [] t = TYPE_LONG -> A
          [] t = TYPE_FLOAT -> B
          [] t = TYPE_COMPLEX -> C
  BY DEF Extent
<1> HIDE DEF A, B, C
<1>7. QED
  BY <1>4, <1>5, <1>6 DEF TYPE_INT, TYPE_INT64, TYPE_BINARY_FLOAT,
       TYPE_BINARY_COMPLEX, TYPE_LONG, TYPE_FLOAT, TYPE_COMPLEX

LEMMA LengthIsInt ==
  ASSUME file \in Files, NEW p \in Nat, NEW t
  PROVE  LengthAt(t, p) \in Int /\ LengthWidth(t) \in Nat
BY AtIsByte, Get32IsInt DEF LengthAt, LengthWidth, Byte

LEMMA NumberIsInt ==
  ASSUME file \in Files, NEW p \in Nat, NEW field
  PROVE  NumberAt(field, p) \in Int /\ Width(field) \in Nat
<1>1. NumberRead(field, p) \in Int
  BY Get16IsNat, Get32IsInt DEF NumberRead
<1>2. \A f \in Int : Remap(f) \in Int
  BY DEF Remap, Int32
<1>3. QED
  BY <1>1, <1>2 DEF NumberAt, Width

----------------------------------------------------------------------------
(* Versions and layouts                                                      *)

LEMMA MagicsAreTyped ==
  \A m \in Magics : m.ver \in [maj : Int, min : Int, unicode : BOOLEAN]
<1>1. \A i \in 1..5 : Magics1[i][2] \in Int /\ Magics1[i][3] \in Int
  BY DEF Magics1
<1>2. \A i \in 1..9 : Magics2[i][2] \in Int /\ Magics2[i][3] \in Int
  BY DEF Magics2
<1>3. \A i \in 1..15 : Magics3[i][2] \in Int /\ Magics3[i][3] \in Int
  BY DEF Magics3
<1>4. \A x : \A a, b \in Int : \A u \in BOOLEAN :
        Known(x, a, b, u).ver \in [maj : Int, min : Int, unicode : BOOLEAN]
  BY DEF Known, Version
<1>5. \A m \in Magics :
        \E x : \E a, b \in Int : \E u \in BOOLEAN : m = Known(x, a, b, u)
  BY <1>1, <1>2, <1>3, Zenon DEF Magics
<1>6. QED
  BY <1>4, <1>5

LEMMA VersionIsTyped ==
  \A magic \in Int : setVersion(magic) \in [maj : Int, min : Int, unicode : BOOLEAN]
<1>1. NoVersion \in [maj : Int, min : Int, unicode : BOOLEAN]
  BY DEF NoVersion
<1>2. QED
  BY <1>1, MagicsAreTyped DEF setVersion

\* One field or none.
Kinds == {"short", "long", "string", "sequence"}

FieldNames ==
  {"argCount", "posOnlyArgCount", "kwOnlyArgCount", "numLocals", "stackSize", "flags",
   "code", "consts", "names", "localNames", "localKinds", "freeVars", "cellVars",
   "fileName", "name", "qualName", "firstLine", "lnTable", "exceptTable"}

Fields == [name : FieldNames, kind : Kinds]

LEMMA FieldIsSeq ==
  ASSUME NEW name \in FieldNames, NEW kind \in Kinds, NEW present
  PROVE  Field(name, kind, present) \in Seq(Fields)
<1>1. [name |-> name, kind |-> kind] \in Fields
  BY DEF Fields
<1>2. \A f \in Fields : <<f>> \in Seq(Fields)
  OBVIOUS
<1>3. <<>> \in Seq(Fields)
  OBVIOUS
<1>4. QED
  BY <1>1, <1>2, <1>3, Zenon DEF Field

LEMMA NumberIsSeq ==
  ASSUME NEW v, NEW name \in FieldNames, NEW from
  PROVE  Number(v, name, from) \in Seq(Fields)
<1>1. (IF Since(v, 2, 3) THEN "long" ELSE "short") \in Kinds
  BY Zenon DEF Kinds
<1>2. QED
  BY <1>1, FieldIsSeq, Zenon DEF Number

\* A code object has fields in every version.
LEMMA LayoutIsSeq == \A v : Layout(v) \in Seq(Fields) /\ Len(Layout(v)) \in Nat \ {0}
<1> TAKE v
<1>1. \A s, t \in Seq(Fields) : s \o t \in Seq(Fields)
  BY ConcatProperties
<1>2. \A s, t \in Seq(Fields) : Len(s) >= 1 \/ Len(t) >= 1 => Len(s \o t) >= 1
  <2>1. \A m, n \in Nat : m >= 1 \/ n >= 1 => m + n >= 1
    OBVIOUS
  <2>2. QED
    BY <2>1, ConcatProperties, LenProperties
<1> DEFINE n1 == Number(v, "argCount", Since(v, 1, 3))
           n2 == Number(v, "posOnlyArgCount", Since(v, 3, 8))
           n3 == Number(v, "kwOnlyArgCount", v.maj >= 3)
           n4 == Number(v, "numLocals", Since(v, 1, 3) /\ ~Since(v, 3, 11))
           n5 == Number(v, "stackSize", Since(v, 1, 5))
           n6 == Number(v, "flags", Since(v, 1, 3))
           f1 == Field("code", "string", TRUE)
           f2 == Field("consts", "sequence", TRUE)
           f3 == Field("names", "sequence", TRUE)
           f4 == Field("localNames", "sequence", Since(v, 1, 3))
           f5 == Field("localKinds", "string", Since(v, 3, 11))
           f6 == Field("freeVars", "sequence", Since(v, 2, 1) /\ ~Since(v, 3, 11))
           f7 == Field("cellVars", "sequence", Since(v, 2, 1) /\ ~Since(v, 3, 11))
           f8 == Field("fileName", "string", TRUE)
           f9 == Field("name", "string", TRUE)
           g1 == Field("qualName", "string", Since(v, 3, 11))
           g2 == Number(v, "firstLine", Since(v, 1, 5))
           g3 == Field("lnTable", "string", Since(v, 1, 5))
           g4 == Field("exceptTable", "string", Since(v, 3, 11))
<1>3. Layout(v) = n1 \o n2 \o n3 \o n4 \o n5 \o n6 \o f1 \o f2 \o f3 \o f4 \o f5 \o f6
                  \o f7 \o f8 \o f9 \o g1 \o g2 \o g3 \o g4
  BY Zenon DEF Layout
<1>4. /\ n1 \in Seq(Fields) /\ n2 \in Seq(Fields) /\ n3 \in Seq(Fields) /\ n4 \in Seq(Fields)
      /\ n5 \in Seq(Fields) /\ n6 \in Seq(Fields) /\ g2 \in Seq(Fields)
  <2>1. {"argCount", "posOnlyArgCount", "kwOnlyArgCount", "numLocals", "stackSize", "flags",
         "firstLine"} \subseteq FieldNames
    BY DEF FieldNames
  <2>2. QED
    BY <2>1, NumberIsSeq, Zenon
<1>5. /\ f2 \in Seq(Fields) /\ f3 \in Seq(Fields) /\ f4 \in Seq(Fields) /\ f5 \in Seq(Fields)
      /\ f6 \in Seq(Fields) /\ f7 \in Seq(Fields) /\ f8 \in Seq(Fields) /\ f9 \in Seq(Fields)
      /\ g1 \in Seq(Fields) /\ g3 \in Seq(Fields) /\ g4 \in Seq(Fields)
  <2>1. {"consts", "names", "localNames", "localKinds", "freeVars", "cellVars", "fileName",
         "name", "qualName", "lnTable", "exceptTable"} \subseteq FieldNames
    BY DEF FieldNames
  <2>2. "string" \in Kinds /\ "sequence" \in Kinds
    BY DEF Kinds
  <2>3. QED
    BY <2>1, <2>2, FieldIsSeq, Zenon
<1>6. f1 \in Seq(Fields) /\ Len(f1) = 1
  <2>1. "code" \in FieldNames /\ "string" \in Kinds
    BY DEF FieldNames, Kinds
  <2>2. f1 = <<[name |-> "code", kind |-> "string"]>>
    BY Zenon DEF Field
  <2>3. \A x : Len(<<x>>) = 1
    OBVIOUS
  <2>4. QED
    BY <2>1, <2>2, <2>3, FieldIsSeq, Zenon
<1> HIDE DEF n1, n2, n3, n4, n5, n6, f1, f2, f3, f4, f5, f6, f7, f8, f9, g1, g2, g3, g4
<1> DEFINE front == n1 \o n2 \o n3 \o n4 \o n5 \o n6
           mid   == front \o f1 \o f2 \o f3 \o f4 \o f5
           last  == mid \o f6 \o f7 \o f8 \o f9 \o g1
           all   == last \o g2 \o g3 \o g4
<1>7. Layout(v) = all
  BY <1>3
<1>8. front \in Seq(Fields)
  BY <1>1, <1>4, Zenon
<1> HIDE DEF front
<1>9. Len(f1) >= 1
  BY <1>6
<1>10. mid \in Seq(Fields) /\ Len(mid) >= 1
  BY <1>1, <1>2, <1>5, <1>6, <1>8, <1>9, Zenon
<1> HIDE DEF mid
<1>11. last \in Seq(Fields) /\ Len(last) >= 1
  BY <1>1, <1>2, <1>5, <1>10, Zenon
<1> HIDE DEF last
<1>12. all \in Seq(Fields) /\ Len(all) >= 1
  BY <1>1, <1>2, <1>4, <1>5, <1>11, Zenon
<1> HIDE DEF all
<1>13. QED
  BY <1>7, <1>12, LenProperties

----------------------------------------------------------------------------
(* The heap                                                                  *)

LEMMA Widen ==
  ASSUME NEW m \in Nat, NEW n \in Nat, m <= n, NEW o \in ObjectsUpTo(m)
  PROVE  o \in ObjectsUpTo(n)
<1>1. o.items \in Seq(0..m)
  BY DEF ObjectsUpTo
<1>2. \A x \in 0..m : x \in 0..n
  OBVIOUS
<1>3. o.items \in Seq(0..n)
  BY <1>1, <1>2, SeqWider
<1>4. QED
  BY <1>3 DEF ObjectsUpTo

LEMMA HeapFacts ==
  ASSUME NEW h, Heap(h)
  PROVE  /\ Len(h) \in Nat
         /\ \A k \in 1..Len(h) : h[k] \in ObjectsUpTo(Len(h))
BY SeqIn DEF Heap

LEMMA StackFacts ==
  ASSUME NEW h, NEW fr, Stack(h, fr)
  PROVE  /\ Len(fr) \in Nat
         /\ \A k \in 1..Len(fr) : /\ fr[k] \in [obj : 1..Len(h), left : Nat \ {0}]
                                 /\ fr[k].obj \in 1..Len(h) /\ fr[k].left \in Nat \ {0}
<1>1. Len(fr) \in Nat /\ \A k \in 1..Len(fr) : fr[k] \in [obj : 1..Len(h), left : Nat \ {0}]
  BY SeqIn DEF Stack
<1>2. QED
  BY <1>1

\* What an object is used as does not depend on objects that come later, nor on
\* what others have been given.
LEMMA StillGood ==
  ASSUME NEW h, NEW g, NEW n \in Nat, NEW o \in ObjectsUpTo(n), NEW lay,
         \A k \in 1..n : g[k].type = h[k].type
  PROVE  /\ GoodItems(h, lay, o) => GoodItems(g, lay, o)
         /\ WholeIn(h, lay, o) => WholeIn(g, lay, o)
         /\ \A left : WaitsIn(h, lay, o, left) => WaitsIn(g, lay, o, left)
<1>1. o.items \in Seq(0..n)
  BY DEF ObjectsUpTo
<1>2. \A i \in 1..Len(o.items) : o.items[i] \in 0..n
  BY <1>1, SeqIn
<1>3. \A x \in 0..n : \A field : GoodItem(h, field, x) => GoodItem(g, field, x)
  BY DEF GoodItem
<1>4. GoodItems(h, lay, o) => GoodItems(g, lay, o)
  BY <1>2, <1>3 DEF GoodItems
<1>5. QED
  BY <1>4 DEF WholeIn, WaitsIn

LEMMA Appended ==
  ASSUME NEW h, Heap(h), NEW o \in ObjectsUpTo(0)
  PROVE  /\ Heap(Append(h, o)) /\ Len(Append(h, o)) = Len(h) + 1
         /\ Append(h, o)[Len(h) + 1] = o
         /\ \A k \in 1..Len(h) : Append(h, o)[k] = h[k]
<1>1. Len(h) \in Nat /\ 0 <= Len(h) + 1 /\ Len(h) <= Len(h) + 1 /\ Len(h) + 1 \in Nat
  BY HeapFacts
<1>2. o \in ObjectsUpTo(Len(h) + 1)
  BY <1>1, Widen
<1>3. \A x \in ObjectsUpTo(Len(h)) : x \in ObjectsUpTo(Len(h) + 1)
  BY <1>1, Widen
<1>4. h \in Seq(ObjectsUpTo(Len(h) + 1))
  BY <1>3, SeqWider DEF Heap
<1>5. QED
  BY <1>2, <1>4, AppendIn DEF Heap

\* A new object disturbs none of the others.
LEMMA OthersKept ==
  ASSUME NEW h, Heap(h), NEW o \in ObjectsUpTo(0), NEW lay, NEW k \in 1..Len(h)
  PROVE  /\ WholeIn(h, lay, h[k]) => WholeIn(Append(h, o), lay, Append(h, o)[k])
         /\ \A left : WaitsIn(h, lay, h[k], left)
                     => WaitsIn(Append(h, o), lay, Append(h, o)[k], left)
<1>1. Len(h) \in Nat /\ h[k] \in ObjectsUpTo(Len(h)) /\ Append(h, o)[k] = h[k]
  BY HeapFacts, Appended
<1>2. \A i \in 1..Len(h) : Append(h, o)[i].type = h[i].type
  BY Appended
<1>3. QED
  BY <1>1, <1>2, StillGood

\* A new object that is whole.
LEMMA BooksWhole ==
  ASSUME NEW h, Heap(h), NEW fr, Stack(h, fr), NEW lay, Books(h, fr, lay),
         NEW o \in ObjectsUpTo(0), WholeIn(Append(h, o), lay, o)
  PROVE  Books(Append(h, o), fr, lay) /\ Stack(Append(h, o), fr)
<1> DEFINE g == Append(h, o)
<1>1. /\ Len(g) = Len(h) + 1 /\ g[Len(h) + 1] = o /\ Len(h) \in Nat
      /\ 1..Len(g) = (1..Len(h)) \cup {Len(h) + 1}
  <2>1. Len(h) \in Nat /\ Len(g) = Len(h) + 1 /\ g[Len(h) + 1] = o
    BY Appended, HeapFacts
  <2> HIDE DEF g
  <2>2. QED
    BY <2>1
<1>2. \A j \in 1..Len(fr) : fr[j].obj \in 1..Len(h)
  BY StackFacts
<1>3. \A k \in 1..Len(h) : /\ WholeIn(h, lay, h[k]) => WholeIn(g, lay, g[k])
                          /\ \A left : WaitsIn(h, lay, h[k], left) => WaitsIn(g, lay, g[k], left)
  BY OthersKept
<1>4. WholeIn(g, lay, o)
  OBVIOUS
<1>5. Stack(g, fr)
  <2>1. \A x \in [obj : 1..Len(h), left : Nat \ {0}] : x \in [obj : 1..Len(g), left : Nat \ {0}]
    BY <1>1
  <2>2. QED
    BY <2>1, SeqWider DEF Stack
<1> HIDE DEF g
<1>6. Books(g, fr, lay)
  BY <1>1, <1>2, <1>3, <1>4 DEF Books
<1>7. QED
  BY <1>5, <1>6 DEF g

\* A new object whose load() waits.
LEMMA BooksWaiting ==
  ASSUME NEW h, Heap(h), NEW fr, Stack(h, fr), NEW lay, Books(h, fr, lay),
         NEW o \in ObjectsUpTo(0), NEW n \in Nat \ {0}, WaitsIn(Append(h, o), lay, o, n)
  PROVE  /\ Books(Append(h, o), Append(fr, [obj |-> Len(h) + 1, left |-> n]), lay)
         /\ Stack(Append(h, o), Append(fr, [obj |-> Len(h) + 1, left |-> n]))
<1> DEFINE g == Append(h, o)
           f == [obj |-> Len(h) + 1, left |-> n]
           gr == Append(fr, f)
<1>1. /\ Len(g) = Len(h) + 1 /\ g[Len(h) + 1] = o /\ Len(h) \in Nat
      /\ 1..Len(g) = (1..Len(h)) \cup {Len(h) + 1} /\ Len(h) + 1 \notin 1..Len(h)
  <2>1. Len(h) \in Nat /\ Len(g) = Len(h) + 1 /\ g[Len(h) + 1] = o
    BY Appended, HeapFacts
  <2> HIDE DEF g
  <2>2. QED
    BY <2>1
<1>2. Len(fr) \in Nat /\ \A j \in 1..Len(fr) : fr[j].obj \in 1..Len(h)
  BY StackFacts
<1>3. \A k \in 1..Len(h) : /\ WholeIn(h, lay, h[k]) => WholeIn(g, lay, g[k])
                          /\ \A left : WaitsIn(h, lay, h[k], left) => WaitsIn(g, lay, g[k], left)
  BY OthersKept
<1>4. WaitsIn(g, lay, o, n)
  OBVIOUS
<1>5. f \in [obj : 1..Len(g), left : Nat \ {0}] /\ f.obj = Len(h) + 1 /\ f.left = n
  <2> HIDE DEF g
  <2>1. QED
    BY <1>1
<1>6. fr \in Seq([obj : 1..Len(g), left : Nat \ {0}])
  <2>1. \A x \in [obj : 1..Len(h), left : Nat \ {0}] : x \in [obj : 1..Len(g), left : Nat \ {0}]
    BY <1>1
  <2>2. QED
    BY <2>1, SeqWider DEF Stack
<1> HIDE DEF g, f
<1>7. /\ gr \in Seq([obj : 1..Len(g), left : Nat \ {0}])
      /\ Len(gr) = Len(fr) + 1 /\ gr[Len(fr) + 1] = f
      /\ \A j \in 1..Len(fr) : gr[j] = fr[j]
  BY <1>5, <1>6, AppendIn
<1>8. Stack(g, gr)
  BY <1>7 DEF Stack
<1> HIDE DEF gr
<1>9. 1..Len(gr) = (1..Len(fr)) \cup {Len(fr) + 1}
  BY <1>2, <1>7
<1>10. \A j \in 1..Len(gr) : WaitsIn(g, lay, g[gr[j].obj], gr[j].left)
  <2>1. WaitsIn(g, lay, g[gr[Len(fr) + 1].obj], gr[Len(fr) + 1].left)
    BY <1>1, <1>4, <1>5, <1>7
  <2>2. \A j \in 1..Len(fr) : WaitsIn(g, lay, g[gr[j].obj], gr[j].left)
    BY <1>2, <1>3, <1>7 DEF Books
  <2>3. QED
    BY <1>9, <2>1, <2>2
<1>11. \A i, j \in 1..Len(gr) : gr[i].obj = gr[j].obj => i = j
  <2>1. \A i, j \in 1..Len(fr) : gr[i].obj = gr[j].obj => i = j
    BY <1>7 DEF Books
  <2>2. gr[Len(fr) + 1].obj = Len(h) + 1 /\ \A j \in 1..Len(fr) : gr[j].obj # Len(h) + 1
    BY <1>1, <1>2, <1>5, <1>7
  <2>3. QED
    BY <1>9, <2>1, <2>2
<1>12. \A k \in 1..Len(g) : ~Waited(gr, k) => WholeIn(g, lay, g[k])
  <2>1. Waited(gr, Len(h) + 1)
    BY <1>5, <1>7, <1>9 DEF Waited
  <2>2. \A k \in 1..Len(h) : Waited(fr, k) => Waited(gr, k)
    BY <1>7, <1>9 DEF Waited
  <2>3. QED
    BY <1>1, <1>3, <2>1, <2>2 DEF Books
<1>13. Books(g, gr, lay)
  BY <1>10, <1>11, <1>12 DEF Books
<1>14. QED
  BY <1>8, <1>13 DEF g, gr, f

\* The object of the innermost frame with something more in it.
Given(h, k, p) == [h EXCEPT ![k] = p]

LEMMA GivenFacts ==
  ASSUME NEW h, Heap(h), NEW k \in 1..Len(h), NEW p \in ObjectsUpTo(Len(h)), p.type = h[k].type
  PROVE  /\ Heap(Given(h, k, p)) /\ Len(Given(h, k, p)) = Len(h)
         /\ Given(h, k, p)[k] = p
         /\ \A i \in 1..Len(h) : i # k => Given(h, k, p)[i] = h[i]
         /\ \A i \in 1..Len(h) : Given(h, k, p)[i].type = h[i].type
<1>1. h \in Seq(ObjectsUpTo(Len(h))) /\ Len(h) \in Nat
  BY HeapFacts DEF Heap
<1>2. /\ Given(h, k, p) \in Seq(ObjectsUpTo(Len(h)))
      /\ Len(Given(h, k, p)) = Len(h)
      /\ \A i \in 1..Len(h) : Given(h, k, p)[i] = IF i = k THEN p ELSE h[i]
  BY <1>1, ExceptSeq DEF Given
<1>3. QED
  BY <1>2 DEF Heap

LEMMA OthersKeptToo ==
  ASSUME NEW h, Heap(h), NEW k \in 1..Len(h), NEW p \in ObjectsUpTo(Len(h)), p.type = h[k].type,
         NEW lay
  PROVE  /\ \A i \in 1..Len(h) : i # k =>
              /\ WholeIn(h, lay, h[i]) => WholeIn(Given(h, k, p), lay, Given(h, k, p)[i])
              /\ \A left : WaitsIn(h, lay, h[i], left)
                          => WaitsIn(Given(h, k, p), lay, Given(h, k, p)[i], left)
         /\ WholeIn(h, lay, p) => WholeIn(Given(h, k, p), lay, Given(h, k, p)[k])
         /\ \A left : WaitsIn(h, lay, p, left)
                     => WaitsIn(Given(h, k, p), lay, Given(h, k, p)[k], left)
<1> DEFINE g == Given(h, k, p)
<1>1. /\ g[k] = p /\ \A i \in 1..Len(h) : i # k => g[i] = h[i]
      /\ \A i \in 1..Len(h) : g[i].type = h[i].type
  BY GivenFacts
<1>2. Len(h) \in Nat /\ \A i \in 1..Len(h) : h[i] \in ObjectsUpTo(Len(h))
  BY HeapFacts
<1> HIDE DEF g
<1>3. \A o \in ObjectsUpTo(Len(h)) :
        /\ WholeIn(h, lay, o) => WholeIn(g, lay, o)
        /\ \A left : WaitsIn(h, lay, o, left) => WaitsIn(g, lay, o, left)
  BY <1>1, <1>2, StillGood
<1>4. QED
  BY <1>1, <1>2, <1>3 DEF g

\* The innermost frame goes on waiting.
Less(fr, m) == [fr EXCEPT ![Len(fr)].left = m]

LEMMA LessFacts ==
  ASSUME NEW h, NEW fr, Stack(h, fr), fr # <<>>, NEW m \in Nat \ {0}
  PROVE  /\ Stack(h, Less(fr, m)) /\ Len(Less(fr, m)) = Len(fr)
         /\ \A j \in 1..Len(fr) : Less(fr, m)[j].obj = fr[j].obj
         /\ \A j \in 1..Len(fr) : j # Len(fr) => Less(fr, m)[j] = fr[j]
         /\ \A j \in 1..Len(fr) : j # Len(fr) => Less(fr, m)[j].left = fr[j].left
         /\ Less(fr, m)[Len(fr)].left = m
<1> DEFINE F == [obj : 1..Len(h), left : Nat \ {0}]
           e == [fr[Len(fr)] EXCEPT !.left = m]
<1>1. fr \in Seq(F) /\ Len(fr) \in 1..Len(fr) /\ \A j \in 1..Len(fr) : fr[j] \in F
  BY FrontOf, SeqIn, ZenonT(30) DEF Stack
<1>2. fr[Len(fr)] \in F
  BY <1>1
<1>3. e \in F /\ e.left = m /\ e.obj = fr[Len(fr)].obj
  BY <1>2
<1>4. Less(fr, m) = [fr EXCEPT ![Len(fr)] = e]
  BY DEF Less
<1> HIDE DEF F, e
<1>5. /\ Less(fr, m) \in Seq(F)
      /\ Len(Less(fr, m)) = Len(fr)
      /\ \A j \in 1..Len(fr) : Less(fr, m)[j] = IF j = Len(fr) THEN e ELSE fr[j]
  BY <1>1, <1>3, <1>4, ExceptSeq
<1>6. QED
  BY <1>1, <1>3, <1>5 DEF Stack, F

LEMMA BooksStay ==
  ASSUME NEW h, Heap(h), NEW fr, Stack(h, fr), fr # <<>>, NEW lay, Books(h, fr, lay),
         NEW p \in ObjectsUpTo(Len(h)), p.type = h[fr[Len(fr)].obj].type,
         NEW m \in Nat \ {0}, WaitsIn(h, lay, p, m)
  PROVE  /\ Books(Given(h, fr[Len(fr)].obj, p), Less(fr, m), lay)
         /\ Stack(Given(h, fr[Len(fr)].obj, p), Less(fr, m))
         /\ Heap(Given(h, fr[Len(fr)].obj, p)) /\ Len(Given(h, fr[Len(fr)].obj, p)) = Len(h)
<1> DEFINE k  == fr[Len(fr)].obj
           g  == Given(h, k, p)
           gr == Less(fr, m)
<1>1. /\ Len(fr) \in 1..Len(fr) /\ k \in 1..Len(h)
      /\ \A j \in 1..Len(fr) : fr[j].obj \in 1..Len(h)
  BY FrontOf, StackFacts DEF Stack
<1>2. /\ Stack(h, gr) /\ Len(gr) = Len(fr)
      /\ \A j \in 1..Len(fr) : gr[j].obj = fr[j].obj
      /\ \A j \in 1..Len(fr) : j # Len(fr) => gr[j].left = fr[j].left
      /\ gr[Len(fr)].left = m
  BY LessFacts
<1>3. Heap(g) /\ Len(g) = Len(h)
  BY <1>1, GivenFacts
<1>4. /\ \A i \in 1..Len(h) : i # k =>
              /\ WholeIn(h, lay, h[i]) => WholeIn(g, lay, g[i])
              /\ \A left : WaitsIn(h, lay, h[i], left) => WaitsIn(g, lay, g[i], left)
      /\ WaitsIn(g, lay, g[k], m)
  BY <1>1, OthersKeptToo
<1>5. \A j \in 1..Len(fr) : j # Len(fr) => fr[j].obj # k
  BY <1>1 DEF Books
<1>6. k = fr[Len(fr)].obj
  OBVIOUS
<1> HIDE DEF k, g, gr
<1>7. \A j \in 1..Len(gr) : WaitsIn(g, lay, g[gr[j].obj], gr[j].left)
  BY <1>1, <1>2, <1>4, <1>5, <1>6 DEF Books
<1>8. \A i, j \in 1..Len(gr) : gr[i].obj = gr[j].obj => i = j
  BY <1>2 DEF Books
<1>9. \A i \in 1..Len(g) : ~Waited(gr, i) => WholeIn(g, lay, g[i])
  BY <1>1, <1>2, <1>3, <1>4, <1>6 DEF Books, Waited
<1>10. Stack(g, gr)
  BY <1>2, <1>3 DEF Stack
<1>11. QED
  BY <1>3, <1>7, <1>8, <1>9, <1>10 DEF Books, k, g, gr

\* The innermost frame has all it waited for.
Outer(fr) == SubSeq(fr, 1, Len(fr) - 1)

LEMMA BooksDone ==
  ASSUME NEW h, Heap(h), NEW fr, Stack(h, fr), fr # <<>>, NEW lay, Books(h, fr, lay),
         NEW p \in ObjectsUpTo(Len(h)), p.type = h[fr[Len(fr)].obj].type, WholeIn(h, lay, p)
  PROVE  /\ Books(Given(h, fr[Len(fr)].obj, p), Outer(fr), lay)
         /\ Stack(Given(h, fr[Len(fr)].obj, p), Outer(fr))
         /\ Heap(Given(h, fr[Len(fr)].obj, p)) /\ Len(Given(h, fr[Len(fr)].obj, p)) = Len(h)
<1> DEFINE k  == fr[Len(fr)].obj
           g  == Given(h, k, p)
           gr == Outer(fr)
<1>1. /\ Len(fr) \in 1..Len(fr) /\ k \in 1..Len(h) /\ Len(fr) \in Nat
      /\ \A j \in 1..Len(fr) : fr[j].obj \in 1..Len(h)
  BY FrontOf, StackFacts DEF Stack
<1>2. /\ Stack(h, gr) /\ Len(gr) = Len(fr) - 1
      /\ \A j \in 1..(Len(fr) - 1) : gr[j] = fr[j]
  BY FrontOf DEF Stack, Outer
<1>3. Heap(g) /\ Len(g) = Len(h)
  BY <1>1, GivenFacts
<1>4. /\ \A i \in 1..Len(h) : i # k =>
              /\ WholeIn(h, lay, h[i]) => WholeIn(g, lay, g[i])
              /\ \A left : WaitsIn(h, lay, h[i], left) => WaitsIn(g, lay, g[i], left)
      /\ WholeIn(g, lay, g[k])
  BY <1>1, OthersKeptToo
<1>5. k = fr[Len(fr)].obj
  OBVIOUS
<1> HIDE DEF k, g, gr
<1>6. 1..Len(fr) = (1..Len(gr)) \cup {Len(fr)} /\ Len(fr) \notin 1..Len(gr)
  BY <1>1, <1>2
<1>7. \A j \in 1..Len(gr) : gr[j] = fr[j] /\ fr[j].obj # k /\ j \in 1..Len(fr)
  BY <1>1, <1>2, <1>5, <1>6 DEF Books
<1>8. \A j \in 1..Len(gr) : WaitsIn(g, lay, g[gr[j].obj], gr[j].left)
  BY <1>1, <1>4, <1>7, ZenonT(30) DEF Books
<1>9. \A i, j \in 1..Len(gr) : gr[i].obj = gr[j].obj => i = j
  BY <1>7 DEF Books
<1>10. \A i \in 1..Len(g) : ~Waited(gr, i) => WholeIn(g, lay, g[i])
  <2>1. \A i \in 1..Len(g) : i # k /\ Waited(fr, i) => Waited(gr, i)
    BY <1>5, <1>6, <1>7 DEF Waited
  <2>2. QED
    BY <1>3, <1>4, <2>1 DEF Books
<1>11. Stack(g, gr)
  BY <1>2, <1>3 DEF Stack
<1>12. QED
  BY <1>3, <1>8, <1>9, <1>10, <1>11 DEF Books, k, g, gr

----------------------------------------------------------------------------
(* Steps                                                                     *)

Versions == [maj : Int, min : Int, unicode : BOOLEAN]

LEMMA Typed ==
  ASSUME IInv
  PROVE  /\ file \in Files /\ pos \in Nat /\ ver \in Versions /\ ret \in 0..Len(heap)
         /\ Heap(heap) /\ Len(heap) \in Nat /\ Len(heap) >= 5
         /\ \A k \in 1..Len(heap) : heap[k] \in ObjectsUpTo(Len(heap))
         /\ Stack(heap, frames) /\ Len(frames) \in Nat
         /\ refs \in Seq(1..Len(heap)) /\ interns \in Seq(1..Len(heap))
         /\ AllTexts(heap, interns)
         /\ Books(heap, frames, Layout(ver))
<1>1. /\ file \in Files /\ pos \in Nat /\ ver \in Versions /\ ret \in 0..Len(heap)
      /\ Heap(heap) /\ Len(heap) >= 5 /\ Stack(heap, frames)
      /\ refs \in Seq(1..Len(heap)) /\ interns \in Seq(1..Len(heap))
      /\ AllTexts(heap, interns)
      /\ Books(heap, frames, Layout(ver))
  BY DEF IInv, TypeOK, HasSingletons, Heap, Stack, ObjectsUpTo, Versions
<1>2. QED
  BY <1>1, HeapFacts, StackFacts

\* What a step must leave.
LEMMA Reached ==
  ASSUME file' \in Files, pos' \in Nat, ver' \in Versions, ret' \in 0..Len(heap'),
         Heap(heap'), Len(heap') >= 5, Stack(heap', frames'),
         refs' \in Seq(1..Len(heap')), interns' \in Seq(1..Len(heap')),
         AllTexts(heap', interns'), Books(heap', frames', Layout(ver')), AtPc',
         pc' \in {"open", "object", "field", "return", "done", "failed"}
  PROVE  IInv'
BY DEF IInv, TypeOK, HasSingletons, Heap, Stack, ObjectsUpTo, Versions

\* The tables of references after a new object.
LEMMA TableGrows ==
  ASSUME NEW n \in Nat, NEW t \in Seq(1..n)
  PROVE  t \in Seq(1..(n + 1)) /\ Append(t, n + 1) \in Seq(1..(n + 1))
<1>1. \A x \in 1..n : x \in 1..(n + 1)
  OBVIOUS
<1>2. t \in Seq(1..(n + 1))
  BY <1>1, SeqWider
<1>3. n + 1 \in 1..(n + 1)
  OBVIOUS
<1>4. QED
  BY <1>2, <1>3, AppendIn

\* The table of strings, when the heap grows and when it does.
LEMMA TextsKept ==
  ASSUME NEW h, Heap(h), NEW t \in Seq(1..Len(h)), AllTexts(h, t), NEW o \in ObjectsUpTo(0)
  PROVE  /\ AllTexts(Append(h, o), t)
         /\ o.type \in Texts => AllTexts(Append(h, o), Append(t, Len(h) + 1))
<1> DEFINE g == Append(h, o)
           u == Append(t, Len(h) + 1)
<1>1. Len(t) \in Nat /\ \A i \in 1..Len(t) : t[i] \in 1..Len(h)
  BY SeqIn
<1>2. g[Len(h) + 1] = o /\ (\A k \in 1..Len(h) : g[k] = h[k]) /\ Len(h) \in Nat
  BY Appended, HeapFacts
<1> HIDE DEF g
<1>3. AllTexts(g, t)
  BY <1>1, <1>2 DEF AllTexts
<1>4. t \in Seq(1..(Len(h) + 1)) /\ Len(h) + 1 \in 1..(Len(h) + 1)
  BY <1>2, TableGrows
<1>5. Len(u) = Len(t) + 1 /\ u[Len(t) + 1] = Len(h) + 1 /\ \A i \in 1..Len(t) : u[i] = t[i]
  BY <1>4, AppendIn
<1> HIDE DEF u
<1>6. \A i \in 1..Len(u) : i \in 1..Len(t) \/ i = Len(t) + 1
  BY <1>1, <1>5
<1>7. o.type \in Texts => AllTexts(g, u)
  BY <1>2, <1>3, <1>5, <1>6 DEF AllTexts
<1>8. QED
  BY <1>3, <1>7 DEF g, u

LEMMA CreateReturns ==
  ASSUME IInv, NEW o \in ObjectsUpTo(0), WholeIn(Append(heap, o), Layout(ver), o),
         heap' = Append(heap, o), refs' \in {refs, Append(refs, New)},
         interns' = interns \/ (interns' = Append(interns, New) /\ o.type \in Texts), ret' = New, pos' \in Nat,
         pc' = "return", UNCHANGED <<file, ver, frames>>
  PROVE  IInv'
<1>1. Heap(heap') /\ Len(heap') = Len(heap) + 1 /\ Len(heap') >= 5
  BY Typed, Appended
<1>2. Books(heap', frames', Layout(ver')) /\ Stack(heap', frames')
  BY Typed, BooksWhole
<1>3. refs' \in Seq(1..Len(heap')) /\ interns' \in Seq(1..Len(heap'))
  BY <1>1, Typed, TableGrows DEF New
<1>4. ret' \in 0..Len(heap')
  BY <1>1, Typed DEF New
<1>5. file' \in Files /\ ver' \in Versions /\ AtPc'
  BY Typed DEF AtPc
<1>6. AllTexts(heap', interns')
  BY Typed, TextsKept DEF New
<1>7. QED
  BY <1>1, <1>2, <1>3, <1>4, <1>5, <1>6, Reached

LEMMA CreateWaits ==
  ASSUME IInv, NEW o \in ObjectsUpTo(0), NEW n \in Nat \ {0},
         WaitsIn(Append(heap, o), Layout(ver), o, n),
         heap' = Append(heap, o), refs' \in {refs, Append(refs, New)},
         frames' = Append(frames, [obj |-> New, left |-> n]), pos' \in Nat,
         pc' \in {"object", "field"}, pc' = "field" => o.type \in CodeTypes,
         UNCHANGED <<file, ver, interns, ret>>
  PROVE  IInv'
<1>1. /\ Heap(heap') /\ Len(heap') = Len(heap) + 1 /\ heap'[Len(heap) + 1] = o
      /\ Len(heap') >= 5
  BY Typed, Appended
<1>2. Books(heap', frames', Layout(ver')) /\ Stack(heap', frames')
  BY Typed, BooksWaiting DEF New
<1>3. refs' \in Seq(1..Len(heap')) /\ interns' \in Seq(1..Len(heap'))
  BY <1>1, Typed, TableGrows DEF New
<1>4. ret' \in 0..Len(heap')
  BY <1>1, Typed
<1>5. frames' # <<>> /\ frames'[Len(frames')].obj = Len(heap) + 1
  <2> DEFINE f == [obj |-> New, left |-> n]
             F == [obj : 1..(Len(heap) + 1), left : Nat \ {0}]
  <2>1. f.obj = New
    OBVIOUS
  <2>2. frames \in Seq([obj : 1..Len(heap), left : Nat \ {0}])
    BY Typed DEF Stack
  <2>3. \A x \in [obj : 1..Len(heap), left : Nat \ {0}] : x \in F
    BY Typed
  <2>4. f \in F
    BY Typed DEF New
  <2> HIDE DEF f, F
  <2>5. frames \in Seq(F)
    BY <2>2, <2>3, SeqWider
  <2>6. frames' = Append(frames, f) /\ Len(frames') = Len(frames) + 1 /\ frames'[Len(frames) + 1] = f
    BY <2>4, <2>5, AppendIn DEF f
  <2>7. frames' # <<>>
    <3>1. Len(frames') # 0 /\ Len(<<>>) = 0
      BY <2>6, Typed, EmptySeq
    <3>2. QED
      BY <3>1
  <2>8. QED
    BY <2>1, <2>6, <2>7 DEF New
<1>6. file' \in Files /\ ver' \in Versions /\ AtPc'
  BY <1>1, <1>5, Typed DEF AtPc, TopType, Top
<1>7. AllTexts(heap', interns')
  BY Typed, TextsKept
<1>8. QED
  BY <1>1, <1>2, <1>3, <1>4, <1>6, <1>7, Reached

\* LoadObject without a new object.
LEMMA ReturnsOld ==
  ASSUME IInv, ret' \in 0..Len(heap), refs' \in Seq(1..Len(heap)), pos' \in Nat,
         pc' = "return", UNCHANGED <<file, ver, heap, interns, frames>>
  PROVE  IInv'
BY Typed, Reached DEF AtPc

\* A new object has a type and no parts yet.
LEMMA ObjectFacts ==
  ASSUME NEW t \in Types, NEW v \in Seq(Int), NEW n \in Nat
  PROVE  /\ Object(t, v, n) \in ObjectsUpTo(0)
         /\ Object(t, v, n).type = t /\ Object(t, v, n).size = n
         /\ Len(Object(t, v, n).items) = 0
<1>1. <<>> \in Seq(0..0) /\ Len(<<>>) = 0
  OBVIOUS
<1>2. QED
  BY <1>1 DEF Object, ObjectsUpTo

LEMMA EmptyObjectFacts ==
  ASSUME NEW t \in Types, NEW n \in Nat
  PROVE  /\ Object(t, <<>>, n) \in ObjectsUpTo(0)
         /\ Object(t, <<>>, n).type = t /\ Object(t, <<>>, n).size = n
         /\ Len(Object(t, <<>>, n).items) = 0
<1> DEFINE e == <<>>
<1>1. e \in Seq(Int)
  OBVIOUS
<1> HIDE DEF e
<1>2. /\ Object(t, e, n) \in ObjectsUpTo(0)
      /\ Object(t, e, n).type = t /\ Object(t, e, n).size = n
      /\ Len(Object(t, e, n).items) = 0
  BY <1>1, ObjectFacts
<1>3. QED
  BY <1>2 DEF e

\* The kinds of objects are kept apart by their types.
LEMMA TypesApart ==
  /\ \A t \in Numbers \cup Texts : t \in Types /\ t \notin Holders
  /\ \A t \in Series : t \in Types /\ t \in Holders /\ t # TYPE_DICT /\ t \notin CodeTypes
  /\ TYPE_DICT \in Types /\ TYPE_DICT \in Holders /\ TYPE_DICT \notin Series
  /\ TYPE_DICT \notin CodeTypes
  /\ \A t \in CodeTypes : t \in Types /\ t \in Holders /\ t # TYPE_DICT /\ t \notin Series
  /\ \A i \in 1..5 : Singletons[i] \in Types /\ Singletons[i] \notin Holders
BY DEF Types, Holders, Numbers, Texts, Ascii, Short, Interned, Strings, Series, CodeTypes, Singletons,
  TYPE_NONE, TYPE_FALSE, TYPE_TRUE, TYPE_STOPITER, TYPE_ELLIPSIS, TYPE_INT, TYPE_INT64, TYPE_FLOAT,
  TYPE_BINARY_FLOAT, TYPE_COMPLEX, TYPE_BINARY_COMPLEX, TYPE_LONG, TYPE_STRING, TYPE_INTERNED,
  TYPE_STRINGREF, TYPE_TUPLE, TYPE_LIST, TYPE_DICT, TYPE_CODE, TYPE_CODE2, TYPE_UNICODE, TYPE_SET,
  TYPE_FROZENSET, TYPE_ASCII, TYPE_ASCII_INTERNED, TYPE_SMALL_TUPLE, TYPE_SHORT_ASCII,
  TYPE_SHORT_ASCII_INTERNED

\* An index that was checked.
LEMMA IndexFacts ==
  ASSUME file \in Files, NEW p \in Nat, NEW S, NEW s \in Seq(S), IndexIsGood(p, Len(s))
  PROVE  s[get32(p) + 1] \in S
<1>1. Len(s) \in Nat /\ \A k \in 1..Len(s) : s[k] \in S
  BY SeqIn
<1>2. get32(p) \in 0..(Len(s) - 1)
  BY DEF IndexIsGood
<1>3. \A n \in Nat : \A x \in 0..(n - 1) : x + 1 \in 1..n
  OBVIOUS
<1>4. get32(p) + 1 \in 1..Len(s)
  BY <1>1, <1>2, <1>3
<1>5. QED
  BY <1>1, <1>4

LEMMA LoadReferenceStep == ASSUME IInv, LoadReference PROVE IInv'
<1>1. /\ IndexIsGood(pos + 1, Len(refs)) /\ pos + 1 \in Nat /\ pos + 5 \in Nat
      /\ ret' = refs[get32(pos + 1) + 1] /\ pos' = pos + 5 /\ pc' = "return"
      /\ UNCHANGED <<file, ver, heap, refs, interns, frames>>
  BY Typed DEF LoadReference, Loading, Readable, Return
<1>2. refs[get32(pos + 1) + 1] \in 1..Len(heap)
  BY <1>1, Typed, IndexFacts
<1>3. ret' \in 0..Len(heap)
  BY <1>1, <1>2, Typed
<1>4. QED
  BY <1>1, <1>3, Typed, ReturnsOld

LEMMA LoadNothingStep == ASSUME IInv, LoadNothing PROVE IInv'
<1>1. /\ ret' = 0 /\ pos' = pos + 1 /\ pc' = "return"
      /\ UNCHANGED <<file, ver, heap, refs, interns, frames>>
  BY DEF LoadNothing, Loading, Return
<1>2. QED
  BY <1>1, Typed, ReturnsOld

LEMMA LoadSingletonStep == ASSUME IInv, LoadSingleton PROVE IInv'
<1>1. PICK s \in 1..5 :
        /\ ret' = s /\ pos' = pos + 1 /\ pc' = "return"
        /\ refs' \in {refs, Append(refs, s)}
        /\ UNCHANGED <<file, ver, heap, interns, frames>>
  BY DEF LoadSingleton, Loading, Return
<1>2. s \in 1..Len(heap) /\ s \in 0..Len(heap)
  BY Typed
<1>3. refs' \in Seq(1..Len(heap))
  <2>1. refs \in Seq(1..Len(heap))
    BY Typed
  <2>2. Append(refs, s) \in Seq(1..Len(heap))
    BY <1>2, <2>1, AppendIn
  <2>3. QED
    BY <1>1, <2>1, <2>2
<1>4. QED
  BY <1>1, <1>2, <1>3, Typed, ReturnsOld

LEMMA LoadNumberStep == ASSUME IInv, LoadNumber PROVE IInv'
<1> DEFINE n == Extent(TypeByte, pos + 1)
           o == Object(TypeByte, Slice(pos + 1, n), 0)
<1>1. pos \in Nat /\ pos + 1 \in Nat /\ file \in Files /\ TypeByte \in Numbers
  BY Typed DEF LoadNumber
<1>2. n \in Nat
  BY <1>1, ExtentIsNat
<1>3. Slice(pos + 1, n) \in Seq(Int)
  BY <1>1, <1>2, SliceIsBytes
<1>4. o \in ObjectsUpTo(0) /\ o.type = TypeByte
  BY <1>1, <1>3, TypesApart, ObjectFacts
<1>5. /\ heap' = Append(heap, o) /\ refs' \in {refs, Append(refs, New)} /\ ret' = New
      /\ pos' = pos + (1 + n) /\ pc' = "return" /\ UNCHANGED <<file, ver, frames, interns>>
  BY DEF LoadNumber, Loading, Create, Return
<1> HIDE DEF n, o
<1>6. WholeIn(Append(heap, o), Layout(ver), o)
  BY <1>1, <1>4, TypesApart DEF WholeIn, Holders
<1>7. QED
  BY <1>2, <1>4, <1>5, <1>6, Typed, CreateReturns

LEMMA LoadTextStep == ASSUME IInv, LoadText PROVE IInv'
<1> DEFINE text == TextAt(TypeByte, pos + 1)
           o == Object(TypeByte, text, 0)
<1>1. /\ pos \in Nat /\ pos + 1 \in Nat /\ file \in Files /\ TypeByte \in Texts
      /\ LengthAt(TypeByte, pos + 1) >= 0
  BY Typed DEF LoadText, Loading, Readable, TextIsGood
<1>2. LengthAt(TypeByte, pos + 1) \in Nat /\ LengthWidth(TypeByte) \in Nat
  BY <1>1, LengthIsInt
<1>3. text \in Seq(Int) /\ Len(text) \in Nat
  <2>1. pos + 1 + LengthWidth(TypeByte) \in Nat
    BY <1>1, <1>2
  <2>2. QED
    BY <1>1, <1>2, <2>1, SliceIsBytes DEF TextAt
<1>4. /\ heap' = Append(heap, o) /\ refs' \in {refs, Append(refs, New)} /\ ret' = New
      /\ pos' = pos + (1 + LengthWidth(TypeByte) + Len(text)) /\ pc' = "return"
      /\ interns' \in {interns, Append(interns, New)}
      /\ UNCHANGED <<file, ver, frames>>
  BY DEF LoadText, Loading, Create, Return
<1> HIDE DEF text
<1>5. o \in ObjectsUpTo(0) /\ o.type = TypeByte
  BY <1>1, <1>3, TypesApart, ObjectFacts
<1> HIDE DEF o
<1>6. WholeIn(Append(heap, o), Layout(ver), o)
  BY <1>1, <1>5, TypesApart DEF WholeIn, Holders
<1>7. pos' \in Nat
  BY <1>1, <1>2, <1>3, <1>4
<1>8. QED
  BY <1>1, <1>4, <1>5, <1>6, <1>7, CreateReturns

LEMMA LoadStringRefStep == ASSUME IInv, LoadStringRef PROVE IInv'
<1> DEFINE k == interns[get32(pos + 1) + 1]
           str == heap[k]
           o == Object(str.type, str.val, 0)
<1>1. /\ pos \in Nat /\ pos + 1 \in Nat /\ pos + 5 \in Nat /\ file \in Files
      /\ IndexIsGood(pos + 1, Len(interns))
  BY Typed DEF LoadStringRef, Loading, Readable
<1>2. k \in 1..Len(heap) /\ str.type \in Texts
  <2>1. interns \in Seq(1..Len(heap)) /\ AllTexts(heap, interns)
    BY Typed
  <2>2. k \in {x \in 1..Len(heap) : heap[x].type \in Texts}
    <3>1. \A i \in 1..Len(interns) : interns[i] \in 1..Len(heap) /\ heap[interns[i]].type \in Texts
      BY <2>1, SeqIn DEF AllTexts
    <3>2. Len(interns) \in Nat
      BY <2>1, SeqIn
    <3>3. interns \in Seq({x \in 1..Len(heap) : heap[x].type \in Texts})
      BY <2>1, <3>1, <3>2, InnerSeq
    <3>4. QED
      BY <1>1, <3>3, IndexFacts
  <2>3. QED
    BY <2>2
<1>3. str.val \in Seq(Int)
  <2>1. str \in ObjectsUpTo(Len(heap))
    BY <1>2, Typed
  <2>2. QED
    BY <2>1 DEF ObjectsUpTo
<1>4. /\ heap' = Append(heap, o) /\ refs' \in {refs, Append(refs, New)} /\ ret' = New
      /\ pos' = pos + 5 /\ pc' = "return" /\ UNCHANGED <<file, ver, frames, interns>>
  BY DEF LoadStringRef, Loading, Create, Return
<1> HIDE DEF str, k
<1>5. o \in ObjectsUpTo(0) /\ o.type = str.type
  BY <1>2, <1>3, TypesApart, ObjectFacts
<1> HIDE DEF o
<1>6. WholeIn(Append(heap, o), Layout(ver), o)
  BY <1>2, <1>5, TypesApart DEF WholeIn, Holders
<1>7. QED
  BY <1>1, <1>4, <1>5, <1>6, CreateReturns

LEMMA LoadSeriesStep == ASSUME IInv, LoadSeries PROVE IInv'
<1> DEFINE size == LengthAt(TypeByte, pos + 1)
           n    == 1 + LengthWidth(TypeByte)
           o    == Object(TypeByte, <<>>, size)
<1>1. /\ pos \in Nat /\ pos + 1 \in Nat /\ file \in Files /\ TypeByte \in Series
      /\ size >= 0
  BY Typed, TypesApart DEF LoadSeries, Loading, Readable
<1>2. size \in Nat /\ n \in Nat
  BY <1>1, LengthIsInt
<1>3. /\ heap' = Append(heap, o) /\ refs' \in {refs, Append(refs, New)}
      /\ IF size = 0
         THEN ret' = New /\ pc' = "return" /\ frames' = frames
         ELSE frames' = Append(frames, [obj |-> New, left |-> size]) /\ pc' = "object" /\ ret' = ret
      /\ pos' = pos + n /\ UNCHANGED <<file, ver, interns>>
  BY DEF LoadSeries, Loading, Create, Return, Wait
<1> HIDE DEF size, n
<1>4. /\ o \in ObjectsUpTo(0) /\ o.type = TypeByte /\ o.size = size /\ Len(o.items) = 0
  BY <1>1, <1>2, TypesApart, EmptyObjectFacts
<1> HIDE DEF o
<1>5. pos' \in Nat
  BY <1>1, <1>2, <1>3
<1>6. TypeByte \in Holders /\ TypeByte # TYPE_DICT /\ TypeByte \notin CodeTypes
  BY <1>1, TypesApart
<1>7. CASE size = 0
  <2>1. WholeIn(Append(heap, o), Layout(ver), o)
    BY <1>4, <1>6, <1>7 DEF WholeIn
  <2>2. QED
    BY <1>3, <1>4, <1>5, <1>7, <2>1, CreateReturns
<1>8. CASE size # 0
  <2>1. size \in Nat \ {0} /\ size + 0 = size
    BY <1>2, <1>8
  <2>2. WaitsIn(Append(heap, o), Layout(ver), o, size)
    BY <1>4, <1>6, <2>1 DEF WaitsIn
  <2>3. /\ frames' = Append(frames, [obj |-> New, left |-> size]) /\ pc' = "object"
        /\ UNCHANGED <<file, ver, interns, ret>>
    BY <1>3, <1>8
  <2>4. QED
    BY <1>3, <1>4, <1>5, <2>1, <2>2, <2>3, CreateWaits
<1>9. QED
  BY <1>7, <1>8

LEMMA LoadDictStep == ASSUME IInv, LoadDict PROVE IInv'
<1> DEFINE o == Object(TypeByte, <<>>, 0)
<1>1. /\ TypeByte = TYPE_DICT /\ heap' = Append(heap, o) /\ refs' \in {refs, Append(refs, New)}
      /\ frames' = Append(frames, [obj |-> New, left |-> 2]) /\ pc' = "object"
      /\ pos' = pos + 1 /\ UNCHANGED <<file, ver, interns, ret>>
  BY DEF LoadDict, Loading, Create, Wait
<1>2. /\ o \in ObjectsUpTo(0) /\ o.type = TYPE_DICT /\ Len(o.items) = 0
  <2>1. TypeByte \in Types
    BY <1>1, TypesApart
  <2>2. QED
    BY <1>1, <2>1, EmptyObjectFacts
<1> HIDE DEF o
<1>3. WaitsIn(Append(heap, o), Layout(ver), o, 2)
  <2>1. 2 \in {1, 2} /\ (2 + 0) % 2 = 0
    OBVIOUS
  <2>2. QED
    BY <1>2, <2>1, TypesApart DEF WaitsIn
<1>4. 2 \in Nat \ {0} /\ pos' \in Nat
  BY <1>1, Typed
<1>5. QED
  BY <1>1, <1>2, <1>3, <1>4, CreateWaits

LEMMA LoadCodeStep == ASSUME IInv, LoadCode PROVE IInv'
<1> DEFINE o == Object(TypeByte, <<>>, 0)
           n == Len(Layout(ver))
<1>1. /\ TypeByte \in CodeTypes /\ heap' = Append(heap, o) /\ refs' \in {refs, Append(refs, New)}
      /\ frames' = Append(frames, [obj |-> New, left |-> n]) /\ pc' = "field"
      /\ pos' = pos + 1 /\ UNCHANGED <<file, ver, interns, ret>>
  BY DEF LoadCode, Loading, Create, Wait
<1>2. /\ o \in ObjectsUpTo(0) /\ o.type = TypeByte /\ Len(o.items) = 0
  <2>1. TypeByte \in Types
    BY <1>1, TypesApart
  <2>2. QED
    BY <1>1, <2>1, EmptyObjectFacts
<1> HIDE DEF o
<1>3. n \in Nat \ {0} /\ n + 0 = n /\ n = Len(Layout(ver))
  BY LayoutIsSeq
<1> HIDE DEF n
<1>4. GoodItems(Append(heap, o), Layout(ver), o)
  BY <1>2 DEF GoodItems
<1>5. WaitsIn(Append(heap, o), Layout(ver), o, n)
  BY <1>1, <1>2, <1>3, <1>4, TypesApart DEF WaitsIn
<1>6. pos' \in Nat
  BY <1>1, Typed
<1>7. QED
  BY <1>1, <1>2, <1>3, <1>5, <1>6, CreateWaits

----------------------------------------------------------------------------

\* The object of the innermost frame, with one more item.
With(o, x) == [o EXCEPT !.items = Append(@, x)]

LEMMA WithFacts ==
  ASSUME NEW n \in Nat, NEW o \in ObjectsUpTo(n), NEW x \in 0..n
  PROVE  /\ With(o, x) \in ObjectsUpTo(n)
         /\ With(o, x).type = o.type /\ With(o, x).size = o.size
         /\ With(o, x).items = Append(o.items, x)
         /\ Len(With(o, x).items) = Len(o.items) + 1
         /\ Len(o.items) \in Nat
         /\ \A h, lay : GoodItems(h, lay, o) /\ GoodItem(h, lay[Len(o.items) + 1], x)
                       => GoodItems(h, lay, With(o, x))
<1>1. o.items \in Seq(0..n) /\ Len(o.items) \in Nat
  BY SeqIn DEF ObjectsUpTo
<1>2. /\ Append(o.items, x) \in Seq(0..n)
      /\ Len(Append(o.items, x)) = Len(o.items) + 1
      /\ Append(o.items, x)[Len(o.items) + 1] = x
      /\ \A k \in 1..Len(o.items) : Append(o.items, x)[k] = o.items[k]
  BY <1>1, AppendIn
<1>3. /\ With(o, x) \in ObjectsUpTo(n)
      /\ With(o, x).type = o.type /\ With(o, x).size = o.size
      /\ With(o, x).items = Append(o.items, x)
  BY <1>2 DEF With, ObjectsUpTo
<1>4. 1..(Len(o.items) + 1) = (1..Len(o.items)) \cup {Len(o.items) + 1}
  BY <1>1
<1>5. ASSUME NEW h, NEW lay, GoodItems(h, lay, o), GoodItem(h, lay[Len(o.items) + 1], x)
      PROVE  GoodItems(h, lay, With(o, x))
  BY <1>2, <1>3, <1>4, <1>5 DEF GoodItems
<1>6. QED
  BY <1>1, <1>2, <1>3, <1>5

\* A heap whose objects keep their types.
LEMMA TextsKeptToo ==
  ASSUME NEW h, NEW g, NEW t \in Seq(1..Len(h)), AllTexts(h, t),
         \A i \in 1..Len(h) : g[i].type = h[i].type
  PROVE  AllTexts(g, t)
BY SeqIn DEF AllTexts

\* load() with one part more, p, and left to go.
LEMMA Awaits ==
  ASSUME IInv, frames # <<>>, NEW p \in ObjectsUpTo(Len(heap)), p.type = TopType,
         NEW left \in Nat, NEW next \in {"object", "field"},
         next = "field" => TopType \in CodeTypes,
         left # 0 => WaitsIn(heap, Layout(ver), p, left),
         left = 0 => WholeIn(heap, Layout(ver), p),
         heap' = Given(heap, Top.obj, p), Await(left, next), pos' \in Nat,
         UNCHANGED <<file, ver, refs, interns>>
  PROVE  IInv'
<1>1. /\ Heap(heap) /\ Stack(heap, frames) /\ Books(heap, frames, Layout(ver))
      /\ refs \in Seq(1..Len(heap)) /\ interns \in Seq(1..Len(heap)) /\ AllTexts(heap, interns)
      /\ ret \in 0..Len(heap) /\ Len(heap) >= 5 /\ file \in Files /\ ver \in Versions
      /\ Len(heap) \in Nat
  BY Typed
<1>2. Top.obj = frames[Len(frames)].obj /\ p.type = heap[frames[Len(frames)].obj].type
  BY DEF Top, TopType
<1>3. Top.obj \in 1..Len(heap) /\ Len(frames) \in 1..Len(frames)
  BY <1>1, <1>2, FrontOf, StackFacts, ZenonT(30) DEF Stack
<1>4. /\ Heap(heap') /\ Len(heap') = Len(heap)
      /\ \A i \in 1..Len(heap) : heap'[i].type = heap[i].type
  BY <1>1, <1>2, <1>3, GivenFacts, SMTT(20)
<1>5. AllTexts(heap', interns')
  BY <1>1, <1>4, TextsKeptToo
<1>6. refs' \in Seq(1..Len(heap')) /\ interns' \in Seq(1..Len(heap'))
  BY <1>1, <1>4
<1>7. CASE left = 0
  <2>1. frames' = Outer(frames) /\ ret' = Top.obj /\ pc' = "return"
    BY <1>7 DEF Await, Callers, Outer
  <2>2. Books(heap', frames', Layout(ver')) /\ Stack(heap', frames')
    BY <1>1, <1>2, <1>7, <2>1, BooksDone
  <2>3. AtPc' /\ ret' \in 0..Len(heap')
    BY <1>1, <1>3, <1>4, <2>1 DEF AtPc
  <2>4. QED
    BY <1>1, <1>4, <1>5, <1>6, <2>1, <2>2, <2>3, Reached
<1>8. CASE left # 0
  <2>1. frames' = Less(frames, left) /\ ret' = ret /\ pc' = next
    BY <1>8 DEF Await, Less
  <2>2. Books(heap', frames', Layout(ver')) /\ Stack(heap', frames')
    BY <1>1, <1>2, <1>8, <2>1, BooksStay
  <2>3. Len(frames') = Len(frames) /\ frames'[Len(frames)].obj = Top.obj
    <3>1. /\ Len(Less(frames, left)) = Len(frames)
          /\ \A j \in 1..Len(frames) : Less(frames, left)[j].obj = frames[j].obj
      BY <1>1, <1>8, LessFacts
    <3>2. QED
      BY <1>2, <1>3, <2>1, <3>1
  <2>4. frames' # <<>>
    BY <1>3, <2>3, EmptySeq
  <2>5. TopType' = TopType
    BY <1>3, <1>4, <2>3 DEF TopType, Top
  <2>6. AtPc' /\ ret' \in 0..Len(heap')
    BY <1>1, <1>4, <2>1, <2>4, <2>5 DEF AtPc
  <2>7. QED
    BY <1>1, <1>4, <1>5, <1>6, <2>1, <2>2, <2>6, Reached
<1>9. QED
  BY <1>7, <1>8

\* What the innermost frame waits for.
LEMMA TopFacts ==
  ASSUME IInv, frames # <<>>
  PROVE  /\ Top.obj \in 1..Len(heap) /\ Top.left \in Nat \ {0}
         /\ heap[Top.obj] \in ObjectsUpTo(Len(heap))
         /\ heap[Top.obj].type = TopType
         /\ WaitsIn(heap, Layout(ver), heap[Top.obj], Top.left)
<1>1. /\ Heap(heap) /\ Stack(heap, frames) /\ Books(heap, frames, Layout(ver))
  BY Typed
<1>2. Len(frames) \in 1..Len(frames)
  BY <1>1, FrontOf DEF Stack
<1>3. frames[Len(frames)].obj \in 1..Len(heap) /\ frames[Len(frames)].left \in Nat \ {0}
  BY <1>1, <1>2, StackFacts
<1>4. WaitsIn(heap, Layout(ver), heap[frames[Len(frames)].obj], frames[Len(frames)].left)
  BY <1>1, <1>2 DEF Books
<1>5. QED
  BY <1>1, <1>3, <1>4, HeapFacts DEF Top, TopType

\* One less to go, one more there.
LEMMA Passes ==
  ASSUME NEW l \in Nat \ {0}, NEW n \in Nat, NEW m \in Nat, NEW s \in Nat,
         m = n + 1, l + n = s
  PROVE  /\ l - 1 \in Nat /\ (l - 1) + m = s
         /\ l - 1 = 0 => m = s
         /\ s - l + 1 = m
OBVIOUS

\* A dict goes round in pairs.
LEMMA Pairwise ==
  ASSUME NEW n \in Nat, NEW m \in Nat, m = n + 1
  PROVE  /\ (2 + n) % 2 = 0 => (1 + m) % 2 = 0 /\ n % 2 = 0
         /\ (1 + n) % 2 = 0 => (2 + m) % 2 = 0
OBVIOUS

LEMMA TakeElementStep == ASSUME IInv, TakeElement PROVE IInv'
<1> DEFINE o == heap[Top.obj]
           p == With(o, ret)
<1>1. /\ frames # <<>> /\ TopType \in Series /\ heap' = Given(heap, Top.obj, p)
      /\ Await(Top.left - 1, "object") /\ UNCHANGED <<file, pos, ver, refs, interns>>
  BY DEF TakeElement, Returned, Take, Given, With
<1>2. /\ Top.left \in Nat \ {0} /\ o \in ObjectsUpTo(Len(heap)) /\ o.type = TopType
      /\ WaitsIn(heap, Layout(ver), o, Top.left)
  BY <1>1, TopFacts
<1>3. ret \in 0..Len(heap) /\ Len(heap) \in Nat /\ pos' \in Nat
  BY <1>1, Typed
<1> HIDE DEF o
<1>4. /\ p \in ObjectsUpTo(Len(heap)) /\ p.type = TopType /\ p.size = o.size
      /\ Len(p.items) = Len(o.items) + 1 /\ Len(o.items) \in Nat /\ Len(p.items) \in Nat
  BY <1>2, <1>3, WithFacts
<1> HIDE DEF p
<1>5. TopType \in Holders /\ TopType # TYPE_DICT /\ TopType \notin CodeTypes
  BY <1>1, TypesApart
<1>6. o.size \in Nat /\ Top.left + Len(o.items) = o.size
  BY <1>1, <1>2 DEF WaitsIn, ObjectsUpTo
<1>7. /\ Top.left - 1 \in Nat /\ (Top.left - 1) + Len(p.items) = p.size
      /\ Top.left - 1 = 0 => Len(p.items) = p.size
  BY <1>2, <1>4, <1>6, Passes
<1>8. /\ WaitsIn(heap, Layout(ver), p, Top.left - 1)
      /\ Top.left - 1 = 0 => WholeIn(heap, Layout(ver), p)
  BY <1>4, <1>5, <1>7 DEF WaitsIn, WholeIn
<1>9. QED
  BY <1>1, <1>3, <1>4, <1>5, <1>7, <1>8, Awaits DEF p, o

\* A dict waits for a key with pairs, for a value with one key more.
LEMMA DictFacts ==
  ASSUME NEW h, NEW lay, NEW o, o.type = TYPE_DICT, Len(o.items) \in Nat
  PROVE  /\ WaitsIn(h, lay, o, 2) <=> (2 + Len(o.items)) % 2 = 0
         /\ WaitsIn(h, lay, o, 1) <=> (1 + Len(o.items)) % 2 = 0
         /\ WholeIn(h, lay, o) <=> Len(o.items) % 2 = 0
BY TypesApart DEF WaitsIn, WholeIn

LEMMA TakeKeyStep == ASSUME IInv, TakeKey PROVE IInv'
<1> DEFINE o == heap[Top.obj]
           p == With(o, ret)
<1>1. /\ frames # <<>> /\ TopType = TYPE_DICT /\ Top.left = 2
      /\ \/ ret = 0 /\ Await(0, "object") /\ heap' = heap
         \/ ret # 0 /\ Await(1, "object") /\ heap' = Given(heap, Top.obj, p)
      /\ UNCHANGED <<file, pos, ver, refs, interns>>
  BY DEF TakeKey, Returned, Take, Given, With
<1>2. /\ o \in ObjectsUpTo(Len(heap)) /\ o.type = TYPE_DICT /\ Top.obj \in 1..Len(heap)
      /\ WaitsIn(heap, Layout(ver), o, 2)
  BY <1>1, TopFacts
<1>3. ret \in 0..Len(heap) /\ Len(heap) \in Nat /\ pos' \in Nat /\ Heap(heap)
  BY <1>1, Typed
<1>4. heap = Given(heap, Top.obj, o)
  <2>1. \A S : \A s \in Seq(S) : \A k \in 1..Len(s) : s = [s EXCEPT ![k] = s[k]]
    OBVIOUS
  <2>2. QED
    BY <1>2, <1>3, <2>1 DEF Heap, Given
<1> HIDE DEF o
<1>5. /\ p \in ObjectsUpTo(Len(heap)) /\ p.type = TYPE_DICT
      /\ Len(p.items) = Len(o.items) + 1 /\ Len(o.items) \in Nat /\ Len(p.items) \in Nat
  BY <1>2, <1>3, WithFacts
<1> HIDE DEF p
<1>6. Len(o.items) % 2 = 0 /\ (1 + Len(p.items)) % 2 = 0
  <2>1. (2 + Len(o.items)) % 2 = 0
    BY <1>2, <1>5, DictFacts
  <2>2. QED
    BY <1>5, <2>1, Pairwise
<1>7. Len(p.items) \in Nat
  BY <1>5
<1>8. WholeIn(heap, Layout(ver), o) /\ WaitsIn(heap, Layout(ver), p, 1)
  BY <1>2, <1>5, <1>6, <1>7, DictFacts
<1>9. 0 \in Nat /\ 1 \in Nat /\ 1 # 0 /\ "object" \in {"object", "field"} /\ "object" # "field"
  OBVIOUS
<1>10. CASE ret = 0
  <2>1. heap' = Given(heap, Top.obj, o) /\ Await(0, "object")
    BY <1>1, <1>4, <1>10
  <2>2. QED
    BY <1>1, <1>2, <1>3, <1>8, <1>9, <2>1, Awaits
<1>11. CASE ret # 0
  <2>1. heap' = Given(heap, Top.obj, p) /\ Await(1, "object")
    BY <1>1, <1>11
  <2>2. QED
    BY <1>1, <1>3, <1>5, <1>8, <1>9, <2>1, Awaits
<1>12. QED
  BY <1>10, <1>11

LEMMA TakeValueStep == ASSUME IInv, TakeValue PROVE IInv'
<1> DEFINE o == heap[Top.obj]
           p == With(o, ret)
<1>1. /\ frames # <<>> /\ TopType = TYPE_DICT /\ Top.left = 1
      /\ Await(2, "object") /\ heap' = Given(heap, Top.obj, p)
      /\ UNCHANGED <<file, pos, ver, refs, interns>>
  BY DEF TakeValue, Returned, Take, Given, With
<1>2. /\ o \in ObjectsUpTo(Len(heap)) /\ o.type = TYPE_DICT
      /\ WaitsIn(heap, Layout(ver), o, 1)
  BY <1>1, TopFacts
<1>3. ret \in 0..Len(heap) /\ Len(heap) \in Nat /\ pos' \in Nat
  BY <1>1, Typed
<1> HIDE DEF o
<1>4. /\ p \in ObjectsUpTo(Len(heap)) /\ p.type = TYPE_DICT
      /\ Len(p.items) = Len(o.items) + 1 /\ Len(o.items) \in Nat /\ Len(p.items) \in Nat
  BY <1>2, <1>3, WithFacts
<1> HIDE DEF p
<1>5. (2 + Len(p.items)) % 2 = 0 /\ Len(p.items) \in Nat
  <2>1. (1 + Len(o.items)) % 2 = 0
    BY <1>2, <1>4, DictFacts
  <2>2. QED
    BY <1>4, <2>1, Pairwise
<1>6. WaitsIn(heap, Layout(ver), p, 2)
  BY <1>4, <1>5, DictFacts
<1>7. 2 \in Nat /\ 2 # 0 /\ "object" \in {"object", "field"} /\ "object" # "field"
  OBVIOUS
<1>8. QED
  BY <1>1, <1>3, <1>4, <1>6, <1>7, Awaits DEF p, o

\* A code object with one field more.
LEMMA FieldComes ==
  ASSUME IInv, frames # <<>>, TopType \in CodeTypes, NEW p \in ObjectsUpTo(Len(heap)),
         p.type = TopType, Len(p.items) = Len(heap[Top.obj].items) + 1,
         GoodItems(heap, Layout(ver), heap[Top.obj])
           /\ GoodItem(heap, NextField, p.items[Len(p.items)])
           => GoodItems(heap, Layout(ver), p),
         GoodItem(heap, NextField, p.items[Len(p.items)])
  PROVE  /\ Top.left - 1 \in Nat
         /\ WaitsIn(heap, Layout(ver), p, Top.left - 1)
         /\ Top.left - 1 = 0 => WholeIn(heap, Layout(ver), p)
<1> DEFINE o == heap[Top.obj]
<1>1. /\ Top.left \in Nat \ {0} /\ o \in ObjectsUpTo(Len(heap)) /\ o.type = TopType
      /\ WaitsIn(heap, Layout(ver), o, Top.left)
  BY TopFacts
<1>2. Len(o.items) \in Nat
  BY <1>1, SeqIn DEF ObjectsUpTo
<1>3. Len(Layout(ver)) \in Nat
  BY LayoutIsSeq
<1>4. Len(p.items) = Len(o.items) + 1 /\ Len(p.items) \in Nat
  BY <1>2
<1>5. Top.left + Len(o.items) = Len(Layout(ver)) /\ GoodItems(heap, Layout(ver), o)
  BY <1>1 DEF WaitsIn
<1>6. GoodItems(heap, Layout(ver), p)
  BY <1>5
<1> HIDE DEF o
<1>7. /\ Top.left - 1 \in Nat /\ (Top.left - 1) + Len(p.items) = Len(Layout(ver))
      /\ Top.left - 1 = 0 => Len(p.items) = Len(Layout(ver))
  BY <1>1, <1>2, <1>3, <1>4, <1>5, Passes, SMTT(20)
<1>8. TopType \in Holders /\ TopType # TYPE_DICT /\ TopType \notin Series
  BY TypesApart
<1>9. QED
  BY <1>6, <1>7, <1>8 DEF WaitsIn, WholeIn

\* Which field that is.
LEMMA NextFieldIs ==
  ASSUME IInv, frames # <<>>, TopType \in CodeTypes
  PROVE  NextField = Layout(ver)[Len(heap[Top.obj].items) + 1]
<1>1. /\ Top.left \in Nat \ {0} /\ heap[Top.obj] \in ObjectsUpTo(Len(heap))
      /\ Top.left + Len(heap[Top.obj].items) = Len(Layout(ver))
  BY TopFacts DEF WaitsIn
<1>2. Len(heap[Top.obj].items) \in Nat
  BY <1>1, SeqIn DEF ObjectsUpTo
<1>3. Len(Layout(ver)) \in Nat
  BY LayoutIsSeq
<1>4. Len(Layout(ver)) - Top.left + 1 = Len(heap[Top.obj].items) + 1
  <2>1. Len(heap[Top.obj].items) + 1 \in Nat
    BY <1>2
  <2>2. QED
    BY <1>1, <1>2, <1>3, <2>1, Passes
<1>5. QED
  BY <1>4 DEF NextField

LEMMA TakeFieldStep == ASSUME IInv, TakeField PROVE IInv'
<1> DEFINE o == heap[Top.obj]
           p == With(o, ret)
<1>1. /\ frames # <<>> /\ TopType \in CodeTypes /\ heap' = Given(heap, Top.obj, p)
      /\ Await(Top.left - 1, "field") /\ UNCHANGED <<file, pos, ver, refs, interns>>
      /\ GoodItem(heap, NextField, ret)
  BY DEF TakeField, Returned, Take, Given, With, Cast, GoodItem
<1>2. o \in ObjectsUpTo(Len(heap)) /\ o.type = TopType
  BY <1>1, TopFacts
<1>3. ret \in 0..Len(heap) /\ Len(heap) \in Nat /\ pos' \in Nat
  BY <1>1, Typed
<1>4. NextField = Layout(ver)[Len(o.items) + 1]
  BY <1>1, NextFieldIs
<1> HIDE DEF o
<1>5. /\ p \in ObjectsUpTo(Len(heap)) /\ p.type = TopType
      /\ Len(p.items) = Len(o.items) + 1 /\ Len(o.items) \in Nat /\ Len(p.items) \in Nat
      /\ p.items = Append(o.items, ret)
      /\ GoodItems(heap, Layout(ver), o) /\ GoodItem(heap, NextField, ret)
         => GoodItems(heap, Layout(ver), p)
  BY <1>2, <1>3, <1>4, WithFacts
<1>6. p.items[Len(p.items)] = ret
  <2>1. o.items \in Seq(0..Len(heap))
    BY <1>2 DEF ObjectsUpTo
  <2>2. QED
    BY <1>3, <1>5, <2>1, AppendIn
<1> HIDE DEF p
<1>7. /\ Top.left - 1 \in Nat
      /\ WaitsIn(heap, Layout(ver), p, Top.left - 1)
      /\ Top.left - 1 = 0 => WholeIn(heap, Layout(ver), p)
  BY <1>1, <1>5, <1>6, FieldComes DEF o
<1>8. QED
  BY <1>1, <1>3, <1>5, <1>7, Awaits DEF p, o


LEMMA ReadNumberStep == ASSUME IInv, ReadNumber PROVE IInv'
<1> DEFINE o == heap[Top.obj]
           x == NumberAt(NextField, pos)
           q == [o EXCEPT !.val = Append(@, x)]
           p == With(q, 0)
<1>1. /\ pc = "field" /\ Await(Top.left - 1, "field") /\ UNCHANGED <<file, ver, refs, interns>>
      /\ pos' = pos + Width(NextField) /\ IsNumber(NextField)
  BY DEF ReadNumber
<1>2. frames # <<>> /\ TopType \in CodeTypes
  BY <1>1 DEF IInv, AtPc
<1>3. /\ o \in ObjectsUpTo(Len(heap)) /\ o.type = TopType /\ Top.obj \in 1..Len(heap)
  BY <1>2, TopFacts
<1>4. /\ x \in Int /\ pos' \in Nat /\ Len(heap) \in Nat /\ Heap(heap) /\ 0 \in 0..Len(heap)
  <2>1. pos \in Nat /\ file \in Files /\ Len(heap) \in Nat /\ Heap(heap)
    BY Typed
  <2>2. x \in Int /\ Width(NextField) \in Nat
    BY <2>1, NumberIsInt
  <2>3. QED
    BY <1>1, <2>1, <2>2
<1>5. NextField = Layout(ver)[Len(o.items) + 1]
  BY <1>2, NextFieldIs
<1>6. heap' = Given(heap, Top.obj, p)
  <2>1. heap' = Given(heap, Top.obj, WithNumber(o, x))
    BY DEF ReadNumber, Given
  <2>2. WithNumber(o, x) = p
    <3> HIDE DEF o, x
    <3>1. o \in [type : Types, val : Seq(Int), items : Seq(0..Len(heap)), size : Nat]
      BY <1>3 DEF ObjectsUpTo
    <3>2. QED
      BY <3>1 DEF WithNumber, With
  <2>3. QED
    BY <2>1, <2>2
<1> HIDE DEF o, x
<1>7. q \in ObjectsUpTo(Len(heap)) /\ q.type = TopType /\ q.items = o.items
  <2>1. o.val \in Seq(Int)
    BY <1>3 DEF ObjectsUpTo
  <2>2. Append(o.val, x) \in Seq(Int)
    BY <1>4, <2>1
  <2>3. QED
    BY <1>3, <2>2 DEF ObjectsUpTo
<1> HIDE DEF q
<1>8. /\ p \in ObjectsUpTo(Len(heap)) /\ p.type = TopType
      /\ Len(p.items) = Len(o.items) + 1 /\ p.items = Append(o.items, 0)
      /\ GoodItems(heap, Layout(ver), q) /\ GoodItem(heap, NextField, 0)
         => GoodItems(heap, Layout(ver), p)
  BY <1>4, <1>5, <1>7, WithFacts
<1>9. GoodItems(heap, Layout(ver), o) => GoodItems(heap, Layout(ver), q)
  BY <1>7 DEF GoodItems
<1>10. p.items[Len(p.items)] = 0
  <2>1. o.items \in Seq(0..Len(heap))
    BY <1>3 DEF ObjectsUpTo
  <2>2. QED
    BY <1>4, <1>8, <2>1, AppendIn
<1>11. GoodItem(heap, NextField, 0)
  BY <1>1 DEF GoodItem
<1> HIDE DEF p
<1>12. /\ Top.left - 1 \in Nat
       /\ WaitsIn(heap, Layout(ver), p, Top.left - 1)
       /\ Top.left - 1 = 0 => WholeIn(heap, Layout(ver), p)
  BY <1>2, <1>8, <1>9, <1>10, <1>11, FieldComes DEF o
<1>13. QED
  BY <1>1, <1>2, <1>4, <1>6, <1>8, <1>12, Awaits

\* Steps that touch neither heap nor frames.
LEMMA Moves ==
  ASSUME IInv, pc' \in {"object", "done", "failed"}, pc' = "done" => frames = <<>>,
         UNCHANGED <<file, pos, ver, heap, refs, interns, frames, ret>>
  PROVE  IInv'
<1>1. AtPc'
  BY DEF AtPc
<1>2. QED
  BY <1>1, Typed, Reached

\* Before the version is known there is nothing that depends on it.
LEMMA OpenStep ==
  ASSUME IInv, pc = "open", NEW v \in Versions, NEW n \in Nat, Open(v, n)
  PROVE  IInv'
<1>1. frames = <<>> /\ \A k \in 1..Len(heap) : heap[k].type \notin Holders
  BY DEF IInv, AtPc
<1>2. /\ pc' = "object" /\ pos' = n /\ ver' = v
      /\ UNCHANGED <<file, heap, refs, interns, frames, ret>>
  BY DEF Open
<1>3. Len(frames) = 0
  BY <1>1, EmptySeq
<1>4. \A k \in 1..Len(heap) : WholeIn(heap, Layout(v), heap[k])
  BY <1>1 DEF WholeIn, Holders
<1>5. Books(heap, frames, Layout(v))
  BY <1>3, <1>4 DEF Books
<1>6. Books(heap', frames', Layout(ver')) /\ AtPc'
  BY <1>2, <1>5 DEF AtPc
<1>7. QED
  BY <1>2, <1>6, Typed, Reached

LEMMA LoadFromFileStep == ASSUME IInv, loadFromFile PROVE IInv'
<1>1. pc = "open" /\ Open(HeaderVersion, HeaderSize(HeaderVersion))
  BY DEF loadFromFile
<1>2. HeaderVersion \in Versions
  BY Typed, Get32IsInt, VersionIsTyped DEF HeaderVersion, Versions
<1>3. HeaderSize(HeaderVersion) \in Nat
  <2> DEFINE a == IF Since(HeaderVersion, 3, 7) THEN 4 ELSE 0
             b == IF Since(HeaderVersion, 3, 7) /\ At(4) % 2 = 1
                  THEN 8 ELSE IF Since(HeaderVersion, 3, 3) THEN 8 ELSE 4
  <2>1. a \in {0, 4} /\ b \in {4, 8}
    BY Zenon
  <2>2. HeaderSize(HeaderVersion) = 4 + a + b
    BY Zenon DEF HeaderSize
  <2> HIDE DEF a, b
  <2>3. QED
    BY <2>1, <2>2
<1>4. QED
  BY <1>1, <1>2, <1>3, OpenStep

LEMMA LoadFromMarshalledFileStep == ASSUME IInv, loadFromMarshalledFile PROVE IInv'
<1> DEFINE v == [file.given EXCEPT !.unicode = file.given.maj >= 3]
<1>1. pc = "open" /\ Open(v, 0)
  BY DEF loadFromMarshalledFile
<1>2. v \in Versions
  <2>1. file.given \in [maj : Int, min : Int, unicode : BOOLEAN]
    BY Typed, FileFacts
  <2>2. (file.given.maj >= 3) \in BOOLEAN
    BY <2>1
  <2>3. QED
    BY <2>1, <2>2, Zenon DEF Versions
<1> HIDE DEF v
<1>3. QED
  BY <1>1, <1>2, OpenStep

LEMMA InitIInv == Init => IInv
<1> SUFFICES ASSUME Init PROVE IInv
  OBVIOUS
<1> DEFINE O(s) == Object(Singletons[s], <<>>, 0)
<1>1. \A s \in 1..5 : /\ O(s) \in ObjectsUpTo(0) /\ O(s).type = Singletons[s]
                      /\ Singletons[s] \notin Holders
  BY TypesApart, EmptyObjectFacts
<1>2. \A s \in 1..5 : O(s) \in ObjectsUpTo(5)
  BY <1>1, Widen
<1>3. heap = [s \in 1..5 |-> O(s)]
  BY DEF Init
<1> HIDE DEF O
<1>4. Len(heap) = 5 /\ heap \in Seq(ObjectsUpTo(5)) /\ \A k \in 1..5 : heap[k] = O(k)
  BY <1>2, <1>3
<1>5. /\ file \in Files /\ pos = 0 /\ ver = NoVersion /\ refs = <<>> /\ interns = <<>>
      /\ frames = <<>> /\ ret = 0 /\ pc = "open"
  BY DEF Init
<1>6. /\ \A S : <<>> \in Seq(S)
      /\ Len(<<>>) = 0
  BY EmptySeq
<1>7. \A k \in 1..Len(heap) : heap[k].type \notin Holders
  BY <1>1, <1>4
<1>8. \A k \in 1..Len(heap) : WholeIn(heap, Layout(ver), heap[k])
  BY <1>7 DEF WholeIn, Holders
<1>9. Books(heap, frames, Layout(ver))
  <2>1. Len(frames) = 0
    BY <1>5, <1>6
  <2>2. QED
    BY <1>8, <2>1 DEF Books
<1>10. AllTexts(heap, interns)
  <2>1. Len(interns) = 0
    BY <1>5, <1>6
  <2>2. QED
    BY <2>1 DEF AllTexts
<1>11. NoVersion \in Versions
  BY DEF NoVersion, Versions
<1>12. TypeOK
  <2>1. heap \in Seq([type : Types, val : Seq(Int), items : Seq(0..Len(heap)), size : Nat])
    BY <1>4 DEF ObjectsUpTo
  <2>2. QED
    BY <1>4, <1>5, <1>6, <1>11, <2>1 DEF TypeOK, Versions
<1>13. QED
  BY <1>4, <1>5, <1>7, <1>9, <1>10, <1>12 DEF IInv, HasSingletons, AtPc

LEMMA Inductive == IInv /\ [Next]_vars => IInv'
<1> SUFFICES ASSUME IInv, [Next]_vars PROVE IInv'
  OBVIOUS
<1>1. CASE loadFromFile
  BY <1>1, LoadFromFileStep
<1>2. CASE loadFromMarshalledFile
  BY <1>2, LoadFromMarshalledFileStep
<1>3. CASE LoadObject
  BY <1>3, LoadReferenceStep, LoadNothingStep, LoadSingletonStep, LoadNumberStep, LoadTextStep,
     LoadStringRefStep, LoadSeriesStep, LoadDictStep, LoadCodeStep DEF LoadObject
<1>4. CASE TakeElement
  BY <1>4, TakeElementStep
<1>5. CASE TakeKey
  BY <1>5, TakeKeyStep
<1>6. CASE TakeValue
  BY <1>6, TakeValueStep
<1>7. CASE TakeField
  BY <1>7, TakeFieldStep
<1>8. CASE ReadNumber
  BY <1>8, ReadNumberStep
<1>9. CASE AskField
  BY <1>9, Moves DEF AskField
<1>10. CASE Finish
  BY <1>10, Moves DEF Finish
<1>11. CASE Fail
  BY <1>11, Moves DEF Fail
<1>12. CASE UNCHANGED vars
  <2>1. UNCHANGED <<file, pos, ver, heap, refs, interns, frames, ret, pc>>
    BY <1>12 DEF vars
  <2>2. AtPc' /\ pc' \in {"open", "object", "field", "return", "done", "failed"}
    BY <2>1 DEF IInv, TypeOK, AtPc, TopType, Top
  <2>3. QED
    BY <2>1, <2>2, Typed, Reached
<1>13. QED
  BY <1>1, <1>2, <1>3, <1>4, <1>5, <1>6, <1>7, <1>8, <1>9, <1>10, <1>11, <1>12 DEF Next
----------------------------------------------------------------------------
(* Files with a listing: the reader is where the listing says.               *)

\* The objects begun, h, and the calls waiting, fr, against piece i of file f.
Filled(f, h, i) ==
  LET e == f.pieces[i]
      o == h[e.obj]
  IN /\ e.obj \in 6..Len(h)
     /\ o.type = e.is
     /\ Len(o.items) <= Elements(e)
     /\ \A k \in 1..Len(o.items) : o.items[k] = Item(f, e, k)
     /\ IF e.type \in CodeTypes
        THEN /\ Len(o.val) = Behind(i, e, Len(o.items)).taken
             /\ \A k \in 1..Len(o.val) : o.val[k] = e.val[k]
        ELSE o.val = e.val

Ended(f, h, i) == Len(h[f.pieces[i].obj].items) = Elements(f.pieces[i])

\* The objects made for the pieces up to m.
Objects(f, h, fr, m) ==
  /\ Len(h) = 5 + Made(f, m)
  /\ \A s \in 1..5 : h[s].type = Singletons[s]
  /\ \A i \in 1..m : Creates(f.pieces[i]) =>
       Filled(f, h, i) /\ (Waited(fr, f.pieces[i].obj) \/ Ended(f, h, i))
  /\ \A i, j \in 1..m :
       Creates(f.pieces[i]) /\ Creates(f.pieces[j]) /\ f.pieces[i].obj = f.pieces[j].obj => i = j

\* The entries made for them in the tables of references and of interned texts.
Tables(f, r, t, m) ==
  /\ Len(r) = Noted(f, m) /\ Len(t) = Kept(f, m)
  /\ \A i \in 1..m :
       LET e == f.pieces[i]
       IN /\ e.flagged => e.noted \in 1..Len(r) /\ r[e.noted] = e.obj
          /\ e.type \in Interned => e.kept \in 1..Len(t) /\ t[e.kept] = e.obj

\* What a call has left to wait for when it waits for its kth part.
Left(e, k) == IF e.type = TYPE_DICT THEN (IF k % 2 = 1 THEN 2 ELSE 1) ELSE Len(e.parts) - k + 1

\* Frame x waits for the kth part of piece i.
Waits(f, h, x, i, k) ==
  /\ x.obj = f.pieces[i].obj
  /\ k \in 1..Len(f.pieces[i].parts)
  /\ Len(h[x.obj].items) + 1 = k
  /\ x.left = Left(f.pieces[i], k)

\* The first n frames wait for the pieces of w that follow those they are for.
Under(f, h, fr, w, n) == \A k \in 1..n : Waits(f, h, fr[k], w[k], f.pieces[w[k + 1]].nth)

\* All calls around piece p wait for it or what it is in.
Around(f, h, fr, p) ==
  /\ Len(fr) = Len(f.pieces[p].way) - 1
  /\ Under(f, h, fr, f.pieces[p].way, Len(fr))

\* The innermost call, for piece i, waits for its kth part, and p is before it.
Awaiting(f, h, fr, p, i, k) ==
  /\ fr # <<>> /\ Len(fr) = Len(f.pieces[i].way)
  /\ Under(f, h, fr, f.pieces[i].way, Len(fr) - 1)
  /\ Waits(f, h, fr[Len(fr)], i, k)
  /\ p = Behind(i, f.pieces[i], k - 1).end

OnObject(f, h, fr, r, t, p, i) ==
  /\ Around(f, h, fr, i) /\ p = f.pieces[i].at
  /\ Objects(f, h, fr, i - 1) /\ Tables(f, r, t, i - 1)

OnReturn(f, h, fr, r, t, p, x, i) ==
  /\ Around(f, h, fr, i) /\ p = f.pieces[i].next /\ x = f.pieces[i].obj
  /\ Objects(f, h, fr, f.pieces[i].last) /\ Tables(f, r, t, f.pieces[i].last)

OnField(f, h, fr, r, t, p, i, k) ==
  LET m == Behind(i, f.pieces[i], k - 1).last
  IN /\ Awaiting(f, h, fr, p, i, k)
     /\ Objects(f, h, fr, m) /\ Tables(f, r, t, m)

Indices(f) == 1..Len(f.pieces)

Follows ==
  /\ pc = "open" =>
       /\ frames = <<>> /\ Objects(file, heap, frames, 0) /\ Tables(file, refs, interns, 0)
  /\ pos <= Len(file.bytes) /\ (pc \notin {"open", "failed"} => ver = file.ver)
  /\ pc = "object" => \E i \in Indices(file) : OnObject(file, heap, frames, refs, interns, pos, i)
  /\ pc = "field" =>
       \E i \in Indices(file) : file.pieces[i].type \in CodeTypes /\ \E k \in 1..Len(file.pieces[i].parts) :
         OnField(file, heap, frames, refs, interns, pos, i, k)
  /\ pc = "return" =>
       \E i \in Indices(file) : OnReturn(file, heap, frames, refs, interns, pos, ret, i)
  /\ pc = "done" => OnReturn(file, heap, frames, refs, interns, pos, ret, 1)
  /\ pc = "failed" => ~file.whole

FInv == IInv /\ (IsListed(file) => Follows)

\* What a listing comes with.
LEMMA ListingFacts ==
  ASSUME NEW f, Listed(f)
  PROVE  /\ f.ver \in KnownVersions /\ IsHeader(f)
         /\ f.pieces \in Seq(Piece) /\ Len(f.pieces) \in Nat
         /\ \A i \in Indices(f) : f.pieces[i] \in Piece /\ i \in Nat /\ i >= 1
         /\ \A i \in Indices(f) : IsPiece(f, i, f.pieces[i]) /\ IsInside(f, i, f.pieces[i])
         /\ f.pieces[1].type \in CodeTypes
         /\ f.pieces[1].at = f.start /\ f.pieces[1].last = Len(f.pieces)
         /\ f.whole => \A i \in Indices(f) : Within(Len(f.bytes), i, f.pieces[i])
         /\ ~f.whole => Len(f.bytes) < f.pieces[1].next
<1>1. f.pieces \in Seq(Piece)
  BY DEF Listed
<1>2. Len(f.pieces) \in Nat /\ \A i \in 1..Len(f.pieces) : f.pieces[i] \in Piece
  BY <1>1, SeqIn
<1>3. \A i \in 1..Len(f.pieces) : i \in Nat /\ i >= 1
  BY <1>2
<1>4. QED
  BY <1>2, <1>3 DEF Listed, Indices

\* The types of a piece's fields.
LEMMA PieceTypes ==
  ASSUME NEW e \in Piece
  PROVE  /\ e.type \in Nat /\ e.type < 128 /\ e.flagged \in BOOLEAN
         /\ e.at \in Nat /\ e.next \in Nat /\ e.last \in Nat /\ e.nth \in Nat
         /\ e.to \in Nat /\ e.is \in Nat /\ e.obj \in Nat
         /\ e.made \in Nat /\ e.noted \in Nat /\ e.kept \in Nat
         /\ e.val \in Seq(Int) /\ e.parts \in Seq(Part) /\ e.way \in Seq(Nat)
<1>1. /\ e.type \in 0..127 /\ e.flagged \in BOOLEAN
      /\ e.at \in Nat /\ e.next \in Nat /\ e.last \in Nat /\ e.nth \in Nat
      /\ e.to \in Nat /\ e.is \in Nat /\ e.obj \in Nat
      /\ e.made \in Nat /\ e.noted \in Nat /\ e.kept \in Nat
      /\ e.val \in Seq(Int) /\ e.parts \in Seq(Part) /\ e.way \in Seq(Nat)
  BY Zenon DEF Piece
<1>2. \A n \in 0..127 : n \in Nat /\ n < 128
  OBVIOUS
<1>3. QED
  BY <1>1, <1>2

\* What is known of a piece that is in a listing.
LEMMA PieceFacts ==
  ASSUME NEW f, Listed(f), NEW i \in Indices(f)
  PROVE  LET e == f.pieces[i]
         IN /\ i \in Nat /\ i >= 1 /\ i <= Len(f.pieces) /\ Len(f.pieces) \in Nat
            /\ e \in Piece
            /\ IsPiece(f, i, e) /\ IsInside(f, i, e)
            /\ e.type \in Nat /\ e.type < 128 /\ e.flagged \in BOOLEAN
            /\ e.at \in Nat /\ e.next \in Nat /\ e.last \in Nat /\ e.nth \in Nat
            /\ e.to \in Nat /\ e.is \in Nat /\ e.obj \in Nat
            /\ e.made \in Nat /\ e.noted \in Nat /\ e.kept \in Nat
            /\ e.val \in Seq(Int) /\ e.parts \in Seq(Part) /\ e.way \in Seq(Nat)
            /\ Len(e.val) \in Nat /\ Len(e.parts) \in Nat /\ Len(e.way) \in Nat
<1> DEFINE e == f.pieces[i]
<1>1. /\ e \in Piece /\ i \in Nat /\ i >= 1 /\ Len(f.pieces) \in Nat
      /\ IsPiece(f, i, e) /\ IsInside(f, i, e)
  BY ListingFacts
<1>2. i <= Len(f.pieces)
  BY <1>1 DEF Indices
<1> HIDE DEF e
<1>3. /\ e.type \in Nat /\ e.type < 128 /\ e.flagged \in BOOLEAN
      /\ e.at \in Nat /\ e.next \in Nat /\ e.last \in Nat /\ e.nth \in Nat
      /\ e.to \in Nat /\ e.is \in Nat /\ e.obj \in Nat
      /\ e.made \in Nat /\ e.noted \in Nat /\ e.kept \in Nat
      /\ e.val \in Seq(Int) /\ e.parts \in Seq(Part) /\ e.way \in Seq(Nat)
  BY <1>1, PieceTypes
<1>4. Len(e.val) \in Nat /\ Len(e.parts) \in Nat /\ Len(e.way) \in Nat
  BY <1>3, SeqIn
<1>5. QED
  BY <1>1, <1>2, <1>3, <1>4, Zenon DEF e

\* Where the file is behind each part, numbers all.
LEMMA BehindFacts ==
  ASSUME NEW f, Listed(f), NEW i \in Indices(f), NEW k \in 0..Len(f.pieces[i].parts)
  PROVE  LET b == Behind(i, f.pieces[i], k)
         IN /\ b.end \in Nat /\ b.last \in Nat /\ b.taken \in Nat
            /\ b.last >= i /\ b.last <= Len(f.pieces)
            /\ k = 0 => b.taken = 0 /\ b.last = i
                        /\ b.end = f.pieces[i].at + 1 + LeadOf(f.pieces[i])
            /\ k # 0 => b = f.pieces[i].parts[k] /\ b.piece \in Nat
<1> DEFINE e == f.pieces[i]
<1>1. /\ i \in Nat /\ e.at \in Nat /\ e.parts \in Seq(Part) /\ Len(e.parts) \in Nat
      /\ IsPiece(f, i, e) /\ i <= Len(f.pieces)
  BY PieceFacts
<1>2. LeadOf(e) \in Nat
  BY DEF LeadOf, LengthWidth
<1>3. \A n \in 1..Len(e.parts) : e.parts[n].last >= i /\ e.parts[n].last <= Len(f.pieces)
  BY <1>1, Zenon DEF IsPiece
<1>4. \A n \in 1..Len(e.parts) : e.parts[n] \in Part
  BY <1>1, SeqIn
<1>5. \A b \in Part : b.end \in Nat /\ b.last \in Nat /\ b.taken \in Nat /\ b.piece \in Nat
  BY DEF Part
<1> HIDE DEF e
<1>6. CASE k = 0
  <2>1. Behind(i, e, k) = [piece |-> 0, end |-> e.at + 1 + LeadOf(e), last |-> i, taken |-> 0]
    BY <1>6, Zenon DEF Behind
  <2>2. e.at + 1 + LeadOf(e) \in Nat /\ i >= i
    BY <1>1, <1>2
  <2>3. QED
    BY <1>1, <1>6, <2>1, <2>2 DEF e
<1>7. CASE k # 0
  <2>1. k \in 1..Len(e.parts)
    BY <1>1, <1>7 DEF e
  <2>2. Behind(i, e, k) = e.parts[k]
    BY <1>7, Zenon DEF Behind
  <2>3. QED
    BY <1>3, <1>4, <1>5, <1>7, <2>1, <2>2 DEF e
<1>8. QED
  BY <1>6, <1>7

\* The counts behind any piece are numbers.
LEMMA CountsAreNat ==
  ASSUME NEW f, Listed(f), NEW m \in 0..Len(f.pieces)
  PROVE  Made(f, m) \in Nat /\ Noted(f, m) \in Nat /\ Kept(f, m) \in Nat
<1>1. Len(f.pieces) \in Nat
  BY ListingFacts
<1>2. m # 0 => m \in Indices(f)
  BY <1>1 DEF Indices
<1>3. QED
  BY <1>2, PieceFacts DEF Made, Noted, Kept

\* The counts go up with each piece.
LEMMA CountsGrow ==
  ASSUME NEW f, Listed(f), NEW i \in Indices(f)
  PROVE  LET e == f.pieces[i]
         IN /\ i - 1 \in 0..Len(f.pieces) /\ i \in 0..Len(f.pieces)
            /\ Made(f, i) = Made(f, i - 1) + (IF Creates(e) THEN 1 ELSE 0)
            /\ Noted(f, i) = Noted(f, i - 1) + (IF e.flagged THEN 1 ELSE 0)
            /\ Kept(f, i) = Kept(f, i - 1) + (IF e.type \in Interned THEN 1 ELSE 0)
            /\ e.made = Made(f, i) /\ e.noted = Noted(f, i) /\ e.kept = Kept(f, i)
            /\ Creates(e) => e.obj = 5 + e.made
<1>1. i \in Nat /\ i >= 1 /\ i <= Len(f.pieces) /\ Len(f.pieces) \in Nat /\ IsPiece(f, i, f.pieces[i])
  BY PieceFacts
<1>2. i - 1 \in 0..Len(f.pieces) /\ i \in 0..Len(f.pieces) /\ i # 0
  BY <1>1
<1>3. QED
  BY <1>1, <1>2, Zenon DEF IsPiece, Made, Noted, Kept

\* The types, apart.
LEMMA HoldersApart ==
  ASSUME NEW t \in Holders
  PROVE  /\ t \notin Texts /\ t \notin Numbers /\ t \notin Interned
         /\ t # TYPE_STRINGREF /\ t # TYPE_OBREF /\ t # TYPE_NULL
         /\ \A s \in 1..5 : t # Singletons[s]
         /\ t \in CodeTypes => t \notin Series /\ t # TYPE_DICT
         /\ t \in Series => t # TYPE_DICT /\ t \notin CodeTypes
         /\ t = TYPE_DICT => t \notin Series /\ t \notin CodeTypes
BY DEF Holders, Series, CodeTypes, Texts, Ascii, Short, Interned, Numbers, Singletons, TYPE_NULL,
   TYPE_NONE, TYPE_FALSE, TYPE_TRUE, TYPE_STOPITER, TYPE_ELLIPSIS, TYPE_INT, TYPE_INT64, TYPE_FLOAT,
   TYPE_BINARY_FLOAT, TYPE_COMPLEX, TYPE_BINARY_COMPLEX, TYPE_LONG, TYPE_STRING, TYPE_INTERNED,
   TYPE_STRINGREF, TYPE_OBREF, TYPE_TUPLE, TYPE_LIST, TYPE_DICT, TYPE_CODE, TYPE_CODE2,
   TYPE_UNICODE, TYPE_SET, TYPE_FROZENSET, TYPE_ASCII, TYPE_ASCII_INTERNED, TYPE_SMALL_TUPLE,
   TYPE_SHORT_ASCII, TYPE_SHORT_ASCII_INTERNED

\* An object without parts is of one kind only.
LEMMA LeavesApart ==
  ASSUME NEW t, t \notin Holders
  PROVE  /\ t \in Texts => t \notin Numbers /\ t # TYPE_STRINGREF
         /\ t \in Numbers => t \notin Texts /\ t # TYPE_STRINGREF
         /\ t \in Texts \cup Numbers \cup {TYPE_STRINGREF} =>
              t # TYPE_OBREF /\ t # TYPE_NULL /\ \A s \in 1..5 : t # Singletons[s]
         /\ t \in Interned => t \in Texts
         /\ \A s \in 1..5 : Singletons[s] # TYPE_OBREF /\ Singletons[s] # TYPE_NULL
         /\ \A s, u \in 1..5 : Singletons[s] = Singletons[u] => s = u
         /\ TYPE_NULL # TYPE_OBREF /\ TYPE_OBREF \notin Interned /\ TYPE_NULL \notin Interned
         /\ \A s \in 1..5 : Singletons[s] \notin Interned
         /\ TYPE_STRINGREF \notin Interned
         /\ \A u \in Numbers : u \notin Interned
BY DEF Texts, Ascii, Short, Interned, Numbers, Singletons, TYPE_NULL,
   TYPE_NONE, TYPE_FALSE, TYPE_TRUE, TYPE_STOPITER, TYPE_ELLIPSIS, TYPE_INT, TYPE_INT64, TYPE_FLOAT,
   TYPE_BINARY_FLOAT, TYPE_COMPLEX, TYPE_BINARY_COMPLEX, TYPE_LONG, TYPE_STRING, TYPE_INTERNED,
   TYPE_STRINGREF, TYPE_OBREF, TYPE_UNICODE, TYPE_ASCII, TYPE_ASCII_INTERNED,
   TYPE_SHORT_ASCII, TYPE_SHORT_ASCII_INTERNED

\* What a piece is, by its type.
LEMMA KindOf ==
  ASSUME NEW f, Listed(f), NEW i \in Indices(f)
  PROVE  LET e == f.pieces[i]
         IN /\ e.type = TYPE_OBREF => IsReference(f, i, e)
            /\ e.type = TYPE_NULL => ~e.flagged /\ e.obj = 0 /\ e.is = 0 /\ e.next = e.at + 1
            /\ \A s \in 1..5 : e.type = Singletons[s] =>
                 e.obj = s /\ e.is = e.type /\ e.next = e.at + 1
            /\ e.type \in Numbers => IsNumeral(f, e)
            /\ e.type \in Texts => IsText(f, e)
            /\ e.type = TYPE_STRINGREF => IsStringReference(f, i, e)
            /\ e.type \in Series => IsSeries(f, i, e)
            /\ e.type = TYPE_DICT => IsDict(f, i, e)
            /\ e.type \in CodeTypes => IsCode(f, i, e)
            /\ ~Creates(e) => \/ e.type = TYPE_OBREF \/ e.type = TYPE_NULL
                              \/ \E s \in 1..5 : e.type = Singletons[s]
<1> DEFINE e == f.pieces[i]
<1>1. IsLoad(f, i, e)
  BY PieceFacts, Zenon DEF IsPiece
<1> HIDE DEF e
<1> DEFINE t == e.type
           A == t = TYPE_OBREF
           B == t = TYPE_NULL
           C(s) == t = Singletons[s]
           D == t \in Numbers
           E == t \in Texts
           F == t = TYPE_STRINGREF
           G == t \in Series
           H == t = TYPE_DICT
           I == t \in CodeTypes
<1>2. /\ G \/ H \/ I => t \in Holders
      /\ t \in Holders => G \/ H \/ I
  BY DEF Holders
<1>3. t \in Holders => /\ ~A /\ ~B /\ ~D /\ ~E /\ ~F /\ \A s \in 1..5 : ~C(s)
                       /\ G => ~H /\ ~I
                       /\ H => ~G /\ ~I
                       /\ I => ~G /\ ~H
  <2> HAVE t \in Holders
  <2> HIDE DEF t
  <2>1. QED
    BY HoldersApart
<1>4. t \notin Holders => /\ E => ~D /\ ~F
                          /\ D => ~E /\ ~F
                          /\ D \/ E \/ F => ~A /\ ~B /\ \A s \in 1..5 : ~C(s)
                          /\ \A s \in 1..5 : C(s) => ~A /\ ~B
                          /\ \A s, u \in 1..5 : C(s) /\ C(u) => s = u
                          /\ A => ~B
  <2> HAVE t \notin Holders
  <2> HIDE DEF t
  <2>1. QED
    BY LeavesApart
<1>5. Creates(e) <=> E \/ D \/ F \/ t \in Holders
  BY DEF Creates
<1>6. \/ A /\ IsReference(f, i, e)
      \/ B /\ ~e.flagged /\ e.obj = 0 /\ e.is = 0 /\ e.next = e.at + 1
      \/ e.obj \in 1..5 /\ C(e.obj) /\ e.is = e.type /\ e.next = e.at + 1
      \/ D /\ IsNumeral(f, e)
      \/ E /\ IsText(f, e)
      \/ F /\ IsStringReference(f, i, e)
      \/ G /\ IsSeries(f, i, e)
      \/ H /\ IsDict(f, i, e)
      \/ I /\ IsCode(f, i, e)
  BY <1>1, Zenon DEF IsLoad
<1> HIDE DEF A, B, C, D, E, F, G, H, I
<1>7. /\ A => IsReference(f, i, e)
      /\ B => ~e.flagged /\ e.obj = 0 /\ e.is = 0 /\ e.next = e.at + 1
      /\ \A s \in 1..5 : C(s) => e.obj = s /\ e.is = e.type /\ e.next = e.at + 1
      /\ D => IsNumeral(f, e)
      /\ E => IsText(f, e)
      /\ F => IsStringReference(f, i, e)
      /\ G => IsSeries(f, i, e)
      /\ H => IsDict(f, i, e)
      /\ I => IsCode(f, i, e)
      /\ ~Creates(e) => A \/ B \/ \E s \in 1..5 : C(s)
  BY <1>2, <1>3, <1>4, <1>5, <1>6
<1>8. QED
  BY <1>7, Zenon DEF e, t, A, B, C, D, E, F, G, H, I

\* Pieces with parts, and those without.
LEMMA HolderFacts ==
  ASSUME NEW f, Listed(f), NEW i \in Indices(f)
  PROVE  LET e == f.pieces[i]
         IN /\ e.type \in Holders => e.next = Behind(i, e, Len(e.parts)).end
            /\ e.type \notin Holders => e.parts = <<>> /\ e.last = i
            /\ e.last = Behind(i, e, Len(e.parts)).last
            /\ e.type \in Holders => Creates(e) /\ e.is = e.type
            /\ Creates(e) /\ e.type # TYPE_STRINGREF => e.is = e.type
<1> DEFINE e == f.pieces[i]
<1>1. IsPiece(f, i, e)
  BY PieceFacts
<1>2. e.type \in Holders => e.type # TYPE_STRINGREF
  BY HoldersApart
<1>3. e.type \in Holders => Creates(e)
  BY DEF Creates
<1>4. Len(<<>>) = 0
  BY EmptySeq
<1>5. Behind(i, e, 0).last = i
  BY DEF Behind
<1>6. QED
  BY <1>1, <1>2, <1>3, <1>4, <1>5, Zenon DEF IsPiece

\* A part that is an object.
LEMMA ObjectPart ==
  ASSUME NEW f, Listed(f), NEW i \in Indices(f), f.pieces[i].type \in Holders,
         NEW k \in 1..Len(f.pieces[i].parts), f.pieces[i].parts[k].piece # 0
  PROVE  /\ IsPart(f, i, f.pieces[i], k)
         /\ f.pieces[i].parts[k].piece \in Indices(f)
<1> DEFINE e == f.pieces[i]
<1>1. e.type \in Series \/ e.type = TYPE_DICT \/ e.type \in CodeTypes
  BY DEF Holders
<1>2. IsPart(f, i, e, k)
  <2>1. CASE e.type \in Series
    <3>1. IsSeries(f, i, e)
      BY <2>1, KindOf
    <3>2. QED
      BY <3>1, Zenon DEF IsSeries
  <2>2. CASE e.type = TYPE_DICT
    <3>1. IsDict(f, i, e)
      BY <2>2, KindOf
    <3>2. QED
      BY <3>1, Zenon DEF IsDict
  <2>3. CASE e.type \in CodeTypes
    <3> DEFINE x == FieldsOf(f.ver)[k]
    <3>1. IsCode(f, i, e)
      BY <2>3, KindOf
    <3> HIDE DEF e
    <3>2. k \in 1..Len(e.parts) /\ e.parts[k].piece # 0
      BY DEF e
    <3>3. IsFieldPart(f, i, e, k, x)
      BY <3>1, <3>2, Zenon DEF IsCode
    <3> HIDE DEF x
    <3>4. CASE IsNumber(x)
      BY <3>2, <3>3, <3>4, Zenon DEF IsFieldPart, IsNumberPart
    <3>5. CASE ~IsNumber(x)
      BY <3>3, <3>5, Zenon DEF IsFieldPart
    <3>6. QED
      BY <3>4, <3>5
  <2>4. QED
    BY <1>1, <2>1, <2>2, <2>3
<1>3. k - 1 \in 0..Len(e.parts) /\ Len(f.pieces) \in Nat
  BY PieceFacts
<1>4. Behind(i, e, k - 1).last \in Nat
  BY <1>3, BehindFacts
<1>5. /\ e.parts[k].piece = Behind(i, e, k - 1).last + 1
      /\ e.parts[k].piece <= Len(f.pieces)
  BY <1>2, Zenon DEF IsPart
<1> HIDE DEF e
<1>6. e.parts[k].piece \in 1..Len(f.pieces)
  BY <1>3, <1>4, <1>5
<1>7. QED
  BY <1>2, <1>6 DEF e, Indices

\* Every piece but the first is a part of the one before it on its way.
LEMMA OneAround ==
  ASSUME NEW f, Listed(f), NEW i \in Indices(f)
  PROVE  LET w == f.pieces[i].way
             c == w[Len(w) - 1]
         IN /\ w \in Seq(Nat) /\ Len(w) \in Nat /\ Len(w) >= 1 /\ w[Len(w)] = i
            /\ Len(w) = 1 <=> i = 1
            /\ i # 1 =>
                 /\ c \in Indices(f) /\ f.pieces[c].type \in Holders
                 /\ f.pieces[i].nth \in 1..Len(f.pieces[c].parts)
                 /\ f.pieces[c].parts[f.pieces[i].nth].piece = i
                 /\ IsPart(f, c, f.pieces[c], f.pieces[i].nth)
                 /\ w = Append(f.pieces[c].way, i)
                 /\ Len(f.pieces[c].way) = Len(w) - 1
                 /\ \A k \in 1..(Len(w) - 1) : f.pieces[c].way[k] = w[k]
<1> DEFINE w == f.pieces[i].way
           c == w[Len(w) - 1]
<1>1. /\ w \in Seq(Nat) /\ Len(w) \in Nat /\ i \in Nat /\ IsInside(f, i, f.pieces[i])
      /\ i >= 1
  BY PieceFacts
<1>2. i = 1 => Len(w) = 1 /\ w[1] = 1
  <2>1. i = 1 => w = <<1>>
    BY <1>1, Zenon DEF IsInside
  <2>2. Len(<<1>>) = 1 /\ <<1>>[1] = 1
    OBVIOUS
  <2>3. QED
    BY <2>1, <2>2
<1>3. i # 1 => /\ Len(w) > 1 /\ w[Len(w)] = i /\ c \in Indices(f) /\ f.pieces[c].type \in Holders
               /\ f.pieces[i].nth \in 1..Len(f.pieces[c].parts)
               /\ f.pieces[c].parts[f.pieces[i].nth].piece = i
  BY <1>1, Zenon DEF IsInside, Indices
<1>4. i # 1 => /\ IsPart(f, c, f.pieces[c], f.pieces[i].nth)
               /\ w = Append(f.pieces[c].way, i)
               /\ Len(f.pieces[c].way) = Len(w) - 1
               /\ \A k \in 1..(Len(w) - 1) : f.pieces[c].way[k] = w[k]
  <2> HAVE i # 1
  <2> DEFINE u == f.pieces[c].way
             n == f.pieces[i].nth
  <2>1. c \in Indices(f) /\ n \in 1..Len(f.pieces[c].parts) /\ f.pieces[c].parts[n].piece # 0
    <3>1. i # 0
      BY <1>1
    <3>2. QED
      BY <1>3, <3>1, Zenon
  <2>2. IsPart(f, c, f.pieces[c], n)
    BY <1>3, <2>1, ObjectPart
  <2>3. w = Append(u, i)
    BY <1>3, <2>2, Zenon DEF IsPart
  <2>4. u \in Seq(Nat) /\ Len(u) \in Nat
    BY <2>1, PieceFacts
  <2> HIDE DEF u, n, w
  <2>5. Len(Append(u, i)) = Len(u) + 1 /\ \A k \in 1..Len(u) : Append(u, i)[k] = u[k]
    <3>1. i \in Nat
      BY <1>1
    <3>2. QED
      BY <3>1, <2>4, AppendIn
  <2>6. Len(u) = Len(w) - 1
    BY <2>3, <2>4, <2>5
  <2>7. \A k \in 1..(Len(w) - 1) : u[k] = w[k]
    BY <2>3, <2>5, <2>6
  <2>8. QED
    BY <2>2, <2>3, <2>6, <2>7 DEF u, n
<1>5. Len(w) >= 1 /\ w[Len(w)] = i /\ (Len(w) = 1 <=> i = 1)
  <2> HIDE DEF w, c
  <2>1. QED
    BY <1>1, <1>2, <1>3
<1>6. QED
  BY <1>1, <1>3, <1>4, <1>5, Zenon DEF w, c

----------------------------------------------------------------------------
(* Following the listing                                                     *)

\* Calls further out do not notice what happens to other objects.
LEMMA UnderKept ==
  ASSUME NEW f, NEW h, NEW g, NEW fr, NEW fs, NEW w, NEW n \in Nat,
         Under(f, h, fr, w, n),
         \A k \in 1..n : fs[k] = fr[k] /\ g[fr[k].obj].items = h[fr[k].obj].items
  PROVE  Under(f, g, fs, w, n)
<1> SUFFICES ASSUME NEW k \in 1..n
             PROVE  Waits(f, g, fs[k], w[k], f.pieces[w[k + 1]].nth)
  BY DEF Under
<1>1. Waits(f, h, fr[k], w[k], f.pieces[w[k + 1]].nth)
  BY DEF Under
<1>2. fs[k] = fr[k] /\ g[fr[k].obj].items = h[fr[k].obj].items
  OBVIOUS
<1>3. QED
  BY <1>1, <1>2, Zenon DEF Waits

\* The part that is waited for comes next.
LEMMA NextPart ==
  ASSUME NEW f, Listed(f), NEW h, NEW fr, NEW r, NEW t, NEW p, NEW i \in Indices(f),
         f.pieces[i].type \in Holders, NEW k \in 1..Len(f.pieces[i].parts),
         f.pieces[i].parts[k].piece # 0,
         OnField(f, h, fr, r, t, p, i, k)
  PROVE  /\ f.pieces[i].parts[k].piece \in Indices(f)
         /\ OnObject(f, h, fr, r, t, p, f.pieces[i].parts[k].piece)
<1> DEFINE e == f.pieces[i]
           q == e.parts[k].piece
           w == e.way
           m == Behind(i, e, k - 1).last
<1>1. IsPart(f, i, e, k) /\ q \in Indices(f)
  BY ObjectPart
<1>2. /\ q = m + 1 /\ f.pieces[q].at = Behind(i, e, k - 1).end
      /\ f.pieces[q].way = Append(w, q) /\ f.pieces[q].nth = k
  BY <1>1, Zenon DEF IsPart
<1>3. k - 1 \in 0..Len(e.parts)
  BY PieceFacts
<1>4. m \in Nat
  BY <1>3, BehindFacts
<1>5. w \in Seq(Nat) /\ Len(w) \in Nat /\ Len(w) >= 1 /\ w[Len(w)] = i
  BY OneAround
<1>6. Awaiting(f, h, fr, p, i, k) /\ Objects(f, h, fr, m) /\ Tables(f, r, t, m)
  BY DEF OnField
<1>7. /\ Len(fr) = Len(w) /\ Under(f, h, fr, w, Len(fr) - 1)
      /\ Waits(f, h, fr[Len(fr)], i, k) /\ p = Behind(i, e, k - 1).end
  BY <1>6 DEF Awaiting
<1> DEFINE u == f.pieces[q].way
<1>8. q \in Nat /\ u = Append(w, q)
  BY <1>1, <1>2, PieceFacts
<1> HIDE DEF u, w, m, q, e
<1>9. Len(u) = Len(w) + 1 /\ u[Len(w) + 1] = q /\ \A n \in 1..Len(w) : u[n] = w[n]
  BY <1>5, <1>8, AppendIn
<1>10. Under(f, h, fr, u, Len(fr))
  <2> SUFFICES ASSUME NEW n \in 1..Len(fr)
               PROVE  Waits(f, h, fr[n], u[n], f.pieces[u[n + 1]].nth)
    BY DEF Under
  <2>1. CASE n = Len(fr)
    <3>1. u[n] = i /\ u[n + 1] = q
      BY <1>5, <1>7, <1>9, <2>1
    <3>2. f.pieces[q].nth = k
      BY <1>2
    <3>3. QED
      BY <1>7, <2>1, <3>1, <3>2
  <2>2. CASE n # Len(fr)
    <3>1. n \in 1..(Len(fr) - 1) /\ n \in 1..Len(w) /\ n + 1 \in 1..Len(w)
      BY <1>5, <1>7, <2>2
    <3>2. u[n] = w[n] /\ u[n + 1] = w[n + 1]
      BY <1>9, <3>1
    <3>3. Waits(f, h, fr[n], w[n], f.pieces[w[n + 1]].nth)
      BY <1>7, <3>1 DEF Under
    <3>4. QED
      BY <3>2, <3>3
  <2>3. QED
    BY <2>1, <2>2
<1>11. Len(fr) = Len(u) - 1
  BY <1>5, <1>7, <1>9
<1>12. q - 1 = m
  BY <1>2, <1>4
<1>13. p = f.pieces[q].at
  BY <1>2, <1>7
<1>14. OnObject(f, h, fr, r, t, p, q)
  BY <1>6, <1>10, <1>11, <1>12, <1>13 DEF OnObject, Around, u
<1>15. QED
  BY <1>1, <1>14 DEF q, e

\* Piece i, up to p, is the kth part of c, for which the innermost call is.
PartOf(f, h, fr, p, i, c, k) ==
  LET e == f.pieces[c]
  IN /\ c \in Indices(f) /\ e.type \in Holders /\ k \in 1..Len(e.parts)
     /\ e.parts[k].piece = i /\ e.parts[k].end = p /\ e.parts[k].last = f.pieces[i].last
     /\ e.parts[k].taken = Behind(c, e, k - 1).taken
     /\ Len(fr) = Len(e.way)
     /\ Under(f, h, fr, e.way, Len(fr) - 1)
     /\ Waits(f, h, fr[Len(fr)], c, k)

\* A piece returns to the one around it.
LEMMA GoesUp ==
  ASSUME NEW f, Listed(f), NEW h, NEW fr, NEW r, NEW t, NEW p, NEW x, NEW i \in Indices(f),
         Len(fr) \in Nat, OnReturn(f, h, fr, r, t, p, x, i)
  PROVE  /\ i = 1 <=> Len(fr) = 0
         /\ i # 1 => \E c, k : PartOf(f, h, fr, p, i, c, k)
<1> DEFINE w == f.pieces[i].way
           c == w[Len(w) - 1]
           k == f.pieces[i].nth
<1>1. Len(w) \in Nat /\ Len(w) >= 1 /\ w[Len(w)] = i /\ (Len(w) = 1 <=> i = 1)
  BY OneAround
<1>2. Len(fr) = Len(w) - 1 /\ Under(f, h, fr, w, Len(fr)) /\ p = f.pieces[i].next
  BY DEF OnReturn, Around
<1>3. i = 1 <=> Len(fr) = 0
  <2> HIDE DEF w
  <2>1. QED
    BY <1>1, <1>2
<1>4. ASSUME i # 1
      PROVE  /\ c \in Indices(f) /\ k \in 1..Len(f.pieces[c].parts)
             /\ f.pieces[c].type \in Holders
             /\ f.pieces[c].parts[k].piece = i /\ f.pieces[c].parts[k].end = p
             /\ f.pieces[c].parts[k].last = f.pieces[i].last
             /\ f.pieces[c].parts[k].taken = Behind(c, f.pieces[c], k - 1).taken
             /\ Len(fr) = Len(f.pieces[c].way)
             /\ Under(f, h, fr, f.pieces[c].way, Len(fr) - 1)
             /\ Waits(f, h, fr[Len(fr)], c, k)
  <2> DEFINE u == f.pieces[c].way
  <2>1. /\ c \in Indices(f) /\ f.pieces[c].type \in Holders
        /\ k \in 1..Len(f.pieces[c].parts)
        /\ f.pieces[c].parts[k].piece = i
        /\ IsPart(f, c, f.pieces[c], k)
        /\ Len(u) = Len(w) - 1
        /\ \A n \in 1..(Len(w) - 1) : u[n] = w[n]
    BY <1>4, OneAround
  <2>2. /\ f.pieces[i].next = f.pieces[c].parts[k].end
        /\ f.pieces[i].last = f.pieces[c].parts[k].last
        /\ f.pieces[c].parts[k].taken = Behind(c, f.pieces[c], k - 1).taken
    BY <2>1, Zenon DEF IsPart
  <2>3. w[Len(fr)] = c /\ w[Len(fr) + 1] = i
    <3>1. Len(fr) + 1 = Len(w)
      BY <1>1, <1>2
    <3>2. QED
      BY <1>1, <1>2, <3>1
  <2>4. f.pieces[i].nth = k
    OBVIOUS
  <2> HIDE DEF w, c, k, u
  <2>5. Len(fr) = Len(u) /\ Len(fr) >= 1
    BY <1>1, <1>2, <1>4, <2>1
  <2>6. Under(f, h, fr, u, Len(fr) - 1)
    <3> SUFFICES ASSUME NEW n \in 1..(Len(fr) - 1)
                 PROVE  Waits(f, h, fr[n], u[n], f.pieces[u[n + 1]].nth)
      BY DEF Under
    <3>1. n \in 1..Len(fr) /\ n \in 1..(Len(w) - 1) /\ n + 1 \in 1..(Len(w) - 1)
      BY <1>1, <1>2
    <3>2. Waits(f, h, fr[n], w[n], f.pieces[w[n + 1]].nth)
      BY <1>2, <3>1 DEF Under
    <3>3. u[n] = w[n] /\ u[n + 1] = w[n + 1]
      BY <2>1, <3>1
    <3>4. QED
      BY <3>2, <3>3
  <2>7. Waits(f, h, fr[Len(fr)], c, k)
    <3>1. Len(fr) \in 1..Len(fr)
      BY <2>5
    <3>2. Waits(f, h, fr[Len(fr)], w[Len(fr)], f.pieces[w[Len(fr) + 1]].nth)
      BY <1>2, <3>1 DEF Under
    <3>3. QED
      BY <2>3, <2>4, <3>2
  <2>8. QED
    BY <1>2, <2>1, <2>2, <2>5, <2>6, <2>7 DEF u
<1>5. i # 1 => PartOf(f, h, fr, p, i, c, k)
  BY <1>4, Zenon DEF PartOf
<1> HIDE DEF c, k
<1>6. QED
  BY <1>3, <1>5

\* An object that is waited for has been given something, or is done.
LEMMA ObjectsKept ==
  ASSUME NEW f, Listed(f), NEW h, NEW g, NEW fr, NEW fs, NEW m \in 0..Len(f.pieces),
         Objects(f, h, fr, m), Len(g) = Len(h), Len(h) \in Nat,
         NEW c \in 1..m, Creates(f.pieces[c]),
         \A x \in 1..Len(h) : x # f.pieces[c].obj => g[x] = h[x],
         Filled(f, g, c),
         \A x \in 1..Len(h) : x # f.pieces[c].obj /\ Waited(fr, x) => Waited(fs, x),
         Waited(fs, f.pieces[c].obj) \/ Ended(f, g, c)
  PROVE  Objects(f, g, fs, m)
<1>1. \A i \in 1..m : Creates(f.pieces[i]) =>
        Filled(f, h, i) /\ (Waited(fr, f.pieces[i].obj) \/ Ended(f, h, i))
  BY DEF Objects
<1>2. \A i \in 1..m : Creates(f.pieces[i]) /\ i # c => f.pieces[i].obj # f.pieces[c].obj
  BY DEF Objects
<1>3. f.pieces[c].obj \in 6..Len(h)
  BY <1>1 DEF Filled
<1>4. \A s \in 1..5 : g[s].type = Singletons[s]
  <2>1. \A s \in 1..5 : s \in 1..Len(h) /\ s # f.pieces[c].obj
    <3> DEFINE o == f.pieces[c].obj
    <3> HIDE DEF o
    <3>1. o \in 6..Len(h)
      BY <1>3 DEF o
    <3>2. \A s \in 1..5 : s \in 1..Len(h) /\ s # o
      BY <3>1
    <3>3. QED
      BY <3>2 DEF o
  <2>2. QED
    BY <2>1 DEF Objects
<1>5. \A i \in 1..m : Creates(f.pieces[i]) /\ i # c =>
        Filled(f, g, i) /\ (Waited(fs, f.pieces[i].obj) \/ Ended(f, g, i))
  <2> SUFFICES ASSUME NEW i \in 1..m, Creates(f.pieces[i]), i # c
               PROVE  Filled(f, g, i) /\ (Waited(fs, f.pieces[i].obj) \/ Ended(f, g, i))
    OBVIOUS
  <2> DEFINE o == f.pieces[i].obj
  <2>1. Filled(f, h, i) /\ (Waited(fr, o) \/ Ended(f, h, i))
    BY <1>1
  <2>2. o \in 6..Len(h) /\ o # f.pieces[c].obj
    BY <1>2, <2>1 DEF Filled
  <2>3. o \in 1..Len(h)
    <3> HIDE DEF o
    <3>1. QED
      BY <2>2
  <2>4. g[o] = h[o] /\ (Waited(fr, o) => Waited(fs, o))
    BY <2>2, <2>3
  <2>5. Filled(f, g, i)
    BY <2>1, <2>4, Zenon DEF Filled
  <2>6. Ended(f, h, i) => Ended(f, g, i)
    BY <2>4, Zenon DEF Ended
  <2>7. QED
    BY <2>1, <2>4, <2>5, <2>6
<1>6. Len(g) = 5 + Made(f, m)
  BY DEF Objects
<1>7. QED
  BY <1>4, <1>5, <1>6, Zenon DEF Objects

\* A new object, for piece i.
LEMMA ObjectsMore ==
  ASSUME NEW f, Listed(f), NEW i \in Indices(f), Creates(f.pieces[i]),
         NEW h, Len(h) \in Nat, NEW fr, Objects(f, h, fr, i - 1),
         NEW g, Len(g) = Len(h) + 1, \A x \in 1..Len(h) : g[x] = h[x],
         NEW fs, \A x \in 1..Len(h) : Waited(fr, x) => Waited(fs, x),
         Filled(f, g, i), Waited(fs, f.pieces[i].obj) \/ Ended(f, g, i)
  PROVE  Objects(f, g, fs, i)
<1>1. /\ i \in Nat /\ i >= 1 /\ Made(f, i) = Made(f, i - 1) + 1
      /\ f.pieces[i].obj = 5 + Made(f, i) /\ Made(f, i - 1) \in Nat
  BY PieceFacts, CountsGrow, CountsAreNat
<1>2. Len(h) = 5 + Made(f, i - 1)
  BY DEF Objects
<1>3. Len(g) = 5 + Made(f, i) /\ f.pieces[i].obj = Len(h) + 1 /\ Len(h) >= 5
  BY <1>1, <1>2
<1>4. \A s \in 1..5 : g[s].type = Singletons[s]
  <2>1. \A s \in 1..5 : s \in 1..Len(h)
    BY <1>3
  <2>2. QED
    BY <2>1 DEF Objects
<1>5. \A j \in 1..i : j = i \/ j \in 1..(i - 1)
  BY <1>1
<1>6. \A j \in 1..(i - 1) : Creates(f.pieces[j]) =>
        /\ Filled(f, g, j) /\ (Waited(fs, f.pieces[j].obj) \/ Ended(f, g, j))
        /\ f.pieces[j].obj # f.pieces[i].obj
  <2> SUFFICES ASSUME NEW j \in 1..(i - 1), Creates(f.pieces[j])
               PROVE  /\ Filled(f, g, j) /\ (Waited(fs, f.pieces[j].obj) \/ Ended(f, g, j))
                      /\ f.pieces[j].obj # f.pieces[i].obj
    OBVIOUS
  <2> DEFINE o == f.pieces[j].obj
  <2>1. Filled(f, h, j) /\ (Waited(fr, o) \/ Ended(f, h, j))
    BY DEF Objects
  <2>2. o \in 6..Len(h)
    BY <2>1 DEF Filled
  <2>3. o \in 1..Len(h) /\ o \in 6..Len(g) /\ o # f.pieces[i].obj
    <3> DEFINE q == f.pieces[i].obj
    <3>1. q = Len(h) + 1
      BY <1>3
    <3> HIDE DEF o, q
    <3>2. o \in 1..Len(h) /\ o \in 6..Len(g) /\ o # q
      BY <2>2, <3>1
    <3>3. QED
      BY <3>2 DEF q
  <2>4. g[o] = h[o] /\ (Waited(fr, o) => Waited(fs, o))
    BY <2>3
  <2>5. Filled(f, g, j)
    BY <2>1, <2>3, <2>4, Zenon DEF Filled
  <2>6. Ended(f, h, j) => Ended(f, g, j)
    BY <2>4, Zenon DEF Ended
  <2>7. QED
    BY <2>1, <2>3, <2>4, <2>5, <2>6
<1>7. \A j, k \in 1..(i - 1) :
        Creates(f.pieces[j]) /\ Creates(f.pieces[k]) /\ f.pieces[j].obj = f.pieces[k].obj => j = k
  BY DEF Objects
<1>8. QED
  BY <1>3, <1>4, <1>5, <1>6, <1>7, Zenon DEF Objects

\* A piece that makes no object.
LEMMA ObjectsSame ==
  ASSUME NEW f, Listed(f), NEW i \in Indices(f), ~Creates(f.pieces[i]),
         NEW h, NEW fr, Objects(f, h, fr, i - 1)
  PROVE  Objects(f, h, fr, i)
<1>1. Made(f, i) = Made(f, i - 1) + 0 /\ Made(f, i - 1) \in Nat /\ i \in Nat /\ i >= 1
  BY CountsGrow, CountsAreNat, PieceFacts
<1>2. Made(f, i) = Made(f, i - 1)
  BY <1>1
<1>3. \A j \in 1..i : Creates(f.pieces[j]) => j \in 1..(i - 1)
  BY <1>1
<1>4. QED
  BY <1>2, <1>3, Zenon DEF Objects

\* A sequence with one more, which need not be of the same set.
LEMMA AppendAny ==
  ASSUME NEW S, NEW s \in Seq(S), NEW x
  PROVE  /\ Len(Append(s, x)) = Len(s) + 1
         /\ Append(s, x)[Len(s) + 1] = x
         /\ \A k \in 1..Len(s) : Append(s, x)[k] = s[k]
OBVIOUS

\* The tables after piece i.
LEMMA TablesMore ==
  ASSUME NEW f, Listed(f), NEW i \in Indices(f),
         NEW S, NEW r \in Seq(S), NEW t \in Seq(S), NEW q, NEW u,
         Tables(f, r, t, i - 1),
         q = IF f.pieces[i].flagged THEN Append(r, f.pieces[i].obj) ELSE r,
         u = IF f.pieces[i].type \in Interned THEN Append(t, f.pieces[i].obj) ELSE t
  PROVE  Tables(f, q, u, i)
<1> DEFINE e == f.pieces[i]
           F == e.flagged
           I == e.type \in Interned
<1>1. /\ i \in Nat /\ i >= 1
      /\ Noted(f, i) = Noted(f, i - 1) + (IF F THEN 1 ELSE 0)
      /\ Kept(f, i) = Kept(f, i - 1) + (IF I THEN 1 ELSE 0)
      /\ e.noted = Noted(f, i) /\ e.kept = Kept(f, i)
      /\ Noted(f, i - 1) \in Nat /\ Kept(f, i - 1) \in Nat
  BY CountsGrow, CountsAreNat, PieceFacts
<1>2. /\ Len(r) = Noted(f, i - 1) /\ Len(t) = Kept(f, i - 1)
      /\ \A j \in 1..(i - 1) :
           /\ f.pieces[j].flagged => f.pieces[j].noted \in 1..Len(r)
                                     /\ r[f.pieces[j].noted] = f.pieces[j].obj
           /\ f.pieces[j].type \in Interned => f.pieces[j].kept \in 1..Len(t)
                                               /\ t[f.pieces[j].kept] = f.pieces[j].obj
  BY Zenon DEF Tables
<1>3. /\ F => Len(q) = Len(r) + 1 /\ q[Len(r) + 1] = e.obj /\ \A n \in 1..Len(r) : q[n] = r[n]
      /\ ~F => q = r
      /\ I => Len(u) = Len(t) + 1 /\ u[Len(t) + 1] = e.obj /\ \A n \in 1..Len(t) : u[n] = t[n]
      /\ ~I => u = t
  BY AppendAny
<1>4. \A j \in 1..i : j = i \/ j \in 1..(i - 1)
  BY <1>1
<1> HIDE DEF e, F, I
<1>5. Len(q) = Noted(f, i) /\ Len(u) = Kept(f, i)
  BY <1>1, <1>2, <1>3
<1>6. /\ F => e.noted \in 1..Len(q) /\ q[e.noted] = e.obj
      /\ I => e.kept \in 1..Len(u) /\ u[e.kept] = e.obj
  BY <1>1, <1>2, <1>3
<1>7. \A n : /\ n \in 1..Len(r) => n \in 1..Len(q) /\ q[n] = r[n]
             /\ n \in 1..Len(t) => n \in 1..Len(u) /\ u[n] = t[n]
  BY <1>1, <1>2, <1>3
<1>8. \A j \in 1..(i - 1) :
        /\ f.pieces[j].flagged => f.pieces[j].noted \in 1..Len(q)
                                  /\ q[f.pieces[j].noted] = f.pieces[j].obj
        /\ f.pieces[j].type \in Interned => f.pieces[j].kept \in 1..Len(u)
                                            /\ u[f.pieces[j].kept] = f.pieces[j].obj
  BY <1>2, <1>7
<1>9. /\ f.pieces[i].flagged => f.pieces[i].noted \in 1..Len(q)
                                /\ q[f.pieces[i].noted] = f.pieces[i].obj
      /\ f.pieces[i].type \in Interned => f.pieces[i].kept \in 1..Len(u)
                                          /\ u[f.pieces[i].kept] = f.pieces[i].obj
  BY <1>6, Zenon DEF e, F, I
<1>10. QED
  BY <1>4, <1>5, <1>8, <1>9, Zenon DEF Tables

\* What a piece stands for has the type that the listing says.
LEMMA TypeOfPiece ==
  ASSUME NEW f, Listed(f), NEW h, NEW fr, NEW m \in 0..Len(f.pieces), Objects(f, h, fr, m),
         NEW i \in 1..m, f.pieces[i].obj # 0
  PROVE  h[f.pieces[i].obj].type = f.pieces[i].is
<1> DEFINE T(j) == h[f.pieces[j].obj].type = f.pieces[j].is
<1>1. Len(f.pieces) \in Nat
  BY ListingFacts
<1>2. \A j \in 1..m : j \in Indices(f)
  BY <1>1 DEF Indices
<1>3. \A j \in 1..m : Creates(f.pieces[j]) => T(j)
  BY DEF Objects, Filled
<1>4. \A j \in 1..m : \A s \in 1..5 : f.pieces[j].type = Singletons[s] => T(j)
  <2> SUFFICES ASSUME NEW j \in 1..m, NEW s \in 1..5, f.pieces[j].type = Singletons[s] PROVE T(j)
    OBVIOUS
  <2>1. f.pieces[j].obj = s /\ f.pieces[j].is = f.pieces[j].type
    BY <1>2, KindOf
  <2>2. h[s].type = Singletons[s]
    BY DEF Objects
  <2>3. QED
    BY <2>1, <2>2
<1>5. \A j \in 1..m : f.pieces[j].type # TYPE_OBREF /\ f.pieces[j].obj # 0 => T(j)
  <2> SUFFICES ASSUME NEW j \in 1..m, f.pieces[j].type # TYPE_OBREF, f.pieces[j].obj # 0 PROVE T(j)
    OBVIOUS
  <2>1. Creates(f.pieces[j]) \/ \E s \in 1..5 : f.pieces[j].type = Singletons[s]
    BY <1>2, KindOf
  <2>2. QED
    BY <1>3, <1>4, <2>1
<1>6. CASE f.pieces[i].type = TYPE_OBREF
  <2> DEFINE j == f.pieces[i].to
  <2>1. IsReference(f, i, f.pieces[i])
    BY <1>2, <1>6, KindOf
  <2>2. /\ j \in 1..(i - 1) /\ f.pieces[j].flagged
        /\ f.pieces[i].obj = f.pieces[j].obj /\ f.pieces[i].is = f.pieces[j].is
    BY <2>1, Zenon DEF IsReference
  <2> HIDE DEF j
  <2>3. i \in Nat /\ m \in Nat /\ i <= m
    BY <1>1
  <2>4. j \in 1..m
    BY <2>2, <2>3
  <2>5. f.pieces[j].type = TYPE_OBREF => ~f.pieces[j].flagged
    BY <1>2, <2>4, KindOf, Zenon DEF IsReference
  <2>6. T(j)
    BY <1>5, <2>2, <2>4, <2>5
  <2>7. QED
    BY <2>2, <2>6
<1>7. QED
  BY <1>5, <1>6

----------------------------------------------------------------------------
(* The bytes of a listing, read                                              *)

\* A listed byte that has been read is the byte read.
LEMMA ByteThere ==
  ASSUME file \in Files, NEW p \in Nat, NEW b, HasByte(file, p, b), NEW n \in Nat, n > 0, Has(p, n)
  PROVE  At(p) = b
<1>1. Len(file.bytes) \in Nat
  BY FileFacts
<1>2. p + n <= Len(file.bytes)
  BY DEF Has
<1>3. p < Len(file.bytes)
  BY <1>1, <1>2
<1>4. QED
  BY <1>3, Zenon DEF At, HasByte

\* Of bytes that are there any part is there.
LEMMA HasLess ==
  ASSUME file \in Files, NEW p \in Nat, NEW n \in Nat, Has(p, n),
         NEW k \in Nat, NEW m \in Nat, k + m <= n
  PROVE  p + k \in Nat /\ Has(p + k, m)
<1>1. Len(file.bytes) \in Nat
  BY FileFacts
<1>2. QED
  BY <1>1 DEF Has

\* A listed number of 16 bits that is there is the number read.
LEMMA ShortThere ==
  ASSUME file \in Files, NEW p \in Nat, NEW n, HasShort(file, p, n), Has(p, 2)
  PROVE  get16(p) = n
<1>1. /\ n \in Nat /\ n < 65536
      /\ HasByte(file, p, n % 256) /\ HasByte(file, p + 1, n \div 256)
  BY SMT DEF HasShort
<1>2. Has(p, 1) /\ p + 1 \in Nat /\ Has(p + 1, 1)
  <2>1. Has(p + 0, 1) /\ p + 0 = p
    BY HasLess
  <2>2. QED
    BY <2>1, HasLess
<1>3. At(p) = n % 256 /\ At(p + 1) = n \div 256
  BY <1>1, <1>2, ByteThere
<1>4. n = (n % 256) + 256 * (n \div 256)
  BY <1>1, SMT
<1>5. QED
  BY <1>3, <1>4, SMT DEF get16

\* A listed number of 32 bits that is there is the number read.
LEMMA LongThere ==
  ASSUME file \in Files, NEW p \in Nat, NEW n, HasLong(file, p, n), Has(p, 4)
  PROVE  get32(p) = n
<1>1. /\ n \in Nat /\ n <= 2147483647
      /\ HasShort(file, p, n % 65536) /\ HasShort(file, p + 2, n \div 65536)
  BY SMT DEF HasLong, Fits
<1>2. Has(p, 2) /\ p + 2 \in Nat /\ Has(p + 2, 2)
  <2>1. Has(p + 0, 2) /\ p + 0 = p
    BY HasLess
  <2>2. QED
    BY <2>1, HasLess
<1>3. get16(p) = n % 65536 /\ get16(p + 2) = n \div 65536
  BY <1>1, <1>2, ShortThere, SMT
<1>4. n = (n % 65536) + 65536 * (n \div 65536) /\ ~(n \div 65536 >= 32768)
  BY <1>1, SMT
<1> DEFINE low == n % 65536
           high == n \div 65536
<1>5. get32(p) = Int32(low, high)
  BY <1>3, SMT DEF get32
<1>6. n = low + 65536 * high /\ ~(high >= 32768)
  BY <1>4, SMT
<1> HIDE DEF low, high
<1>7. QED
  BY <1>5, <1>6, SMT DEF Int32

\* Listed bytes that are there are the slice read.
LEMMA TextThere ==
  ASSUME file \in Files, NEW p \in Nat, NEW S, NEW s \in Seq(S),
         HasBytes(file, p, s), Has(p, Len(s))
  PROVE  Slice(p, Len(s)) = s
<1>1. Len(s) \in Nat /\ s = [i \in 1..Len(s) |-> s[i]]
  OBVIOUS
<1>2. ASSUME NEW i \in 1..Len(s) PROVE At(p + i - 1) = s[i]
  <2>1. HasByte(file, p + i - 1, s[i])
    BY Zenon DEF HasBytes
  <2>2. i - 1 \in Nat /\ i - 1 + 1 <= Len(s) /\ p + (i - 1) = p + i - 1
    BY <1>1
  <2>3. p + i - 1 \in Nat /\ Has(p + i - 1, 1)
    <3>1. p + (i - 1) \in Nat /\ Has(p + (i - 1), 1)
      BY <1>1, <2>2, HasLess
    <3>2. QED
      BY <2>2, <3>1
  <2>4. QED
    BY <2>1, <2>3, ByteThere
<1>3. Slice(p, Len(s)) = [i \in 1..Len(s) |-> s[i]]
  <2>1. Slice(p, Len(s)) = [i \in 1..Len(s) |-> At(p + i - 1)]
    BY DEF Slice
  <2>2. QED
    BY <1>2, <2>1, Zenon
<1>4. QED
  BY <1>1, <1>3

\* A listed length that is there is the length read.
LEMMA LengthThere ==
  ASSUME file \in Files, NEW p \in Nat, NEW t, NEW n \in Nat,
         HasLength(file, t, p, n), Has(p, LengthWidth(t))
  PROVE  LengthAt(t, p) = n
<1>1. LengthWidth(t) \in {1, 4}
  BY DEF LengthWidth
<1>2. CASE LengthWidth(t) = 1
  <2>1. HasByte(file, p, n)
    BY <1>2, SMT DEF HasLength
  <2>2. At(p) = n
    BY <1>2, <2>1, ByteThere
  <2>3. QED
    BY <1>2, <2>2, Zenon DEF LengthAt
<1>3. CASE LengthWidth(t) = 4
  <2>1. HasLong(file, p, n)
    BY <1>3, SMT DEF HasLength
  <2>2. get32(p) = n
    BY <1>3, <2>1, LongThere
  <2>3. LengthWidth(t) # 1
    BY <1>3
  <2>4. QED
    BY <2>2, <2>3, Zenon DEF LengthAt
<1>4. QED
  BY <1>1, <1>2, <1>3

\* A number of the file as a field has it.
LEMMA StoredIsRead ==
  ASSUME NEW n, Fits(n), (n \div 65536) % 16 = 0
  PROVE  LET s == (n % 65536) + 65536 * (n \div 1048576)
         IN s \in Nat /\ Remap(s) = n /\ CanRemap(s)
<1>1. n \in Nat /\ n <= 2147483647
  BY SMT DEF Fits
<1> DEFINE low == n % 65536
           mid == n \div 65536
           high == n \div 1048576
           s == low + 65536 * high
<1>2. n = low + 65536 * mid /\ low \in Nat /\ low < 65536 /\ mid \in Nat /\ mid < 32768
  BY <1>1, SMT
<1>3. high = mid \div 16
  BY <1>1, SMT
<1>4. mid = 16 * high /\ high \in Nat /\ high < 2048
  <2> HIDE DEF high, low
  <2>1. mid % 16 = 0
    OBVIOUS
  <2> HIDE DEF mid
  <2>2. mid = 16 * (mid \div 16) + (mid % 16)
    BY <1>2, SMT
  <2>3. QED
    BY <1>2, <1>3, <2>1, <2>2, SMT
<1> HIDE DEF low, mid, high
<1>5. s \in Nat /\ s % 65536 = low /\ s \div 65536 = high /\ s < 134217728
  BY <1>2, <1>4, SMT
<1> HIDE DEF s
<1>6. Remap(s) = n
  <2>1. ~(16 * high >= 32768) /\ low + 65536 * (16 * high) = n
    BY <1>2, <1>4, SMT
  <2>2. QED
    BY <1>5, <2>1, SMT DEF Remap, Int32
<1>7. CanRemap(s)
  BY <1>5, SMT DEF CanRemap
<1>8. QED
  BY <1>5, <1>6, <1>7 DEF s, low, high

\* A byte is a number from 0.
LEMMA AtIsNat == ASSUME file \in Files, NEW p \in Nat PROVE At(p) \in Int /\ At(p) >= 0
<1>1. \A b \in Byte : b \in Int /\ b >= 0
  BY DEF Byte
<1>2. QED
  BY <1>1, AtIsByte

\* The bytes of a number are all there, and no more is read.
LEMMA ExtentThere ==
  ASSUME file \in Files, NEW e \in Piece, e.type \in Numbers, IsNumeral(file, e),
         NEW n \in {Extent(e.type, e.at + 1), Len(e.val)}, Has(e.at + 1, n)
  PROVE  Extent(e.type, e.at + 1) = Len(e.val)
<1> DEFINE p == e.at + 1
           v == e.val
           t == e.type
<1>1. /\ v \in Seq(Byte) /\ Lead(t) <= Len(v)
      /\ t = TYPE_COMPLEX => 2 + v[1] <= Len(v)
      /\ Len(v) = Sized(t, v) /\ HasBytes(file, p, v)
  BY Zenon DEF IsNumeral
<1>2. p \in Nat /\ Len(v) \in Nat /\ Len(file.bytes) \in Nat
  <2>1. e.at \in Nat
    BY PieceTypes
  <2>2. QED
    BY <1>1, <2>1, FileFacts, SeqIn
<1>3. n \in {Extent(t, p), Len(v)} /\ Has(p, n)
  OBVIOUS
<1>4. Extent(t, p) \in Nat
  BY <1>2, ExtentIsNat
<1>5. t \in Numbers
  OBVIOUS
<1> HIDE DEF p, v, t
<1>6. \A k \in 1..Len(v) : Has(p, k) => At(p + k - 1) = v[k]
  <2> SUFFICES ASSUME NEW k \in 1..Len(v), Has(p, k) PROVE At(p + k - 1) = v[k]
    OBVIOUS
  <2>1. HasByte(file, p + k - 1, v[k])
    BY <1>1, Zenon DEF HasBytes
  <2>2. k \in Nat /\ k - 1 \in Nat /\ k - 1 + 1 <= k /\ p + (k - 1) = p + k - 1
    BY <1>2
  <2>3. p + k - 1 \in Nat /\ Has(p + k - 1, 1)
    <3>1. p + (k - 1) \in Nat /\ Has(p + (k - 1), 1)
      BY <1>2, <2>2, HasLess
    <3>2. QED
      BY <2>2, <3>1
  <2>4. QED
    BY <2>1, <2>3, ByteThere
<1>7. \A m \in Nat : Has(p, m) => \A k \in Nat : k <= m => Has(p, k)
  BY <1>2 DEF Has
<1>8. \A k \in 1..Len(v) : v[k] \in Int /\ v[k] >= 0
  <2>1. \A k \in 1..Len(v) : v[k] \in Byte
    BY <1>1, SeqIn
  <2>2. \A b \in Byte : b \in Int /\ b >= 0
    BY DEF Byte
  <2>3. QED
    BY <2>1, <2>2
<1>9. CASE t = TYPE_LONG
  <2> DEFINE d == get32(p)
  <2>1. Lead(t) = 4 /\ Extent(t, p) = 4 + 2 * Count(d)
        /\ Sized(t, v) = 4 + 2 * (IF Digits(v) < 0 THEN -Digits(v) ELSE Digits(v))
    BY <1>9, SMT DEF Lead, Extent, Sized, TYPE_LONG, TYPE_FLOAT, TYPE_COMPLEX, TYPE_INT,
       TYPE_INT64, TYPE_BINARY_FLOAT, TYPE_BINARY_COMPLEX
  <2>2. d \in Int /\ Count(d) \in Nat
    BY <1>2, Get32IsInt, CountIsNat
  <2>3. 4 <= n /\ n \in Nat
    <3>1. Extent(t, p) >= 4
      <4> HIDE DEF d
      <4>1. QED
        BY <2>1, <2>2
    <3>2. QED
      BY <1>1, <1>2, <1>3, <1>4, <2>1, <3>1
  <2>4. Has(p, 1) /\ Has(p, 2) /\ Has(p, 3) /\ Has(p, 4)
    BY <1>3, <1>7, <2>3
  <2>5. /\ p + 1 - 1 = p /\ p + 2 - 1 = p + 1 /\ p + 3 - 1 = p + 2 /\ p + 4 - 1 = p + 2 + 1
        /\ 1 \in 1..Len(v) /\ 2 \in 1..Len(v) /\ 3 \in 1..Len(v) /\ 4 \in 1..Len(v)
    BY <1>1, <1>2, <2>1
  <2>6. At(p) = v[1] /\ At(p + 1) = v[2] /\ At(p + 2) = v[3] /\ At(p + 2 + 1) = v[4]
    BY <1>6, <2>4, <2>5
  <2>7. d = Digits(v)
    BY <2>6, Zenon DEF get32, get16, Digits
  <2>8. Digits(v) \in Int
    BY <2>2, <2>7
  <2> HIDE DEF d
  <2> DEFINE D == Digits(v)
             a == IF D < 0 THEN -D ELSE D
  <2>9. Sized(t, v) = 4 + 2 * a /\ D \in Int
    BY <2>1, <2>8
  <2> HIDE DEF D
  <2>10. a \in Nat /\ (n = 4 + 2 * Count(D) \/ n = 4 + 2 * a) /\ Has(p, n)
    BY <1>1, <1>3, <2>1, <2>7, <2>9 DEF D
  <2>11. Count(D) = a
    BY <1>2, <2>9, <2>10 DEF Has, Count
  <2>12. QED
    BY <1>1, <2>1, <2>7, <2>9, <2>11 DEF p, v, t, D
<1>10. CASE t = TYPE_FLOAT
  <2>1. Lead(t) = 1 /\ Extent(t, p) = 1 + At(p) /\ Sized(t, v) = 1 + v[1]
    BY <1>10, SMT DEF Lead, Extent, Sized, TYPE_LONG, TYPE_FLOAT, TYPE_COMPLEX, TYPE_INT,
       TYPE_INT64, TYPE_BINARY_FLOAT, TYPE_BINARY_COMPLEX
  <2>2. At(p) \in Int /\ At(p) >= 0
    BY <1>2, AtIsNat
  <2>3. 1 <= n /\ n \in Nat /\ 1 \in 1..Len(v) /\ p + 1 - 1 = p
    BY <1>1, <1>2, <1>3, <1>4, <2>1, <2>2
  <2>4. At(p) = v[1]
    BY <1>3, <1>6, <1>7, <2>3
  <2>5. QED
    BY <1>1, <2>1, <2>4 DEF p, v, t
<1>11. CASE t = TYPE_COMPLEX
  <2> DEFINE a == At(p)
             b == At(p + 1 + a)
  <2>1. /\ Lead(t) = 2 /\ Extent(t, p) = 2 + a + b
        /\ Sized(t, v) = 2 + v[1] + v[2 + v[1]]
    BY <1>11, SMT DEF Lead, Extent, Sized, TYPE_LONG, TYPE_FLOAT, TYPE_COMPLEX, TYPE_INT,
       TYPE_INT64, TYPE_BINARY_FLOAT, TYPE_BINARY_COMPLEX
  <2>2. a \in Int /\ a >= 0
    BY <1>2, AtIsNat
  <2>3. p + 1 + a \in Nat
    BY <1>2, <2>2
  <2>4. b \in Int /\ b >= 0
    BY <2>3, AtIsNat
  <2>5. 1 \in 1..Len(v) /\ p + 1 - 1 = p /\ n \in Nat /\ 2 <= n
    <3> HIDE DEF a, b
    <3>1. QED
      BY <1>1, <1>2, <1>3, <1>4, <2>1, <2>2, <2>4
  <2>6. a = v[1]
    BY <1>3, <1>6, <1>7, <2>5
  <2>7. v[1] \in Int /\ v[1] >= 0 /\ 2 + v[1] <= Len(v) /\ 2 + v[1] \in 1..Len(v)
    <3>1. v[1] \in Int /\ v[1] >= 0 /\ 2 + v[1] <= Len(v)
      BY <1>1, <1>8, <1>11, <2>5
    <3>2. QED
      BY <1>2, <3>1
  <2>8. 2 + v[1] <= n /\ 2 + v[1] \in Nat /\ p + (2 + v[1]) - 1 = p + 1 + v[1]
    <3> DEFINE z == v[1]
    <3>1. z = a /\ z \in Int /\ z >= 0 /\ 2 + z <= Len(v)
      BY <2>6, <2>7
    <3> HIDE DEF z, a, b
    <3>2. n = 2 + a + b \/ n = Len(v)
      BY <1>3, <2>1
    <3>3. 2 + z <= n /\ 2 + z \in Nat /\ p + (2 + z) - 1 = p + 1 + z
      BY <1>2, <2>4, <3>1, <3>2
    <3>4. QED
      BY <3>3 DEF z
  <2>9. Has(p, 2 + v[1])
    BY <1>3, <1>7, <2>5, <2>8
  <2>10. At(p + (2 + v[1]) - 1) = v[2 + v[1]]
    BY <1>6, <2>7, <2>9
  <2>11. b = v[2 + v[1]]
    BY <2>6, <2>8, <2>10
  <2> HIDE DEF a, b
  <2>12. QED
    BY <1>1, <2>1, <2>6, <2>11 DEF p, v, t
<1>12. CASE t \notin {TYPE_LONG, TYPE_FLOAT, TYPE_COMPLEX}
  <2>1. t \in {TYPE_INT, TYPE_INT64, TYPE_BINARY_FLOAT, TYPE_BINARY_COMPLEX}
    BY <1>5, <1>12 DEF Numbers
  <2>2. Extent(t, p) = Sized(t, v)
    BY <2>1, SMT DEF Extent, Sized, TYPE_INT, TYPE_INT64, TYPE_BINARY_FLOAT, TYPE_BINARY_COMPLEX,
       TYPE_LONG, TYPE_FLOAT, TYPE_COMPLEX
  <2>3. QED
    BY <1>1, <2>2 DEF p, v, t
<1>13. QED
  BY <1>9, <1>10, <1>11, <1>12

----------------------------------------------------------------------------
(* Steps along the listing                                                   *)

\* The type byte of a piece.
LEMMA TypeRead ==
  ASSUME file \in Files, Listed(file), NEW i \in Indices(file), pos = file.pieces[i].at, Has(pos, 1)
  PROVE  /\ pos \in Nat
         /\ TypeByte = file.pieces[i].type /\ (Flagged <=> file.pieces[i].flagged)
         /\ At(pos) = TYPE_OBREF <=> file.pieces[i].type = TYPE_OBREF /\ ~file.pieces[i].flagged
<1> DEFINE e == file.pieces[i]
           b == e.type + (IF e.flagged THEN 128 ELSE 0)
<1>1. /\ e.at \in Nat /\ e.type \in Nat /\ e.type < 128 /\ e.flagged \in BOOLEAN
      /\ IsPiece(file, i, e)
  BY PieceFacts
<1>2. HasByte(file, e.at, b)
  BY <1>1, Zenon DEF IsPiece
<1>3. At(pos) = b
  BY <1>1, <1>2, ByteThere
<1> HIDE DEF e
<1>4. b % 128 = e.type /\ (b >= 128 <=> e.flagged) /\ (b = 114 <=> e.type = 114 /\ ~e.flagged)
  BY <1>1
<1> HIDE DEF b
<1>5. QED
  BY <1>1, <1>3, <1>4 DEF TypeByte, Flagged, TYPE_OBREF, e

\* What a piece is read for.
LEMMA OnPiece ==
  ASSUME FInv, IsListed(file), pc = "object", Has(pos, 1)
  PROVE  \E i \in Indices(file) :
           /\ OnObject(file, heap, frames, refs, interns, pos, i)
           /\ pos = file.pieces[i].at
           /\ TypeByte = file.pieces[i].type /\ (Flagged <=> file.pieces[i].flagged)
           /\ At(pos) = TYPE_OBREF <=> file.pieces[i].type = TYPE_OBREF /\ ~file.pieces[i].flagged
<1>1. IInv /\ Follows
  BY DEF FInv
<1>2. file \in Files /\ Listed(file)
  BY <1>1, ListingsAssumption DEF IInv
<1>3. PICK i \in Indices(file) : OnObject(file, heap, frames, refs, interns, pos, i)
  BY <1>1 DEF Follows
<1>4. pos = file.pieces[i].at
  BY <1>3 DEF OnObject
<1>5. QED
  BY <1>2, <1>3, <1>4, TypeRead

\* What is around a piece stays as it was when the heap grows.
LEMMA AroundKept ==
  ASSUME FInv, NEW i, NEW g, \A x \in 1..Len(heap) : g[x] = heap[x],
         Around(file, heap, frames, i)
  PROVE  Around(file, g, frames, i)
<1>1. Stack(heap, frames) /\ Len(frames) \in Nat
  BY Typed DEF FInv
<1>2. \A k \in 1..Len(frames) : frames[k].obj \in 1..Len(heap)
  BY <1>1, StackFacts
<1>3. \A k \in 1..Len(frames) : g[frames[k].obj].items = heap[frames[k].obj].items
  BY <1>2
<1>4. QED
  BY <1>1, <1>3, UnderKept DEF Around

\* A piece without parts has been read.
LEMMA LeafReturns ==
  ASSUME FInv, IsListed(file), pc = "object", NEW i \in Indices(file),
         OnObject(file, heap, frames, refs, interns, pos, i), file.pieces[i].last = i,
         UNCHANGED <<file, ver, frames>>,
         pos' = file.pieces[i].next, ret' = file.pieces[i].obj, pc' = "return",
         pos' <= Len(file.bytes), \A x \in 1..Len(heap) : heap'[x] = heap[x],
         Objects(file, heap', frames, i), Tables(file, refs', interns', i)
  PROVE  Follows'
<1>1. Around(file, heap, frames, i)
  BY DEF OnObject
<1>2. Around(file, heap', frames, i)
  BY <1>1, AroundKept
<1>3. OnReturn(file, heap', frames, refs', interns', pos', ret', i)
  BY <1>2 DEF OnReturn
<1>4. ver = file.ver
  BY DEF FInv, Follows
<1>5. OnReturn(file', heap', frames', refs', interns', pos', ret', i) /\ i \in Indices(file')
  BY <1>3
<1>6. ver' = file'.ver /\ pos' <= Len(file'.bytes)
  BY <1>4
<1>7. QED
  BY <1>5, <1>6 DEF Follows

\* A new object is filled as far as it is when it is made.
LEMMA NewIsFilled ==
  ASSUME FInv, Listed(file), NEW i \in Indices(file), Creates(file.pieces[i]),
         Objects(file, heap, frames, i - 1), NEW o,
         o.type = file.pieces[i].is, o.items = <<>>,
         o.val = IF file.pieces[i].type \in CodeTypes THEN <<>> ELSE file.pieces[i].val
  PROVE  LET g == Append(heap, o)
         IN /\ Len(g) = Len(heap) + 1 /\ Len(heap) \in Nat
            /\ \A x \in 1..Len(heap) : g[x] = heap[x]
            /\ file.pieces[i].obj = New /\ New \in 1..Len(g) /\ g[New] = o
            /\ New \notin 1..Len(heap)
            /\ Filled(file, g, i)
            /\ Len(g[New].items) = 0
<1> DEFINE e == file.pieces[i]
           g == Append(heap, o)
<1>1. Heap(heap) /\ Len(heap) \in Nat
  BY Typed DEF FInv
<1>2. /\ Len(g) = Len(heap) + 1 /\ g[Len(heap) + 1] = o
      /\ \A x \in 1..Len(heap) : g[x] = heap[x]
  BY <1>1, AppendAny DEF Heap
<1> HIDE DEF g
<1>3. /\ Len(heap) = 5 + Made(file, i - 1) /\ Made(file, i) = Made(file, i - 1) + 1
      /\ e.obj = 5 + Made(file, i) /\ Made(file, i - 1) \in Nat
  BY CountsGrow, CountsAreNat DEF Objects
<1>4. /\ e.obj = New /\ New = Len(heap) + 1 /\ New \in 1..Len(g) /\ New \in 6..Len(g)
      /\ New \notin 1..Len(heap)
  <2> HIDE DEF e
  <2>1. QED
    BY <1>1, <1>2, <1>3 DEF New
<1>5. Len(<<>>) = 0 /\ Len(e.parts) \in Nat /\ Behind(i, e, 0).taken = 0
  BY EmptySeq, PieceFacts DEF Behind
<1>6. 0 <= Elements(e)
  <2>1. e.type = TYPE_DICT => Len(e.parts) % 2 = 1
    BY KindOf, Zenon DEF IsDict
  <2> HIDE DEF e
  <2>2. \A n \in Nat : n % 2 = 1 => 0 <= n - 1
    OBVIOUS
  <2>3. Len(e.parts) \in Nat /\ 0 <= Len(e.parts)
    BY <1>5
  <2>4. QED
    BY <2>1, <2>2, <2>3, Zenon DEF Elements
<1>7. g[e.obj] = o /\ Len(o.items) = 0 /\ (e.type \in CodeTypes => Len(o.val) = 0)
  BY <1>2, <1>4, <1>5
<1>8. \A k : ~(k \in 1..0)
  OBVIOUS
<1>9. o.type = e.is /\ (e.type \notin CodeTypes => o.val = e.val)
  OBVIOUS
<1> HIDE DEF e
<1>10. Filled(file, g, i)
  BY <1>4, <1>5, <1>6, <1>7, <1>8, <1>9 DEF Filled, e
<1>11. QED
  BY <1>1, <1>2, <1>4, <1>7, <1>10 DEF e, g

\* References, nulls and singletons create no object.
LEMMA NotMade ==
  ASSUME NEW e, \/ e.type = TYPE_OBREF \/ e.type = TYPE_NULL \/ \E s \in 1..5 : e.type = Singletons[s]
  PROVE  ~Creates(e) /\ e.type \notin Holders /\ e.type \notin Interned
<1>1. e.type \notin Holders
  BY HoldersApart
<1>2. e.type \notin Texts \cup Numbers \cup {TYPE_STRINGREF}
  BY <1>1, LeavesApart
<1>3. e.type \notin Interned
  BY <1>1, LeavesApart
<1>4. QED
  BY <1>1, <1>2, <1>3 DEF Creates

\* What FInv says of a file with a listing.
LEMMA Facts ==
  ASSUME FInv, IsListed(file)
  PROVE  /\ file \in Files /\ Listed(file) /\ Len(file.bytes) \in Nat
         /\ pos \in Nat /\ Heap(heap) /\ Len(heap) \in Nat /\ Len(heap) >= 5 /\ 1 \in 1..Len(heap)
         /\ refs \in Seq(1..Len(heap)) /\ interns \in Seq(1..Len(heap))
         /\ Len(refs) \in Nat /\ Len(interns) \in Nat
         /\ Len(frames) \in Nat /\ Stack(heap, frames)
         /\ ret \in 0..Len(heap)
         /\ Books(heap, frames, Layout(ver))
<1>1. IInv
  BY DEF FInv
<1>2. /\ file \in Files /\ pos \in Nat /\ Heap(heap) /\ Len(heap) \in Nat /\ Len(heap) >= 5
      /\ refs \in Seq(1..Len(heap)) /\ interns \in Seq(1..Len(heap))
      /\ Len(frames) \in Nat /\ Stack(heap, frames) /\ ret \in 0..Len(heap)
      /\ Books(heap, frames, Layout(ver))
  BY <1>1, Typed
<1>3. Listed(file) /\ Len(file.bytes) \in Nat
  BY <1>2, FileFacts, ListingsAssumption
<1>4. Len(refs) \in Nat /\ Len(interns) \in Nat
  BY <1>2, SeqIn
<1>5. 1 \in 1..Len(heap)
  BY <1>2
<1>6. QED
  BY <1>2, <1>3, <1>4, <1>5

\* Both tables after one more piece.
LEMMA TablesStep ==
  ASSUME FInv, IsListed(file), NEW i \in Indices(file), Tables(file, refs, interns, i - 1),
         refs' = IF file.pieces[i].flagged THEN Append(refs, file.pieces[i].obj) ELSE refs,
         interns' = IF file.pieces[i].type \in Interned
                    THEN Append(interns, file.pieces[i].obj) ELSE interns
  PROVE  Tables(file, refs', interns', i)
<1> DEFINE S == 1..Len(heap)
<1>1. Listed(file) /\ refs \in Seq(S) /\ interns \in Seq(S)
  BY Facts
<1>2. \A r \in Seq(S) : \A t \in Seq(S) : \A q, u :
        /\ Tables(file, r, t, i - 1)
        /\ q = IF file.pieces[i].flagged THEN Append(r, file.pieces[i].obj) ELSE r
        /\ u = IF file.pieces[i].type \in Interned THEN Append(t, file.pieces[i].obj) ELSE t
        => Tables(file, q, u, i)
  BY <1>1, TablesMore
<1> HIDE DEF S
<1>3. QED
  BY <1>1, <1>2, Zenon

\* Bytes behind a type byte, counted from the type byte.
LEMMA HasMeans ==
  ASSUME file \in Files, NEW p \in Nat, NEW n \in Nat, Has(p + 1, n)
  PROVE  p + (1 + n) <= Len(file.bytes) /\ p + 1 \in Nat
<1>1. Len(file.bytes) \in Nat
  BY FileFacts
<1>2. QED
  BY <1>1 DEF Has

\* Each way to read an object without parts leaves the reader behind its piece.
LEMMA FollowReference == ASSUME FInv, IsListed(file), LoadReference PROVE Follows'
<1>1. /\ pc = "object" /\ Readable /\ At(pos) = TYPE_OBREF
      /\ ret' = refs[get32(pos + 1) + 1] /\ pc' = "return" /\ pos' = pos + 5
      /\ UNCHANGED <<file, ver, heap, refs, interns, frames>>
  BY DEF LoadReference, Loading, Return
<1>2. Has(pos, 1) /\ IndexIsGood(pos + 1, Len(refs))
  BY <1>1 DEF Readable
<1>3. PICK i \in Indices(file) :
        /\ OnObject(file, heap, frames, refs, interns, pos, i) /\ pos = file.pieces[i].at
        /\ file.pieces[i].type = TYPE_OBREF /\ ~file.pieces[i].flagged
  BY <1>1, <1>2, OnPiece
<1> DEFINE e == file.pieces[i]
           to == file.pieces[e.to]
<1>4. /\ e.to \in 1..(i - 1) /\ to.flagged /\ HasLong(file, pos + 1, to.noted - 1)
      /\ e.obj = to.obj /\ e.next = pos + 5
  <2>1. IsReference(file, i, e)
    BY <1>3, Facts, KindOf
  <2>2. QED
    BY <1>3, <2>1, Zenon DEF IsReference
<1>5. Has(pos + 1, 4)
  BY <1>2 DEF IndexIsGood
<1>6. get32(pos + 1) = to.noted - 1
  <2>1. pos + 1 \in Nat
    BY Facts
  <2>2. QED
    BY <1>4, <1>5, <2>1, Facts, LongThere
<1>7. Objects(file, heap, frames, i - 1) /\ Tables(file, refs, interns, i - 1)
  BY <1>3 DEF OnObject
<1>8. to.noted \in 1..Len(refs) /\ refs[to.noted] = to.obj
  BY <1>4, <1>7, Zenon DEF Tables
<1>9. ret' = e.obj
  <2>1. to.noted - 1 + 1 = to.noted
    BY <1>8
  <2>2. QED
    BY <1>1, <1>4, <1>6, <1>8, <2>1
<1>10. ~Creates(e) /\ e.type \notin Holders /\ e.type \notin Interned
  BY <1>3, NotMade
<1>11. e.last = i
  BY <1>10, Facts, HolderFacts
<1>12. Objects(file, heap', frames, i)
  BY <1>1, <1>7, <1>10, Facts, ObjectsSame
<1>13. Tables(file, refs', interns', i)
  BY <1>1, <1>3, <1>7, <1>10, Facts, TablesMore
<1>14. pos' <= Len(file.bytes)
  <2>1. pos + (1 + 4) <= Len(file.bytes)
    BY <1>5, Facts, HasMeans
  <2>2. QED
    BY <1>1, <2>1, Facts
<1>15. pos' = e.next
  BY <1>1, <1>4
<1>16. \A x \in 1..Len(heap) : heap'[x] = heap[x]
  BY <1>1
<1>17. QED
  BY <1>1, <1>3, <1>9, <1>11, <1>12, <1>13, <1>14, <1>15, <1>16, LeafReturns

\* The groups of types are types.
LEMMA KnownTypes ==
  /\ Numbers \subseteq Types /\ Texts \subseteq Types /\ Series \subseteq Types
  /\ CodeTypes \subseteq Types /\ Holders \subseteq Types
  /\ TYPE_DICT \in Types /\ TYPE_STRINGREF \in Types
  /\ \A s \in 1..5 : Singletons[s] \in Types
BY DEF Types, Strings, Holders

LEMMA FollowNothing == ASSUME FInv, IsListed(file), LoadNothing PROVE Follows'
<1>1. /\ pc = "object" /\ Readable /\ At(pos) # TYPE_OBREF /\ TypeByte \notin Types
      /\ ret' = 0 /\ pc' = "return" /\ pos' = pos + 1
      /\ UNCHANGED <<file, ver, heap, refs, interns, frames>>
  BY DEF LoadNothing, Loading, Return
<1>2. Has(pos, 1)
  BY <1>1 DEF Readable
<1>3. PICK i \in Indices(file) :
        /\ OnObject(file, heap, frames, refs, interns, pos, i) /\ pos = file.pieces[i].at
        /\ file.pieces[i].type \notin Types
        /\ ~(file.pieces[i].type = TYPE_OBREF /\ ~file.pieces[i].flagged)
  BY <1>1, <1>2, OnPiece
<1> DEFINE e == file.pieces[i]
<1>4. e.type = TYPE_NULL /\ ~e.flagged /\ e.obj = 0 /\ e.next = pos + 1
  <2>1. ~Creates(e)
    BY <1>3, KnownTypes DEF Creates
  <2>2. e.type = TYPE_OBREF => ~e.flagged
    BY Facts, KindOf, Zenon DEF IsReference
  <2>3. \A s \in 1..5 : e.type # Singletons[s]
    BY <1>3, KnownTypes
  <2>4. e.type = TYPE_NULL
    BY <1>3, <2>1, <2>2, <2>3, Facts, KindOf
  <2>5. QED
    BY <1>3, <2>4, Facts, KindOf
<1>5. Objects(file, heap, frames, i - 1) /\ Tables(file, refs, interns, i - 1)
  BY <1>3 DEF OnObject
<1>6. ~Creates(e) /\ e.type \notin Holders /\ e.type \notin Interned
  BY <1>4, NotMade
<1>7. e.last = i
  BY <1>6, Facts, HolderFacts
<1>8. Objects(file, heap', frames, i)
  BY <1>1, <1>5, <1>6, Facts, ObjectsSame
<1>9. Tables(file, refs', interns', i)
  BY <1>1, <1>4, <1>5, <1>6, Facts, TablesMore
<1>10. pos' <= Len(file.bytes)
  BY <1>1, <1>2 DEF Has
<1>11. pos' = e.next /\ ret' = e.obj /\ \A x \in 1..Len(heap) : heap'[x] = heap[x]
  BY <1>1, <1>4
<1>12. QED
  BY <1>1, <1>3, <1>7, <1>8, <1>9, <1>10, <1>11, LeafReturns

LEMMA FollowSingleton == ASSUME FInv, IsListed(file), LoadSingleton PROVE Follows'
<1>1. PICK s \in 1..5 :
        /\ pc = "object" /\ Readable /\ TypeByte = Singletons[s]
        /\ ret' = s /\ pc' = "return" /\ pos' = pos + 1
        /\ refs' = IF Flagged THEN Append(refs, s) ELSE refs
        /\ UNCHANGED <<file, ver, heap, interns, frames>>
  BY DEF LoadSingleton, Loading, Return
<1>2. Has(pos, 1)
  BY <1>1 DEF Readable
<1>3. PICK i \in Indices(file) :
        /\ OnObject(file, heap, frames, refs, interns, pos, i) /\ pos = file.pieces[i].at
        /\ file.pieces[i].type = Singletons[s] /\ (Flagged <=> file.pieces[i].flagged)
  BY <1>1, <1>2, OnPiece
<1> DEFINE e == file.pieces[i]
<1>4. e.obj = s /\ e.next = pos + 1
  BY <1>3, Facts, KindOf
<1>5. Objects(file, heap, frames, i - 1) /\ Tables(file, refs, interns, i - 1)
  BY <1>3 DEF OnObject
<1>6. ~Creates(e) /\ e.type \notin Holders /\ e.type \notin Interned
  BY <1>3, NotMade
<1>7. e.last = i
  BY <1>6, Facts, HolderFacts
<1>8. Objects(file, heap', frames, i)
  BY <1>1, <1>5, <1>6, Facts, ObjectsSame
<1>9. Tables(file, refs', interns', i)
  <2>1. refs' = IF e.flagged THEN Append(refs, e.obj) ELSE refs
    BY <1>1, <1>3, <1>4, Zenon
  <2>2. interns' = IF e.type \in Interned THEN Append(interns, e.obj) ELSE interns
    BY <1>1, <1>6, Zenon
  <2>3. QED
    BY <1>5, <2>1, <2>2, TablesStep
<1>10. pos' <= Len(file.bytes)
  BY <1>1, <1>2 DEF Has
<1>11. pos' = e.next /\ ret' = e.obj /\ \A x \in 1..Len(heap) : heap'[x] = heap[x]
  BY <1>1, <1>4
<1>12. QED
  BY <1>1, <1>3, <1>7, <1>8, <1>9, <1>10, <1>11, LeafReturns

\* An object without parts has been read.
LEMMA LeafCreated ==
  ASSUME FInv, IsListed(file), pc = "object", NEW i \in Indices(file),
         OnObject(file, heap, frames, refs, interns, pos, i), Creates(file.pieces[i]),
         file.pieces[i].type \notin Holders
           \/ (file.pieces[i].type \in Series /\ Len(file.pieces[i].parts) = 0),
         Flagged <=> file.pieces[i].flagged,
         NEW o, o.type = file.pieces[i].is, o.items = <<>>, o.val = file.pieces[i].val,
         heap' = Append(heap, o), refs' = IF Flagged THEN Append(refs, New) ELSE refs,
         interns' = IF file.pieces[i].type \in Interned THEN Append(interns, New) ELSE interns,
         ret' = New, pos' = file.pieces[i].next, pos' <= Len(file.bytes), pc' = "return",
         UNCHANGED <<file, ver, frames>>
  PROVE  Follows'
<1> DEFINE e == file.pieces[i]
<1>1. Objects(file, heap, frames, i - 1) /\ Tables(file, refs, interns, i - 1)
  BY DEF OnObject
<1>2. e.type \notin CodeTypes /\ e.type # TYPE_DICT
  <2>1. e.type \in Series => e.type \notin CodeTypes /\ e.type # TYPE_DICT
    BY TypesApart
  <2>2. QED
    BY <2>1 DEF Holders
<1>3. /\ Len(heap') = Len(heap) + 1 /\ Len(heap) \in Nat
      /\ \A x \in 1..Len(heap) : heap'[x] = heap[x]
      /\ e.obj = New /\ Filled(file, heap', i) /\ Len(heap'[New].items) = 0
  BY <1>1, <1>2, Facts, NewIsFilled
<1>4. Len(e.parts) = 0 /\ e.last = i
  <2>1. Len(<<>>) = 0 /\ Behind(i, e, 0).last = i
    BY EmptySeq DEF Behind
  <2>2. /\ e.type \notin Holders => e.parts = <<>>
        /\ e.last = Behind(i, e, Len(e.parts)).last
    BY Facts, HolderFacts
  <2>3. QED
    BY <2>1, <2>2, Zenon
<1>5. Ended(file, heap', i)
  <2>2. Elements(e) = 0
    BY <1>2, <1>4, Zenon DEF Elements
  <2>3. QED
    BY <1>3, <2>2, Zenon DEF Ended
<1>6. Objects(file, heap', frames, i)
  BY <1>1, <1>3, <1>5, Facts, ObjectsMore
<1>7. Tables(file, refs', interns', i)
  <2>1. /\ refs' = IF e.flagged THEN Append(refs, e.obj) ELSE refs
        /\ interns' = IF e.type \in Interned THEN Append(interns, e.obj) ELSE interns
    BY <1>3, Zenon
  <2>2. QED
    BY <1>1, <2>1, TablesStep
<1>8. ret' = e.obj
  BY <1>3
<1>9. QED
  BY <1>3, <1>4, <1>6, <1>7, <1>8, LeafReturns

\* A new object has the type and the value it is made with.
LEMMA NewObject ==
  ASSUME NEW t, NEW v, NEW n
  PROVE  /\ Object(t, v, n).type = t /\ Object(t, v, n).val = v
         /\ Object(t, v, n).items = <<>> /\ Object(t, v, n).size = n
BY DEF Object

LEMMA FollowNumber == ASSUME FInv, IsListed(file), LoadNumber PROVE Follows'
<1> DEFINE n == Extent(TypeByte, pos + 1)
           o == Object(TypeByte, Slice(pos + 1, n), 0)
<1>1. /\ pc = "object" /\ Readable /\ TypeByte \in Numbers
      /\ heap' = Append(heap, o) /\ refs' = (IF Flagged THEN Append(refs, New) ELSE refs)
      /\ ret' = New /\ pc' = "return" /\ pos' = pos + (1 + n)
      /\ UNCHANGED <<file, ver, interns, frames>>
  BY DEF LoadNumber, Loading, Create, Return
<1>2. Has(pos, 1) /\ Has(pos + 1, n)
  BY <1>1 DEF Readable
<1>3. PICK i \in Indices(file) :
        /\ OnObject(file, heap, frames, refs, interns, pos, i) /\ pos = file.pieces[i].at
        /\ TypeByte = file.pieces[i].type /\ (Flagged <=> file.pieces[i].flagged)
  BY <1>1, <1>2, OnPiece
<1> DEFINE e == file.pieces[i]
<1>4. IsNumeral(file, e) /\ e \in Piece /\ e.type \in Numbers /\ e.at \in Nat
  BY <1>1, <1>3, Facts, KindOf, PieceFacts
<1>5. /\ e.val \in Seq(Byte) /\ HasBytes(file, e.at + 1, e.val) /\ e.next = e.at + 1 + Len(e.val)
      /\ Len(e.val) \in Nat
  <2>1. e.val \in Seq(Byte) /\ HasBytes(file, e.at + 1, e.val) /\ e.next = e.at + 1 + Len(e.val)
    BY <1>4, Zenon DEF IsNumeral
  <2>2. QED
    BY <2>1, SeqIn
<1>6. n = Len(e.val)
  <2>1. n = Extent(e.type, e.at + 1) /\ Has(e.at + 1, Extent(e.type, e.at + 1))
    BY <1>2, <1>3
  <2>2. QED
    BY <1>4, <2>1, Facts, ExtentThere
<1>7. Slice(pos + 1, n) = e.val
  <2>1. pos + 1 \in Nat
    BY Facts
  <2>2. QED
    BY <1>2, <1>3, <1>5, <1>6, <2>1, Facts, TextThere
<1>8. pos' = e.next /\ pos' <= Len(file.bytes)
  <2> DEFINE N == Len(e.val)
             q == e.next
  <2>1. N \in Nat /\ pos \in Nat /\ q = pos + 1 + N /\ pos' = pos + (1 + N) /\ pos + 1 + N <= Len(file.bytes)
    BY <1>1, <1>2, <1>3, <1>5, <1>6, Facts DEF Has
  <2> HIDE DEF N, q
  <2>2. pos' = q /\ pos' <= Len(file.bytes)
    BY <2>1, Facts
  <2>3. QED
    BY <2>2 DEF q
<1>9. /\ Creates(e) /\ e.type \notin Holders /\ e.type \notin Interned /\ e.is = e.type
  <2>1. e.type \notin Holders /\ e.type \notin Interned
    BY <1>4, HoldersApart, LeavesApart
  <2>2. Creates(e) /\ e.type # TYPE_STRINGREF
    BY <1>4, <2>1, LeavesApart DEF Creates
  <2>3. QED
    BY <2>1, <2>2, Facts, HolderFacts
<1>10. o.type = e.is /\ o.items = <<>> /\ o.val = e.val
  BY <1>3, <1>7, <1>9, NewObject
<1>11. interns' = IF e.type \in Interned THEN Append(interns, New) ELSE interns
  BY <1>1, <1>9, Zenon
<1> HIDE DEF o
<1>12. QED
  BY <1>1, <1>3, <1>8, <1>9, <1>10, <1>11, LeafCreated

LEMMA FollowText == ASSUME FInv, IsListed(file), LoadText PROVE Follows'
<1> DEFINE text == TextAt(TypeByte, pos + 1)
           w == LengthWidth(TypeByte)
           o == Object(TypeByte, text, 0)
<1>1. /\ pc = "object" /\ Readable /\ TypeByte \in Texts
      /\ heap' = Append(heap, o) /\ refs' = (IF Flagged THEN Append(refs, New) ELSE refs)
      /\ interns' = (IF TypeByte \in Interned THEN Append(interns, New) ELSE interns)
      /\ ret' = New /\ pc' = "return" /\ pos' = pos + (1 + w + Len(text))
      /\ UNCHANGED <<file, ver, frames>>
  BY DEF LoadText, Loading, Create, Return
<1>2. /\ Has(pos, 1) /\ Has(pos + 1, w) /\ LengthAt(TypeByte, pos + 1) >= 0
      /\ Has(pos + 1, w + Count(LengthAt(TypeByte, pos + 1)))
  BY <1>1 DEF Readable, TextIsGood
<1>3. PICK i \in Indices(file) :
        /\ OnObject(file, heap, frames, refs, interns, pos, i) /\ pos = file.pieces[i].at
        /\ TypeByte = file.pieces[i].type /\ (Flagged <=> file.pieces[i].flagged)
  BY <1>1, <1>2, OnPiece
<1> DEFINE e == file.pieces[i]
           N == Len(e.val)
<1>4. IsText(file, e) /\ e.val \in Seq(Int) /\ N \in Nat /\ e.at \in Nat
  BY <1>1, <1>3, Facts, KindOf, PieceFacts
<1>5. /\ HasLength(file, TypeByte, pos + 1, N) /\ HasBytes(file, pos + 1 + w, e.val)
      /\ e.next = pos + 1 + w + N
  BY <1>3, <1>4, Zenon DEF IsText
<1>6. pos + 1 \in Nat /\ w \in Nat /\ pos \in Nat /\ Len(file.bytes) \in Nat /\ pos + 1 + w \in Nat
  <2>1. w \in {1, 4}
    BY DEF LengthWidth
  <2> HIDE DEF w
  <2>2. QED
    BY <2>1, Facts
<1>7. LengthAt(TypeByte, pos + 1) = N
  <2> HIDE DEF N
  <2>1. QED
    BY <1>2, <1>4, <1>5, <1>6, Facts, LengthThere
<1>8. Has(pos + 1, w + N)
  <2> DEFINE L == Len(file.bytes)
  <2>1. Has(pos + 1, w + Count(N))
    BY <1>2, <1>7
  <2>2. pos + 1 + (w + Count(N)) <= L
    BY <2>1 DEF Has
  <2>3. Count(N) = IF N > L + 1 \/ N < -(L + 1) THEN L + 1 ELSE IF N < 0 THEN -N ELSE N
    BY Zenon DEF Count
  <2> HIDE DEF N, w, L
  <2>4. pos + 1 + (w + N) <= L
    <3>1. L \in Nat
      BY <1>6 DEF L
    <3>2. CASE N > L + 1
      BY <1>4, <1>6, <2>2, <2>3, <3>1, <3>2
    <3>3. CASE ~(N > L + 1)
      BY <1>4, <1>6, <2>2, <2>3, <3>1, <3>3
    <3>4. QED
      BY <3>2, <3>3
  <2>5. QED
    BY <2>4 DEF Has, L
<1>9. text = e.val
  <2>1. Has(pos + 1 + w, N)
    <3> HIDE DEF w, N
    <3>1. QED
      BY <1>4, <1>6, <1>8 DEF Has
  <2>2. Slice(pos + 1 + w, N) = e.val
    BY <1>4, <1>5, <1>6, <2>1, Facts, TextThere
  <2>3. QED
    BY <1>7, <2>2 DEF TextAt
<1>10. pos' = e.next /\ pos' <= Len(file.bytes)
  <2> DEFINE q == e.next
  <2>1. pos' = pos + (1 + w + N) /\ q = pos + 1 + w + N /\ pos + 1 + (w + N) <= Len(file.bytes)
    BY <1>1, <1>5, <1>8, <1>9 DEF Has
  <2> HIDE DEF q, w, N
  <2>2. pos' = q /\ pos' <= Len(file.bytes)
    BY <1>4, <1>6, <2>1
  <2>3. QED
    BY <2>2 DEF q
<1>11. Creates(e) /\ e.type \notin Holders /\ e.is = e.type
  <2>1. e.type \in Texts
    BY <1>1, <1>3
  <2>2. e.type \notin Holders
    BY <2>1, HoldersApart
  <2>3. Creates(e) /\ e.type # TYPE_STRINGREF
    BY <2>1, <2>2, LeavesApart DEF Creates
  <2>4. QED
    BY <2>2, <2>3, Facts, HolderFacts
<1>12. o.type = e.is /\ o.items = <<>> /\ o.val = e.val
  BY <1>3, <1>9, <1>11, NewObject
<1>13. interns' = IF e.type \in Interned THEN Append(interns, New) ELSE interns
  BY <1>1, <1>3, Zenon
<1> HIDE DEF o
<1>14. QED
  BY <1>1, <1>3, <1>10, <1>11, <1>12, <1>13, LeafCreated

LEMMA FollowStringRef == ASSUME FInv, IsListed(file), LoadStringRef PROVE Follows'
<1> DEFINE str == heap[interns[get32(pos + 1) + 1]]
           o == Object(str.type, str.val, 0)
<1>1. /\ pc = "object" /\ Readable /\ TypeByte = TYPE_STRINGREF
      /\ heap' = Append(heap, o) /\ refs' = (IF Flagged THEN Append(refs, New) ELSE refs)
      /\ ret' = New /\ pc' = "return" /\ pos' = pos + 5
      /\ UNCHANGED <<file, ver, interns, frames>>
  BY DEF LoadStringRef, Loading, Create, Return
<1>2. Has(pos, 1) /\ Has(pos + 1, 4)
  BY <1>1 DEF Readable, IndexIsGood
<1>3. PICK i \in Indices(file) :
        /\ OnObject(file, heap, frames, refs, interns, pos, i) /\ pos = file.pieces[i].at
        /\ TypeByte = file.pieces[i].type /\ (Flagged <=> file.pieces[i].flagged)
  BY <1>1, <1>2, OnPiece
<1> DEFINE e == file.pieces[i]
           j == e.to
           to == file.pieces[j]
<1>4. /\ j \in 1..(i - 1) /\ to.type \in Interned /\ HasLong(file, pos + 1, to.kept - 1)
      /\ e.val = to.val /\ e.is = to.type /\ e.next = pos + 5
  <2>1. IsStringReference(file, i, e)
    BY <1>1, <1>3, Facts, KindOf
  <2>2. QED
    BY <1>3, <2>1, Zenon DEF IsStringReference
<1>5. get32(pos + 1) = to.kept - 1
  <2>1. pos + 1 \in Nat
    BY Facts
  <2>2. QED
    BY <1>2, <1>4, <2>1, Facts, LongThere
<1>6. Objects(file, heap, frames, i - 1) /\ Tables(file, refs, interns, i - 1)
  BY <1>3 DEF OnObject
<1>7. to.kept \in 1..Len(interns) /\ interns[to.kept] = to.obj
  BY <1>4, <1>6, Zenon DEF Tables
<1>8. str = heap[to.obj]
  <2>1. to.kept - 1 + 1 = to.kept
    BY <1>7
  <2>2. QED
    BY <1>5, <1>7, <2>1
<1>9. to.type \in Texts /\ to.type \notin Holders /\ to.type \notin CodeTypes
  <2>1. to.type \notin Holders
    BY <1>4, HoldersApart
  <2>2. QED
    BY <1>4, <2>1, LeavesApart DEF Holders
<1>10. Creates(to) /\ j \in Indices(file) /\ to.is = to.type
  <2>1. Creates(to) /\ to.type # TYPE_STRINGREF
    BY <1>9, LeavesApart DEF Creates
  <2>2. j \in Indices(file)
    <3> HIDE DEF j
    <3>1. i \in 1..Len(file.pieces) /\ Len(file.pieces) \in Nat
      BY <1>3, Facts, PieceFacts DEF Indices
    <3>2. QED
      BY <1>4, <3>1 DEF Indices
  <2>3. QED
    BY <2>1, <2>2, Facts, HolderFacts
<1>11. heap[to.obj].type = to.is /\ heap[to.obj].val = to.val
  <2>1. Filled(file, heap, j)
    BY <1>4, <1>6, <1>10, Zenon DEF Objects
  <2>2. QED
    BY <1>9, <2>1, Zenon DEF Filled
<1>12. pos' = e.next /\ pos' <= Len(file.bytes)
  <2>1. pos + 1 + 4 <= Len(file.bytes)
    BY <1>2 DEF Has
  <2>2. QED
    BY <1>1, <1>4, <2>1, Facts
<1>13. Creates(e) /\ e.type \notin Holders /\ e.type \notin Interned
  <2>1. e.type = TYPE_STRINGREF
    BY <1>1, <1>3
  <2>2. e.type \notin Holders
    BY <2>1, HoldersApart
  <2>3. QED
    BY <2>1, <2>2, LeavesApart DEF Creates
<1>14. o.type = e.is /\ o.items = <<>> /\ o.val = e.val
  <2>1. str.type = e.is /\ str.val = e.val
    BY <1>4, <1>8, <1>10, <1>11, Zenon
  <2>2. QED
    BY <2>1, NewObject
<1>15. interns' = IF e.type \in Interned THEN Append(interns, New) ELSE interns
  BY <1>1, <1>13, Zenon
<1> HIDE DEF o
<1>16. QED
  BY <1>1, <1>3, <1>12, <1>13, <1>14, <1>15, LeafCreated

\* The parts of a sequence or a dict are objects.
LEMMA PartsAreObjects ==
  ASSUME NEW f, Listed(f), NEW i \in Indices(f),
         f.pieces[i].type \in Series \cup {TYPE_DICT}, NEW k \in 1..Len(f.pieces[i].parts)
  PROVE  /\ IsPart(f, i, f.pieces[i], k) /\ f.pieces[i].parts[k].piece # 0
         /\ f.pieces[i].type \in Holders
<1> DEFINE e == f.pieces[i]
<1>1. IsPart(f, i, e, k)
  <2>1. CASE e.type \in Series
    <3>1. IsSeries(f, i, e)
      BY <2>1, KindOf
    <3>2. QED
      BY <3>1, Zenon DEF IsSeries
  <2>2. CASE e.type = TYPE_DICT
    <3>1. IsDict(f, i, e)
      BY <2>2, KindOf
    <3>2. QED
      BY <3>1, Zenon DEF IsDict
  <2>3. QED
    BY <2>1, <2>2
<1>2. e.parts[k].piece = Behind(i, e, k - 1).last + 1
  BY <1>1, Zenon DEF IsPart
<1>3. k - 1 \in 0..Len(e.parts)
  BY PieceFacts
<1>4. Behind(i, e, k - 1).last \in Nat
  BY <1>3, BehindFacts
<1>5. e.parts[k].piece # 0
  <2> HIDE DEF e
  <2>1. QED
    BY <1>2, <1>4
<1>6. QED
  BY <1>1, <1>5 DEF Holders

\* A code object has the parts that the reader knows of.
LEMMA CodeParts ==
  ASSUME NEW f, Listed(f), NEW i \in Indices(f), f.pieces[i].type \in CodeTypes
  PROVE  /\ Len(f.pieces[i].parts) = Len(Layout(f.ver))
         /\ \A k \in 1..Len(f.pieces[i].parts) :
              IsFieldPart(f, i, f.pieces[i], k, Layout(f.ver)[k])
         /\ Len(f.pieces[i].val) = Behind(i, f.pieces[i], Len(f.pieces[i].parts)).taken
<1> DEFINE e == f.pieces[i]
<1>1. IsCode(f, i, e)
  BY KindOf
<1>2. FieldsOf(f.ver) = Layout(f.ver)
  BY ListingFacts, LayoutAssumption
<1> HIDE DEF e
<1>3. /\ Len(e.parts) = Len(Layout(f.ver))
      /\ \A k \in 1..Len(e.parts) : IsFieldPart(f, i, e, k, Layout(f.ver)[k])
      /\ Len(e.val) = Behind(i, e, Len(e.parts)).taken
  BY <1>1, <1>2, Zenon DEF IsCode
<1>4. QED
  BY <1>3 DEF e

\* load() starts on the parts of a new object.
LEMMA StartsOn ==
  ASSUME FInv, IsListed(file), pc = "object", NEW i \in Indices(file),
         OnObject(file, heap, frames, refs, interns, pos, i),
         file.pieces[i].type \in Holders, 1 <= Len(file.pieces[i].parts),
         Flagged <=> file.pieces[i].flagged,
         NEW o, o.type = file.pieces[i].is, o.items = <<>>,
         o.val = IF file.pieces[i].type \in CodeTypes THEN <<>> ELSE file.pieces[i].val,
         heap' = Append(heap, o), refs' = IF Flagged THEN Append(refs, New) ELSE refs,
         frames' = Append(frames, [obj |-> New, left |-> Left(file.pieces[i], 1)]),
         pos' = file.pieces[i].at + 1 + LeadOf(file.pieces[i]),
         UNCHANGED <<file, ver, interns>>
  PROVE  OnField(file, heap', frames', refs', interns', pos', i, 1)
<1> DEFINE e == file.pieces[i]
           x == [obj |-> New, left |-> Left(e, 1)]
<1>1. /\ Objects(file, heap, frames, i - 1) /\ Tables(file, refs, interns, i - 1)
      /\ Len(frames) = Len(e.way) - 1 /\ Under(file, heap, frames, e.way, Len(frames))
  BY DEF OnObject, Around
<1>2. Creates(e)
  BY Facts, HolderFacts
<1>3. /\ Len(heap') = Len(heap) + 1 /\ Len(heap) \in Nat
      /\ \A k \in 1..Len(heap) : heap'[k] = heap[k]
      /\ e.obj = New /\ Filled(file, heap', i) /\ Len(heap'[New].items) = 0
  BY <1>1, <1>2, Facts, NewIsFilled
<1>4. /\ Len(frames) \in Nat /\ \A k \in 1..Len(frames) : frames[k].obj \in 1..Len(heap)
  BY Facts, StackFacts
<1>5. x.obj = New /\ x.left = Left(e, 1)
  OBVIOUS
<1>6. /\ Len(frames') = Len(frames) + 1 /\ frames'[Len(frames) + 1] = x
      /\ \A k \in 1..Len(frames) : frames'[k] = frames[k]
  <2> HIDE DEF x
  <2>1. frames \in Seq([obj : 1..Len(heap), left : Nat \ {0}]) /\ frames' = Append(frames, x)
    BY Facts DEF Stack, x
  <2>2. QED
    BY <2>1, AppendAny
<1> HIDE DEF x
<1>7. Under(file, heap', frames', e.way, Len(frames))
  <2>1. \A k \in 1..Len(frames) :
          frames'[k] = frames[k] /\ heap'[frames[k].obj].items = heap[frames[k].obj].items
    BY <1>3, <1>4, <1>6
  <2>2. \A g, fs : (\A k \in 1..Len(frames) :
                      fs[k] = frames[k] /\ g[frames[k].obj].items = heap[frames[k].obj].items)
                   => Under(file, g, fs, e.way, Len(frames))
    <3> DEFINE W == e.way
               n == Len(frames)
    <3>1. n \in Nat /\ Under(file, heap, frames, W, n)
      BY <1>1, <1>4
    <3> HIDE DEF W, n
    <3>2. \A g, fs : (\A k \in 1..n : fs[k] = frames[k] /\ g[frames[k].obj].items = heap[frames[k].obj].items)
                     => Under(file, g, fs, W, n)
      BY <3>1, UnderKept, Zenon
    <3>3. QED
      BY <3>2 DEF W, n
  <2>3. QED
    BY <2>1, <2>2, Zenon
<1>8. Len(frames') = Len(e.way) /\ Len(frames') - 1 = Len(frames) /\ frames' # <<>>
  <2>1. Len(e.way) \in Nat
    BY OneAround, Facts
  <2>2. Len(frames') # 0 /\ Len(<<>>) = 0
    BY <1>4, <1>6, EmptySeq
  <2>3. frames' # <<>>
    BY <2>2
  <2> HIDE DEF e
  <2>4. QED
    BY <1>1, <1>4, <1>6, <2>1, <2>3
<1>9. Waits(file, heap', frames'[Len(frames')], i, 1)
  <2>1. frames'[Len(frames')] = x
    BY <1>6
  <2>2. x.obj = e.obj /\ heap'[x.obj] = heap'[New]
    BY <1>3, <1>5
  <2>3. Len(heap'[x.obj].items) + 1 = 1
    <3>1. Len(heap'[x.obj].items) = 0
      BY <1>3, <2>2, Zenon
    <3>2. 0 + 1 = 1
      OBVIOUS
    <3>3. QED
      BY <3>1, <3>2, Zenon
  <2>4. 1 \in 1..Len(e.parts)
    BY Facts, PieceFacts
  <2>5. QED
    BY <1>5, <2>1, <2>2, <2>3, <2>4, Zenon DEF Waits
<1>10. Behind(i, e, 1 - 1).last = i /\ pos' = Behind(i, e, 1 - 1).end
  <2>1. 1 - 1 = 0
    OBVIOUS
  <2>2. Behind(i, e, 0).last = i /\ pos' = Behind(i, e, 0).end
    BY DEF Behind
  <2>3. QED
    BY <2>1, <2>2
<1>11. Objects(file, heap', frames', i)
  <2>1. Waited(frames', e.obj)
    <3>1. Len(frames') \in 1..Len(frames') /\ frames'[Len(frames')].obj = e.obj
      BY <1>3, <1>4, <1>5, <1>6
    <3>2. QED
      BY <3>1 DEF Waited
  <2>2. \A k \in 1..Len(heap) : Waited(frames, k) => Waited(frames', k)
    <3>1. \A k \in 1..Len(frames) : k \in 1..Len(frames')
      BY <1>4, <1>6
    <3>2. QED
      BY <1>6, <3>1 DEF Waited
  <2>3. QED
    BY <1>1, <1>2, <1>3, <2>1, <2>2, Facts, ObjectsMore
<1>12. Tables(file, refs', interns', i)
  <2>1. e.type \notin Interned
    BY HoldersApart
  <2>2. /\ refs' = IF e.flagged THEN Append(refs, e.obj) ELSE refs
        /\ interns' = IF e.type \in Interned THEN Append(interns, e.obj) ELSE interns
    BY <1>3, <2>1, Zenon
  <2>3. QED
    BY <1>1, <2>2, TablesStep
<1>13. Awaiting(file, heap', frames', pos', i, 1)
  BY <1>7, <1>8, <1>9, <1>10 DEF Awaiting
<1>14. QED
  BY <1>10, <1>11, <1>12, <1>13 DEF OnField

\* load() goes on with an object.
LEMMA GoesOn ==
  ASSUME FInv, IsListed(file), UNCHANGED file, ver' = file.ver, pc' = "object", pos' <= Len(file.bytes),
         NEW i \in Indices(file), file.pieces[i].type \in Holders,
         NEW k \in 1..Len(file.pieces[i].parts), file.pieces[i].parts[k].piece # 0,
         OnField(file, heap', frames', refs', interns', pos', i, k)
  PROVE  Follows'
<1> DEFINE q == file.pieces[i].parts[k].piece
<1>1. q \in Indices(file) /\ OnObject(file, heap', frames', refs', interns', pos', q)
  <2>1. Listed(file)
    BY Facts
  <2>2. \A h, fr, r, t, p : OnField(file, h, fr, r, t, p, i, k) =>
          q \in Indices(file) /\ OnObject(file, h, fr, r, t, p, q)
    BY <2>1, NextPart
  <2> HIDE DEF q
  <2>3. QED
    BY <2>2
<1>2. q \in Indices(file') /\ OnObject(file', heap', frames', refs', interns', pos', q)
  BY <1>1
<1>3. ver' = file'.ver /\ pos' <= Len(file'.bytes)
  OBVIOUS
<1> HIDE DEF q
<1>4. QED
  BY <1>2, <1>3 DEF Follows

\* load() goes on with a field.
LEMMA GoesOnField ==
  ASSUME UNCHANGED file, ver' = file.ver, pc' = "field", pos' <= Len(file.bytes),
         NEW i \in Indices(file), file.pieces[i].type \in CodeTypes,
         NEW k \in 1..Len(file.pieces[i].parts),
         OnField(file, heap', frames', refs', interns', pos', i, k)
  PROVE  Follows'
<1>1. /\ i \in Indices(file') /\ file'.pieces[i].type \in CodeTypes
      /\ k \in 1..Len(file'.pieces[i].parts)
      /\ OnField(file', heap', frames', refs', interns', pos', i, k)
      /\ ver' = file'.ver /\ pos' <= Len(file'.bytes)
  OBVIOUS
<1>2. QED
  BY <1>1 DEF Follows

\* An object with parts, once begun, waits for its first part, or is done.
LEMMA FollowSeries == ASSUME FInv, IsListed(file), LoadSeries PROVE Follows'
<1> DEFINE size == LengthAt(TypeByte, pos + 1)
           w    == LengthWidth(TypeByte)
           o    == Object(TypeByte, <<>>, size)
<1>1. /\ pc = "object" /\ Readable /\ TypeByte \in Series
      /\ heap' = Append(heap, o) /\ refs' = (IF Flagged THEN Append(refs, New) ELSE refs)
      /\ IF size = 0
         THEN ret' = New /\ pc' = "return" /\ frames' = frames
         ELSE frames' = Append(frames, [obj |-> New, left |-> size]) /\ pc' = "object"
      /\ pos' = pos + (1 + w) /\ UNCHANGED <<file, ver, interns>>
  BY DEF LoadSeries, Loading, Create, Return, Wait
<1>2. Has(pos, 1) /\ Has(pos + 1, w)
  BY <1>1 DEF Readable
<1>3. PICK i \in Indices(file) :
        /\ OnObject(file, heap, frames, refs, interns, pos, i) /\ pos = file.pieces[i].at
        /\ TypeByte = file.pieces[i].type /\ (Flagged <=> file.pieces[i].flagged)
  BY <1>1, <1>2, OnPiece
<1> DEFINE e == file.pieces[i]
           N == Len(e.parts)
<1>4. /\ e.type \in Holders /\ e.type \in Series /\ e.type # TYPE_DICT /\ e.type \notin CodeTypes
      /\ e.type \notin Interned /\ e.is = e.type /\ Creates(e)
      /\ e.next = Behind(i, e, N).end
  <2>1. e.type \in Series /\ e.type \in Holders
    BY <1>1, <1>3, TypesApart
  <2>2. e.type # TYPE_DICT /\ e.type \notin CodeTypes /\ e.type \notin Interned
    BY <2>1, HoldersApart
  <2>3. QED
    BY <2>1, <2>2, Facts, HolderFacts
<1>5. e.val = <<>> /\ HasLength(file, e.type, e.at + 1, N) /\ N \in Nat
  <2>1. IsSeries(file, i, e) /\ N \in Nat
    BY <1>4, Facts, KindOf, PieceFacts
  <2>2. QED
    BY <2>1, Zenon DEF IsSeries
<1>6. size = N
  <2>1. pos + 1 \in Nat /\ HasLength(file, TypeByte, pos + 1, N)
    BY <1>3, <1>5, Facts
  <2> HIDE DEF N
  <2>2. QED
    BY <1>2, <1>5, <2>1, Facts, LengthThere
<1>7. o.type = e.is /\ o.items = <<>> /\ o.val = e.val
  BY <1>3, <1>4, <1>5, NewObject
<1> HIDE DEF o
<1>8. pos' = e.at + 1 + LeadOf(e) /\ pos' <= Len(file.bytes)
  <2>1. LeadOf(e) = w
    BY <1>3, <1>4, Zenon DEF LeadOf
  <2>2. w \in Nat
    BY DEF LengthWidth
  <2>3. pos + 1 + w <= Len(file.bytes)
    BY <1>2 DEF Has
  <2> DEFINE a == e.at
             l == LeadOf(e)
  <2>4. a = pos /\ l = w
    BY <1>3, <2>1
  <2> HIDE DEF w, e, a, l
  <2>5. pos' = a + 1 + l /\ pos' <= Len(file.bytes)
    BY <1>1, <2>2, <2>3, <2>4, Facts
  <2>6. QED
    BY <2>5 DEF a, l
<1>9. CASE size = 0
  <2>1. pos' = e.next
    <3>1. Behind(i, e, 0).end = e.at + 1 + LeadOf(e)
      BY DEF Behind
    <3>2. QED
      BY <1>4, <1>6, <1>8, <1>9, <3>1
  <2>2. ret' = New /\ pc' = "return" /\ UNCHANGED <<file, ver, frames>>
    BY <1>1, <1>9
  <2>3. interns' = IF e.type \in Interned THEN Append(interns, New) ELSE interns
    BY <1>1, <1>4, Zenon
  <2>4. Len(e.parts) = 0
    BY <1>6, <1>9
  <2>5. QED
    BY <1>1, <1>3, <1>4, <1>7, <1>8, <2>1, <2>2, <2>3, <2>4, LeafCreated
<1>10. CASE size # 0
  <2>1. 1 <= N /\ 1 \in 1..N
    BY <1>5, <1>6, <1>10
  <2>2. Left(e, 1) = size
    <3>1. Left(e, 1) = N - 1 + 1
      BY <1>4, Zenon DEF Left
    <3>2. QED
      BY <1>5, <1>6, <3>1
  <2>3. /\ frames' = Append(frames, [obj |-> New, left |-> Left(e, 1)]) /\ pc' = "object"
        /\ UNCHANGED <<file, ver, interns>>
    BY <1>1, <1>10, <2>2
  <2>4. o.val = IF e.type \in CodeTypes THEN <<>> ELSE e.val
    BY <1>4, <1>7
  <2>5. OnField(file, heap', frames', refs', interns', pos', i, 1)
    BY <1>1, <1>3, <1>4, <1>7, <1>8, <2>1, <2>3, <2>4, StartsOn
  <2>6. e.parts[1].piece # 0
    BY <1>4, <2>1, Facts, PartsAreObjects
  <2>7. ver' = file.ver
    BY <1>1 DEF FInv, Follows
  <2>8. QED
    BY <1>4, <1>8, <2>1, <2>3, <2>5, <2>6, <2>7, GoesOn
<1>11. QED
  BY <1>9, <1>10

LEMMA FollowDict == ASSUME FInv, IsListed(file), LoadDict PROVE Follows'
<1> DEFINE o == Object(TypeByte, <<>>, 0)
<1>1. /\ pc = "object" /\ Readable /\ TypeByte = TYPE_DICT
      /\ heap' = Append(heap, o) /\ refs' = (IF Flagged THEN Append(refs, New) ELSE refs)
      /\ frames' = Append(frames, [obj |-> New, left |-> 2]) /\ pc' = "object"
      /\ pos' = pos + 1 /\ UNCHANGED <<file, ver, interns>>
  BY DEF LoadDict, Loading, Create, Wait
<1>2. Has(pos, 1)
  BY <1>1 DEF Readable
<1>3. PICK i \in Indices(file) :
        /\ OnObject(file, heap, frames, refs, interns, pos, i) /\ pos = file.pieces[i].at
        /\ TypeByte = file.pieces[i].type /\ (Flagged <=> file.pieces[i].flagged)
  BY <1>1, <1>2, OnPiece
<1> DEFINE e == file.pieces[i]
           N == Len(e.parts)
<1>4. /\ e.type \in Holders /\ e.type = TYPE_DICT /\ e.type \notin Series /\ e.type \notin CodeTypes
      /\ e.is = e.type
  <2>1. e.type = TYPE_DICT /\ e.type \in Holders
    BY <1>1, <1>3, TypesApart
  <2>2. QED
    BY <2>1, HoldersApart, Facts, HolderFacts
<1>5. e.val = <<>> /\ 1 <= N /\ 1 \in 1..N
  <2>1. IsDict(file, i, e) /\ N \in Nat
    BY <1>4, Facts, KindOf, PieceFacts
  <2>2. e.val = <<>> /\ N % 2 = 1
    BY <2>1, Zenon DEF IsDict
  <2> HIDE DEF N
  <2>3. QED
    BY <2>1, <2>2
<1>6. o.type = e.is /\ o.items = <<>> /\ o.val = IF e.type \in CodeTypes THEN <<>> ELSE e.val
  BY <1>3, <1>4, <1>5, NewObject
<1> HIDE DEF o
<1>7. pos' = e.at + 1 + LeadOf(e) /\ pos' <= Len(file.bytes)
  <2>1. LeadOf(e) = 0
    BY <1>4, Zenon DEF LeadOf
  <2>2. pos + 1 <= Len(file.bytes) /\ pos \in Nat
    BY <1>2, Facts DEF Has
  <2>3. QED
    BY <1>1, <1>3, <2>1, <2>2
<1>8. Left(e, 1) = 2
  <2>1. 1 % 2 = 1
    OBVIOUS
  <2>2. QED
    BY <1>4, <2>1, Zenon DEF Left
<1>9. frames' = Append(frames, [obj |-> New, left |-> Left(e, 1)])
  BY <1>1, <1>8
<1>10. OnField(file, heap', frames', refs', interns', pos', i, 1)
  BY <1>1, <1>3, <1>4, <1>5, <1>6, <1>7, <1>9, StartsOn
<1>11. e.parts[1].piece # 0
  BY <1>4, <1>5, Facts, PartsAreObjects
<1>12. ver' = file.ver
  BY <1>1 DEF FInv, Follows
<1>13. QED
  BY <1>1, <1>4, <1>5, <1>7, <1>10, <1>11, <1>12, GoesOn

LEMMA FollowCode == ASSUME FInv, IsListed(file), LoadCode PROVE Follows'
<1> DEFINE o == Object(TypeByte, <<>>, 0)
<1>1. /\ pc = "object" /\ Readable /\ TypeByte \in CodeTypes
      /\ heap' = Append(heap, o) /\ refs' = (IF Flagged THEN Append(refs, New) ELSE refs)
      /\ frames' = Append(frames, [obj |-> New, left |-> Len(Layout(ver))]) /\ pc' = "field"
      /\ pos' = pos + 1 /\ UNCHANGED <<file, ver, interns>>
  BY DEF LoadCode, Loading, Create, Wait
<1>2. Has(pos, 1)
  BY <1>1 DEF Readable
<1>3. PICK i \in Indices(file) :
        /\ OnObject(file, heap, frames, refs, interns, pos, i) /\ pos = file.pieces[i].at
        /\ TypeByte = file.pieces[i].type /\ (Flagged <=> file.pieces[i].flagged)
  BY <1>1, <1>2, OnPiece
<1> DEFINE e == file.pieces[i]
           N == Len(e.parts)
<1>4. /\ e.type \in Holders /\ e.type # TYPE_DICT /\ e.type \notin Series /\ e.type \in CodeTypes
      /\ e.is = e.type
  <2>1. e.type \in CodeTypes /\ e.type \in Holders
    BY <1>1, <1>3, TypesApart
  <2>2. QED
    BY <2>1, HoldersApart, Facts, HolderFacts
<1>5. ver = file.ver
  BY <1>1 DEF FInv, Follows
<1>6. N = Len(Layout(ver)) /\ 1 <= N /\ 1 \in 1..N /\ N \in Nat
  <2>1. N = Len(Layout(ver))
    BY <1>4, <1>5, Facts, CodeParts
  <2>2. Len(Layout(ver)) \in Nat \ {0}
    BY LayoutIsSeq
  <2> HIDE DEF N
  <2>3. QED
    BY <2>1, <2>2
<1>7. o.type = e.is /\ o.items = <<>> /\ o.val = IF e.type \in CodeTypes THEN <<>> ELSE e.val
  BY <1>3, <1>4, NewObject
<1> HIDE DEF o
<1>8. pos' = e.at + 1 + LeadOf(e) /\ pos' <= Len(file.bytes)
  <2>1. LeadOf(e) = 0
    BY <1>4, Zenon DEF LeadOf
  <2>2. pos + 1 <= Len(file.bytes) /\ pos \in Nat
    BY <1>2, Facts DEF Has
  <2>3. QED
    BY <1>1, <1>3, <2>1, <2>2
<1>9. frames' = Append(frames, [obj |-> New, left |-> Left(e, 1)])
  <2>1. Left(e, 1) = N - 1 + 1
    BY <1>4, Zenon DEF Left
  <2>2. Left(e, 1) = Len(Layout(ver))
    BY <1>6, <2>1
  <2>3. QED
    BY <1>1, <2>2
<1>10. OnField(file, heap', frames', refs', interns', pos', i, 1)
  BY <1>1, <1>3, <1>4, <1>6, <1>7, <1>8, <1>9, StartsOn
<1>11. ver' = file.ver
  BY <1>1, <1>5
<1>12. QED
  BY <1>1, <1>4, <1>6, <1>8, <1>10, <1>11, GoesOnField

----------------------------------------------------------------------------
(* The parts of an object, one after the other                               *)

\* The innermost call waits for what has been read.
LEMMA PartReturns ==
  ASSUME FInv, IsListed(file), pc = "return", frames # <<>>
  PROVE  \E c \in Indices(file) : \E k \in 1..Len(file.pieces[c].parts) :
           LET e == file.pieces[c]
           IN /\ e.type \in Holders /\ e.parts[k].piece # 0
              /\ ret = Item(file, e, k) /\ ret = file.pieces[e.parts[k].piece].obj
              /\ pos = e.parts[k].end /\ e.parts[k].taken = Behind(c, e, k - 1).taken
              /\ Len(frames) = Len(e.way)
              /\ Under(file, heap, frames, e.way, Len(frames) - 1)
              /\ Waits(file, heap, Top, c, k)
              /\ Objects(file, heap, frames, e.parts[k].last)
              /\ Tables(file, refs, interns, e.parts[k].last)
              /\ e.parts[k].piece \in 1..e.parts[k].last
<1>1. PICK i \in Indices(file) : OnReturn(file, heap, frames, refs, interns, pos, ret, i)
  BY DEF FInv, Follows
<1>2. Len(frames) # 0
  BY Facts, EmptySeq
<1>3. i # 1
  BY <1>1, <1>2, Facts, GoesUp
<1>4. PICK c, k : PartOf(file, heap, frames, pos, i, c, k)
  BY <1>1, <1>3, Facts, GoesUp
<1> DEFINE e == file.pieces[c]
<1>5. /\ c \in Indices(file) /\ k \in 1..Len(e.parts)
      /\ e.type \in Holders
      /\ e.parts[k].piece = i /\ e.parts[k].end = pos /\ e.parts[k].last = file.pieces[i].last
      /\ e.parts[k].taken = Behind(c, e, k - 1).taken
      /\ Len(frames) = Len(e.way)
      /\ Under(file, heap, frames, e.way, Len(frames) - 1)
      /\ Waits(file, heap, Top, c, k)
  BY <1>4, Zenon DEF PartOf, Top
<1>6. /\ ret = file.pieces[i].obj
      /\ Objects(file, heap, frames, file.pieces[i].last)
      /\ Tables(file, refs, interns, file.pieces[i].last)
  BY <1>1 DEF OnReturn
<1>7. /\ i \in Nat /\ i >= 1 /\ file.pieces[i].last \in Nat /\ file.pieces[i].last >= i
  <2> DEFINE n == Len(file.pieces[i].parts)
             b == Behind(i, file.pieces[i], n)
  <2>1. Len(file.pieces[i].parts) \in Nat /\ i \in Nat /\ i >= 1
    BY Facts, PieceFacts
  <2>2. n \in 0..Len(file.pieces[i].parts)
    BY <2>1
  <2>3. b.last \in Nat /\ b.last >= i
    BY <2>2, Facts, BehindFacts
  <2>4. file.pieces[i].last = b.last
    BY Facts, HolderFacts
  <2>5. QED
    BY <2>1, <2>3, <2>4
<1>8. i # 0 /\ i \in 1..file.pieces[i].last
  BY <1>7
<1>9. ret = Item(file, e, k)
  BY <1>5, <1>6, <1>8, Zenon DEF Item
<1>10. QED
  BY <1>5, <1>6, <1>8, <1>9, Zenon

\* The last piece in a part.
LEMMA LastFacts ==
  ASSUME NEW f, Listed(f), NEW h, NEW fr, NEW c \in Indices(f), f.pieces[c].type \in Holders,
         NEW k \in 0..Len(f.pieces[c].parts),
         Objects(f, h, fr, Behind(c, f.pieces[c], k).last)
  PROVE  LET m == Behind(c, f.pieces[c], k).last
         IN /\ m \in Nat /\ c \in 1..m /\ Creates(f.pieces[c])
            /\ Filled(f, h, c)
            /\ f.pieces[c].obj \in 6..Len(h)
            /\ h[f.pieces[c].obj].type = f.pieces[c].type
<1> DEFINE m == Behind(c, f.pieces[c], k).last
<1>1. m \in Nat /\ m >= c /\ c \in Nat /\ c >= 1
  BY BehindFacts, PieceFacts
<1>2. Creates(f.pieces[c]) /\ f.pieces[c].is = f.pieces[c].type
  BY HolderFacts
<1> HIDE DEF m
<1>3. c \in 1..m
  BY <1>1
<1>4. Filled(f, h, c)
  BY <1>2, <1>3, Zenon DEF Objects, m
<1>5. QED
  BY <1>1, <1>2, <1>3, <1>4, Zenon DEF Filled, m

\* What piece c is, as p, with its kth part x added.
PartAdded(c, k, x, p) ==
  LET e == file.pieces[c]
      o == heap[e.obj]
  IN /\ c \in Indices(file) /\ k \in 1..Len(e.parts)
     /\ Filled(file, heap, c) /\ e.obj \in 1..Len(heap)
     /\ Len(o.items) + 1 = k /\ k <= Elements(e)
     /\ x = Item(file, e, k)
     /\ p.type = o.type /\ p.items = Append(o.items, x)
     /\ IF e.type \in CodeTypes
        THEN /\ Len(p.val) = Behind(c, e, k).taken
             /\ \A j \in 1..Len(p.val) : p.val[j] = e.val[j]
        ELSE p.val = e.val

\* An object with one part more is filled that far.
LEMMA PartFilled ==
  ASSUME FInv, IsListed(file), NEW c, NEW k, NEW x, NEW p, PartAdded(c, k, x, p),
         NEW g, Len(g) = Len(heap), g[file.pieces[c].obj] = p
  PROVE  Filled(file, g, c) /\ Len(g[file.pieces[c].obj].items) = k
<1> DEFINE e == file.pieces[c]
           o == heap[e.obj]
<1>0. /\ c \in Indices(file) /\ k \in 1..Len(e.parts)
      /\ Filled(file, heap, c) /\ e.obj \in 1..Len(heap)
      /\ Len(o.items) + 1 = k /\ k <= Elements(e)
      /\ x = Item(file, e, k)
      /\ p.type = o.type /\ p.items = Append(o.items, x)
      /\ IF e.type \in CodeTypes
         THEN /\ Len(p.val) = Behind(c, e, k).taken
              /\ \A j \in 1..Len(p.val) : p.val[j] = e.val[j]
         ELSE p.val = e.val
  BY Zenon DEF PartAdded
<1>1. o \in ObjectsUpTo(Len(heap))
  BY <1>0, Typed DEF FInv
<1>2. o.items \in Seq(0..Len(heap)) /\ Len(o.items) \in Nat
  BY <1>1, SeqIn DEF ObjectsUpTo
<1>3. /\ e.obj \in 6..Len(heap) /\ o.type = e.is
      /\ \A j \in 1..Len(o.items) : o.items[j] = Item(file, e, j)
  BY <1>0, Zenon DEF Filled
<1>4. /\ Len(p.items) = Len(o.items) + 1 /\ p.items[Len(o.items) + 1] = x
      /\ \A j \in 1..Len(o.items) : p.items[j] = o.items[j]
  <2> DEFINE s == o.items
             S == 0..Len(heap)
  <2>1. s \in Seq(S) /\ p.items = Append(s, x)
    BY <1>0, <1>2
  <2> HIDE DEF s, S
  <2>2. /\ Len(p.items) = Len(s) + 1 /\ p.items[Len(s) + 1] = x
        /\ \A j \in 1..Len(s) : p.items[j] = s[j]
    BY <2>1, AppendAny
  <2>3. QED
    BY <2>2 DEF s
<1>5. Len(p.items) = k /\ k \in Nat
  <2>1. Len(o.items) + 1 = k
    BY <1>0
  <2>2. k \in Nat
    <3>1. \A n \in Nat : n + 1 \in Nat
      OBVIOUS
    <3>2. QED
      BY <1>2, <2>1, <3>1, Zenon
  <2>3. QED
    BY <1>4, <2>1, <2>2, Zenon
<1>6. \A j \in 1..k : p.items[j] = Item(file, e, j)
  <2> DEFINE n == Len(o.items)
             I(j) == Item(file, e, j)
  <2>1. n \in Nat /\ n + 1 = k /\ p.items[n + 1] = x /\ x = I(k)
        /\ \A j \in 1..n : p.items[j] = I(j)
    BY <1>0, <1>2, <1>3, <1>4
  <2> HIDE DEF n, I
  <2>2. \A j \in 1..k : j \in 1..n \/ j = n + 1
    BY <1>5, <2>1
  <2>3. \A j \in 1..k : p.items[j] = I(j)
    BY <2>1, <2>2
  <2>4. QED
    BY <2>3 DEF I
<1>7. g[e.obj] = p /\ p.type = e.is /\ e.obj \in 6..Len(g)
  BY <1>0, <1>3
<1>8. Filled(file, g, c)
  BY <1>0, <1>5, <1>6, <1>7, Zenon DEF Filled
<1>9. QED
  BY <1>5, <1>7, <1>8, Zenon

\* The innermost call is for piece c.
Innermost(c) ==
  /\ frames # <<>> /\ c \in Indices(file) /\ file.pieces[c].type \in Holders
  /\ Len(frames) = Len(file.pieces[c].way)
  /\ Under(file, heap, frames, file.pieces[c].way, Len(frames) - 1)
  /\ Top.obj = file.pieces[c].obj

\* All up to the kth part of piece c has been read.
Past(c, k) ==
  LET m == Behind(c, file.pieces[c], k).last
  IN /\ m \in 0..Len(file.pieces)
     /\ Objects(file, heap, frames, m) /\ Tables(file, refs, interns, m)

\* In g only the object of piece c is not as it is.
Only(g, c) ==
  /\ Len(g) = Len(heap) /\ Filled(file, g, c)
  /\ \A x \in 1..Len(heap) : x # file.pieces[c].obj => g[x] = heap[x]

\* What is known of the piece whose parts are being read.
LEMMA InnermostFacts ==
  ASSUME FInv, IsListed(file), NEW c, Innermost(c)
  PROVE  LET n == Len(frames)
             o == file.pieces[c].obj
         IN /\ n \in Nat /\ n \in 1..n /\ frames[n].obj = o
            /\ \A j \in 1..n : frames[j].obj \in 1..Len(heap) /\ (j # n => frames[j].obj # o)
            /\ \A j \in 1..n : j = n \/ j \in 1..(n - 1)
            /\ c \in Indices(file) /\ file.pieces[c].type \in Holders
            /\ Len(file.pieces[c].parts) \in Nat
            /\ o \in 1..Len(heap)
<1> DEFINE n == Len(frames)
           o == file.pieces[c].obj
<1>1. Stack(heap, frames) /\ n \in Nat /\ Books(heap, frames, Layout(ver))
  BY Facts
<1>2. frames # <<>> /\ Top.obj = o /\ c \in Indices(file) /\ file.pieces[c].type \in Holders
  BY DEF Innermost
<1>3. n \in 1..n /\ frames[n].obj = o /\ \A j \in 1..n : frames[j].obj \in 1..Len(heap)
  BY <1>1, <1>2, FrontOf, StackFacts, ZenonT(30) DEF Stack, Top
<1>4. \A j \in 1..n : j # n => frames[j].obj # o
  BY <1>1, <1>3 DEF Books
<1>5. \A j \in 1..n : j = n \/ j \in 1..(n - 1)
  BY <1>1
<1>6. Len(file.pieces[c].parts) \in Nat
  BY <1>2, Facts, PieceFacts
<1>7. QED
  BY <1>1, <1>2, <1>3, <1>4, <1>5, <1>6, Zenon

\* The calls further out do not notice.
LEMMA OuterKept ==
  ASSUME FInv, IsListed(file), NEW c, Innermost(c), NEW g, Only(g, c),
         NEW fs, \A j \in 1..(Len(frames) - 1) : fs[j] = frames[j]
  PROVE  Under(file, g, fs, file.pieces[c].way, Len(frames) - 1)
<1> DEFINE w == file.pieces[c].way
           l == Len(frames) - 1
<1>1. l \in Nat /\ \A j \in 1..l : /\ j \in 1..Len(frames) /\ frames[j].obj \in 1..Len(heap)
                                   /\ frames[j].obj # file.pieces[c].obj
  <2> DEFINE n == Len(frames)
             o == file.pieces[c].obj
  <2>1. /\ n \in Nat /\ n \in 1..n
        /\ \A j \in 1..n : frames[j].obj \in 1..Len(heap) /\ (j # n => frames[j].obj # o)
    BY InnermostFacts
  <2> HIDE DEF n, o
  <2>2. n - 1 \in Nat /\ \A j \in 1..(n - 1) : j \in 1..n /\ j # n
    BY <2>1
  <2>3. QED
    BY <2>1, <2>2 DEF n, o
<1>2. Under(file, heap, frames, w, l)
  BY DEF Innermost
<1>3. \A j \in 1..l : fs[j] = frames[j]
  OBVIOUS
<1> HIDE DEF l
<1>4. \A j \in 1..l : fs[j] = frames[j] /\ g[frames[j].obj].items = heap[frames[j].obj].items
  BY <1>1, <1>3, Zenon DEF Only
<1> HIDE DEF w
<1>5. Under(file, g, fs, w, l)
  BY <1>1, <1>2, <1>4, UnderKept
<1>6. QED
  BY <1>5 DEF w, l

\* Objects, when what the innermost call is for has been given a part.
LEMMA ObjectsGiven ==
  ASSUME FInv, IsListed(file), NEW c, Innermost(c),
         NEW k \in 0..Len(file.pieces[c].parts), Past(c, k), NEW g, Only(g, c),
         NEW fs, \A x : x # file.pieces[c].obj /\ Waited(frames, x) => Waited(fs, x),
         Waited(fs, file.pieces[c].obj) \/ Ended(file, g, c)
  PROVE  Objects(file, g, fs, Behind(c, file.pieces[c], k).last)
<1> DEFINE m == Behind(c, file.pieces[c], k).last
<1>1. m \in 0..Len(file.pieces) /\ Objects(file, heap, frames, m)
  BY DEF Past
<1>2. c \in 1..m /\ Creates(file.pieces[c])
  BY <1>1, Facts, LastFacts DEF Innermost
<1>3. Listed(file) /\ Len(heap) \in Nat
  BY Facts
<1> HIDE DEF m
<1>4. /\ Len(g) = Len(heap) /\ Filled(file, g, c)
      /\ \A x \in 1..Len(heap) : x # file.pieces[c].obj => g[x] = heap[x]
  BY DEF Only
<1>5. Objects(file, g, fs, m)
  BY <1>1, <1>2, <1>3, <1>4, ObjectsKept
<1>6. QED
  BY <1>5 DEF m

\* Counting down the innermost frame leaves the others as they were.
LEMMA LessKeeps ==
  ASSUME FInv, IsListed(file), NEW c, Innermost(c), NEW left \in Nat \ {0}
  PROVE  LET fs == Less(frames, left)
             n  == Len(frames)
         IN /\ Len(fs) = n /\ fs # <<>> /\ fs[n].obj = file.pieces[c].obj /\ fs[n].left = left
            /\ \A j \in 1..(n - 1) : fs[j] = frames[j]
            /\ \A x : Waited(frames, x) => Waited(fs, x)
            /\ Waited(fs, file.pieces[c].obj)
<1> DEFINE fs == Less(frames, left)
           n  == Len(frames)
<1>1. Stack(heap, frames) /\ frames # <<>>
  BY Facts DEF Innermost
<1>2. /\ Len(fs) = n /\ \A j \in 1..n : fs[j].obj = frames[j].obj
      /\ \A j \in 1..n : j # n => fs[j] = frames[j]
      /\ fs[n].left = left
  <2> DEFINE P(fr, gr, m) ==
               /\ Len(gr) = Len(fr)
               /\ \A j \in 1..Len(fr) : gr[j].obj = fr[j].obj
               /\ \A j \in 1..Len(fr) : j # Len(fr) => gr[j] = fr[j]
               /\ gr[Len(fr)].left = m
  <2>1. \A h, fr : Stack(h, fr) /\ fr # <<>> => P(fr, Less(fr, left), left)
    BY LessFacts
  <2> HIDE DEF P
  <2>2. P(frames, fs, left)
    BY <1>1, <2>1, Zenon
  <2> HIDE DEF fs
  <2>3. QED
    BY <2>2, Zenon DEF P
<1>3. n \in Nat /\ n \in 1..n /\ frames[n].obj = file.pieces[c].obj
  BY InnermostFacts
<1> HIDE DEF fs, n
<1>4. \A j \in 1..(n - 1) : j \in 1..n /\ j # n
  BY <1>3
<1>5. /\ \A x : Waited(frames, x) => Waited(fs, x)
      /\ Waited(fs, file.pieces[c].obj)
  BY <1>2, <1>3, Zenon DEF Waited, n
<1>6. fs # <<>>
  <2>1. Len(<<>>) = 0 /\ n # 0
    BY <1>3, EmptySeq
  <2>2. QED
    BY <1>2, <2>1
<1>7. QED
  BY <1>2, <1>3, <1>4, <1>5, <1>6, Zenon DEF fs, n

\* load() goes on to the next part of what the innermost call is for.
LEMMA NextWaits ==
  ASSUME FInv, IsListed(file), NEW c, Innermost(c),
         NEW k \in 0..Len(file.pieces[c].parts), Past(c, k), NEW g, Only(g, c),
         Len(g[file.pieces[c].obj].items) = k,
         NEW l \in 1..Len(file.pieces[c].parts), l = k + 1,
         NEW left \in Nat \ {0}, left = Left(file.pieces[c], l),
         NEW q, q = Behind(c, file.pieces[c], k).end
  PROVE  OnField(file, g, Less(frames, left), refs, interns, q, c, l)
<1> DEFINE e == file.pieces[c]
           m == Behind(c, e, k).last
           fs == Less(frames, left)
           n == Len(frames)
<1>1. /\ Len(fs) = n /\ fs # <<>> /\ fs[n].obj = e.obj /\ fs[n].left = left
      /\ \A j \in 1..(n - 1) : fs[j] = frames[j]
      /\ \A x : Waited(frames, x) => Waited(fs, x)
      /\ Waited(fs, e.obj)
  BY LessKeeps, Zenon
<1> HIDE DEF fs
<1>2. Objects(file, g, fs, m)
  BY <1>1, ObjectsGiven, Zenon
<1>3. Under(file, g, fs, e.way, n - 1)
  BY <1>1, OuterKept, Zenon
<1>4. Tables(file, refs, interns, m)
  BY Zenon DEF Past
<1>5. l - 1 = k
  BY InnermostFacts
<1>6. Waits(file, g, fs[n], c, l)
  <2>1. Len(g[fs[n].obj].items) + 1 = l
    <3>1. Len(g[fs[n].obj].items) = k
      BY <1>1, Zenon
    <3>2. QED
      BY <3>1, Zenon
  <2>2. QED
    BY <1>1, <2>1, Zenon DEF Waits
<1>7. Len(fs) = Len(e.way)
  BY <1>1, Zenon DEF Innermost
<1>8. Awaiting(file, g, fs, q, c, l)
  BY <1>1, <1>3, <1>5, <1>6, <1>7, Zenon DEF Awaiting
<1>9. QED
  BY <1>2, <1>4, <1>5, <1>8, Zenon DEF OnField, fs

\* load() of what the innermost call is for returns.
LEMMA HolderReturns ==
  ASSUME FInv, IsListed(file), NEW c, Innermost(c),
         Past(c, Len(file.pieces[c].parts)), NEW g, Only(g, c), Ended(file, g, c)
  PROVE  OnReturn(file, g, Outer(frames), refs, interns, file.pieces[c].next, Top.obj, c)
<1> DEFINE e == file.pieces[c]
           k == Len(e.parts)
           fs == Outer(frames)
           n == Len(frames)
<1>1. /\ Len(fs) = n - 1 /\ \A j \in 1..(n - 1) : fs[j] = frames[j]
  <2>1. Stack(heap, frames) /\ frames # <<>>
    BY Facts DEF Innermost
  <2>2. QED
    BY <2>1, FrontOf DEF Stack, Outer
<1>2. /\ n \in Nat /\ n \in 1..n /\ frames[n].obj = e.obj
      /\ \A j \in 1..n : j = n \/ j \in 1..(n - 1)
      /\ c \in Indices(file) /\ e.type \in Holders /\ k \in Nat
  BY InnermostFacts, Zenon
<1> HIDE DEF fs, n
<1>3. \A x : x # e.obj /\ Waited(frames, x) => Waited(fs, x)
  BY <1>1, <1>2, Zenon DEF Waited, n
<1>4. k \in 0..k
  <2> HIDE DEF k
  <2>1. QED
    BY <1>2
<1>5. Objects(file, g, fs, Behind(c, e, k).last)
  BY <1>3, <1>4, ObjectsGiven, Zenon
<1>6. Tables(file, refs, interns, Behind(c, e, k).last)
  BY Zenon DEF Past
<1>7. Under(file, g, fs, e.way, n - 1)
  BY <1>1, OuterKept, Zenon DEF n
<1>8. Len(fs) = Len(e.way) - 1
  BY <1>1, Zenon DEF Innermost, n
<1>9. Around(file, g, fs, c)
  BY <1>1, <1>7, <1>8, Zenon DEF Around
<1>10. e.last = Behind(c, e, k).last
  BY <1>2, Facts, HolderFacts
<1>11. Top.obj = e.obj
  BY DEF Innermost
<1>12. QED
  BY <1>5, <1>6, <1>9, <1>10, <1>11, Zenon DEF OnReturn, fs

\* Back from piece i the reader follows the listing again.
LEMMA GoesUpAgain ==
  ASSUME UNCHANGED file, ver' = file.ver, pc' = "return", pos' <= Len(file.bytes),
         NEW i \in Indices(file), OnReturn(file, heap', frames', refs', interns', pos', ret', i)
  PROVE  Follows'
<1>1. /\ i \in Indices(file') /\ OnReturn(file', heap', frames', refs', interns', pos', ret', i)
      /\ ver' = file'.ver /\ pos' <= Len(file'.bytes)
  OBVIOUS
<1>2. QED
  BY <1>1 DEF Follows

\* The innermost call, for piece c, waits for its kth part, which has been read.
Comes(c, k) ==
  LET e == file.pieces[c]
  IN /\ Innermost(c) /\ Past(c, k)
     /\ k \in 1..Len(e.parts) /\ e.parts[k].piece # 0
     /\ ret = Item(file, e, k) /\ ret = file.pieces[e.parts[k].piece].obj
     /\ pos = Behind(c, e, k).end
     /\ Behind(c, e, k).taken = Behind(c, e, k - 1).taken
     /\ e.parts[k].piece \in 1..Behind(c, e, k).last
     /\ Filled(file, heap, c) /\ Len(heap[e.obj].items) + 1 = k
     /\ TopType = e.type /\ Top.left = Left(e, k)

\* With a frame waiting, the piece that was read is a part of the innermost one.
LEMMA ComesBack ==
  ASSUME FInv, IsListed(file), pc = "return", frames # <<>>
  PROVE  \E c, k : Comes(c, k)
<1> DEFINE P(c, k) ==
             LET e == file.pieces[c]
             IN /\ e.type \in Holders /\ e.parts[k].piece # 0
                /\ ret = Item(file, e, k) /\ ret = file.pieces[e.parts[k].piece].obj
                /\ pos = e.parts[k].end /\ e.parts[k].taken = Behind(c, e, k - 1).taken
                /\ Len(frames) = Len(e.way)
                /\ Under(file, heap, frames, e.way, Len(frames) - 1)
                /\ Waits(file, heap, Top, c, k)
                /\ Objects(file, heap, frames, e.parts[k].last)
                /\ Tables(file, refs, interns, e.parts[k].last)
                /\ e.parts[k].piece \in 1..e.parts[k].last
<1>0. \E c \in Indices(file) : \E k \in 1..Len(file.pieces[c].parts) : P(c, k)
  BY PartReturns, Zenon
<1> HIDE DEF P
<1>16. PICK c \in Indices(file) : \E k \in 1..Len(file.pieces[c].parts) : P(c, k)
  BY <1>0, Zenon
<1>17. PICK k \in 1..Len(file.pieces[c].parts) : P(c, k)
  BY <1>16, Zenon
<1> USE DEF P
<1>1. P(c, k)
  BY <1>17
<1> DEFINE e == file.pieces[c]
           m == Behind(c, e, k).last
<1>2. k \in 0..Len(e.parts) /\ k # 0
  BY Facts, PieceFacts
<1>3. Behind(c, e, k) = e.parts[k] /\ m \in Nat /\ m <= Len(file.pieces)
  BY <1>2, Facts, BehindFacts
<1>4. Len(file.pieces) \in Nat
  BY Facts, PieceFacts
<1>5. m \in 0..Len(file.pieces)
  <2> HIDE DEF m
  <2>1. QED
    BY <1>3, <1>4
<1>6. Objects(file, heap, frames, m) /\ Tables(file, refs, interns, m)
  BY <1>1, <1>3, Zenon
<1>7. Filled(file, heap, c) /\ heap[e.obj].type = e.type
  BY <1>1, <1>2, <1>6, Facts, LastFacts, Zenon
<1>8. Top.obj = e.obj /\ Len(heap[Top.obj].items) + 1 = k /\ Top.left = Left(e, k)
  BY <1>1, Zenon DEF Waits
<1>9. Innermost(c)
  BY <1>1, <1>8, Zenon DEF Innermost
<1>10. Past(c, k)
  BY <1>5, <1>6, Zenon DEF Past
<1>11. TopType = e.type
  BY <1>7, <1>8, Zenon DEF TopType
<1>12. Len(heap[e.obj].items) + 1 = k
  BY <1>8, Zenon
<1>13. /\ pos = Behind(c, e, k).end
       /\ Behind(c, e, k).taken = Behind(c, e, k - 1).taken
       /\ e.parts[k].piece \in 1..Behind(c, e, k).last
  BY <1>1, <1>3, Zenon
<1>14. Comes(c, k)
  BY <1>1, <1>7, <1>8, <1>9, <1>10, <1>11, <1>12, <1>13, Zenon DEF Comes
<1>15. QED
  BY <1>14, Zenon

\* What the innermost call is for is given its next part.
LEMMA GivesPart ==
  ASSUME FInv, IsListed(file), NEW c, Innermost(c), NEW k, NEW x,
         NEW p \in ObjectsUpTo(Len(heap)), PartAdded(c, k, x, p)
  PROVE  LET g == Given(heap, Top.obj, p)
         IN Only(g, c) /\ Len(g[file.pieces[c].obj].items) = k
<1> DEFINE e == file.pieces[c]
           g == Given(heap, Top.obj, p)
<1>1. Top.obj = e.obj /\ e.obj \in 1..Len(heap)
  BY InnermostFacts, Zenon DEF Innermost
<1>2. p.type = heap[e.obj].type
  BY Zenon DEF PartAdded
<1>3. /\ Len(g) = Len(heap) /\ g[e.obj] = p
      /\ \A i \in 1..Len(heap) : i # e.obj => g[i] = heap[i]
  <2>1. Heap(heap)
    BY Facts
  <2> DEFINE P(h, j, q, d) == /\ Len(d) = Len(h) /\ d[j] = q
                              /\ \A i \in 1..Len(h) : i # j => d[i] = h[i]
  <2>2. \A h : Heap(h) => \A j \in 1..Len(h) : \A q \in ObjectsUpTo(Len(h)) :
          q.type = h[j].type => P(h, j, q, Given(h, j, q))
    BY GivenFacts
  <2> HIDE DEF P
  <2>3. P(heap, e.obj, p, Given(heap, e.obj, p))
    BY <1>1, <1>2, <2>1, <2>2, Zenon
  <2>4. QED
    BY <1>1, <2>3, Zenon DEF P
<1> HIDE DEF g
<1>4. Filled(file, g, c) /\ Len(g[e.obj].items) = k
  <2>1. \A d : Len(d) = Len(heap) /\ d[e.obj] = p => Filled(file, d, c) /\ Len(d[e.obj].items) = k
    BY PartFilled
  <2>2. QED
    BY <1>3, <2>1, Zenon
<1>5. Only(g, c)
  BY <1>3, <1>4, Zenon DEF Only
<1>6. QED
  BY <1>4, <1>5, Zenon DEF g

\* load() of what the innermost call is for goes on, or returns.
LEMMA Resumes ==
  ASSUME FInv, IsListed(file), NEW c, Innermost(c),
         NEW k \in 0..Len(file.pieces[c].parts), Past(c, k), Only(heap', c),
         NEW left, NEW next, Await(left, next),
         NEW l, l = k + 1,
         left = 0 => k = Len(file.pieces[c].parts) /\ Ended(file, heap', c),
         left # 0 =>
           /\ l \in 1..Len(file.pieces[c].parts) /\ left \in Nat \ {0}
           /\ left = Left(file.pieces[c], l)
           /\ Len(heap'[file.pieces[c].obj].items) = k
           /\ \/ next = "object" /\ file.pieces[c].parts[l].piece # 0
              \/ next = "field" /\ file.pieces[c].type \in CodeTypes,
         pos' = Behind(c, file.pieces[c], k).end, pos' <= Len(file.bytes), ver' = file.ver,
         UNCHANGED <<file, refs, interns>>
  PROVE  Follows'
<1> DEFINE e == file.pieces[c]
<1>1. c \in Indices(file) /\ e.type \in Holders
  BY DEF Innermost
<1>2. refs' = refs /\ interns' = interns /\ file' = file
  OBVIOUS
<1>3. CASE left = 0
  <2>1. frames' = Outer(frames) /\ ret' = Top.obj /\ pc' = "return"
    BY <1>3 DEF Await, Callers, Outer
  <2>2. k = Len(e.parts) /\ Ended(file, heap', c)
    BY <1>3
  <2>3. e.next = Behind(c, e, Len(e.parts)).end
    BY <1>1, Facts, HolderFacts
  <2>4. pos' = e.next
    BY <2>2, <2>3, Zenon
  <2>5. \A g : Only(g, c) /\ Ended(file, g, c) =>
          OnReturn(file, g, Outer(frames), refs, interns, e.next, Top.obj, c)
    BY <2>2, HolderReturns, Zenon
  <2>6. OnReturn(file, heap', frames', refs', interns', pos', ret', c)
    BY <1>2, <2>1, <2>2, <2>4, <2>5, Zenon
  <2>7. QED
    BY <1>1, <2>1, <2>6, GoesUpAgain
<1>4. CASE left # 0
  <2>1. frames' = Less(frames, left) /\ pc' = next
    BY <1>4 DEF Await, Less
  <2>2. /\ l \in 1..Len(e.parts) /\ left \in Nat \ {0} /\ left = Left(e, l)
        /\ Len(heap'[e.obj].items) = k
    BY <1>4
  <2>3. \A g : Only(g, c) /\ Len(g[e.obj].items) = k =>
          OnField(file, g, Less(frames, left), refs, interns, Behind(c, e, k).end, c, l)
    BY <2>2, NextWaits
  <2>4. OnField(file, heap', frames', refs', interns', pos', c, l)
    BY <1>2, <2>1, <2>2, <2>3, Zenon
  <2>5. CASE next = "object" /\ e.parts[l].piece # 0
    BY <1>1, <2>1, <2>2, <2>4, <2>5, GoesOn
  <2>6. CASE next = "field" /\ e.type \in CodeTypes
    BY <1>1, <2>1, <2>2, <2>4, <2>6, GoesOnField
  <2>7. QED
    BY <1>4, <2>5, <2>6
<1>5. QED
  BY <1>3, <1>4

\* An element put into an object leaves its value alone.
LEMMA WithKeeps ==
  ASSUME NEW n \in Nat, NEW o \in ObjectsUpTo(n), NEW x \in 0..n
  PROVE  With(o, x).val = o.val
BY DEF With, ObjectsUpTo

\* An object that is read is put where it is waited for.
LEMMA TakesPart ==
  ASSUME FInv, IsListed(file), NEW c, NEW k, Comes(c, k), k <= Elements(file.pieces[c])
  PROVE  LET g == Given(heap, Top.obj, With(heap[Top.obj], ret))
         IN Only(g, c) /\ Len(g[file.pieces[c].obj].items) = k
<1> DEFINE e == file.pieces[c]
           o == heap[e.obj]
           p == With(o, ret)
<1>1. /\ Innermost(c) /\ k \in 1..Len(e.parts) /\ ret = Item(file, e, k)
      /\ Behind(c, e, k).taken = Behind(c, e, k - 1).taken
      /\ Filled(file, heap, c) /\ Len(o.items) + 1 = k
  BY Zenon DEF Comes
<1>2. c \in Indices(file) /\ e.obj \in 1..Len(heap) /\ Top.obj = e.obj
  BY <1>1, InnermostFacts, Zenon DEF Innermost
<1>3. o \in ObjectsUpTo(Len(heap)) /\ ret \in 0..Len(heap) /\ Len(heap) \in Nat
  BY <1>2, Typed DEF FInv
<1> HIDE DEF o
<1>4. /\ p \in ObjectsUpTo(Len(heap)) /\ p.type = o.type /\ p.items = Append(o.items, ret)
      /\ Len(o.items) \in Nat /\ p.val = o.val
  BY <1>3, WithFacts, WithKeeps
<1>5. k - 1 = Len(o.items)
  BY <1>1, <1>4
<1> HIDE DEF p
<1>6. IF e.type \in CodeTypes
      THEN /\ Len(p.val) = Behind(c, e, k).taken
           /\ \A j \in 1..Len(p.val) : p.val[j] = e.val[j]
      ELSE p.val = e.val
  <2>1. IF e.type \in CodeTypes
        THEN /\ Len(o.val) = Behind(c, e, Len(o.items)).taken
             /\ \A j \in 1..Len(o.val) : o.val[j] = e.val[j]
        ELSE o.val = e.val
    BY <1>1, Zenon DEF Filled, o
  <2>2. QED
    BY <1>1, <1>4, <1>5, <2>1, Zenon
<1>7. PartAdded(c, k, ret, p)
  BY <1>1, <1>2, <1>4, <1>6, Zenon DEF PartAdded, o
<1>8. LET g == Given(heap, Top.obj, p) IN Only(g, c) /\ Len(g[e.obj].items) = k
  BY <1>1, <1>4, <1>7, GivesPart
<1>9. QED
  BY <1>2, <1>8, Zenon DEF p, o

\* The numbers in it.
LEMMA ComesFacts ==
  ASSUME FInv, IsListed(file), pc = "return", NEW c, NEW k, Comes(c, k)
  PROVE  LET e == file.pieces[c]
             N == Len(e.parts)
         IN /\ N \in Nat /\ k \in 1..N /\ k \in 0..N /\ k \in Nat /\ k <= N
            /\ c \in Indices(file) /\ e.type \in Holders /\ Innermost(c) /\ Past(c, k)
            /\ k # N => k + 1 \in 1..N
            /\ pos = Behind(c, e, k).end /\ pos <= Len(file.bytes) /\ ver = file.ver
            /\ TopType = e.type /\ Top.left = Left(e, k)
<1> DEFINE e == file.pieces[c]
           N == Len(e.parts)
<1>1. /\ Innermost(c) /\ Past(c, k) /\ k \in 1..N
      /\ pos = Behind(c, e, k).end /\ TopType = e.type /\ Top.left = Left(e, k)
  BY Zenon DEF Comes
<1>2. c \in Indices(file) /\ e.type \in Holders /\ N \in Nat
  BY <1>1, InnermostFacts, Zenon
<1> HIDE DEF N, e
<1>3. k \in Nat /\ k <= N /\ k \in 0..N /\ (k # N => k + 1 \in 1..N)
  BY <1>1, <1>2
<1>4. pos <= Len(file.bytes) /\ ver = file.ver
  BY DEF FInv, Follows
<1>5. QED
  BY <1>1, <1>2, <1>3, <1>4, Zenon DEF N, e

\* Each part that comes back is taken as the part the listing has there.
LEMMA FollowElement == ASSUME FInv, IsListed(file), TakeElement PROVE Follows'
<1>1. /\ pc = "return" /\ frames # <<>> /\ TopType \in Series
      /\ heap' = Given(heap, Top.obj, With(heap[Top.obj], ret))
      /\ Await(Top.left - 1, "object") /\ UNCHANGED <<file, pos, ver, refs, interns>>
  BY DEF TakeElement, Returned, Take, Given, With
<1>2. PICK c, k : Comes(c, k)
  BY <1>1, ComesBack
<1> DEFINE e == file.pieces[c]
           N == Len(e.parts)
           l == k + 1
           left == Top.left - 1
<1>3. /\ N \in Nat /\ k \in 1..N /\ k \in 0..N /\ k \in Nat /\ k <= N
      /\ c \in Indices(file) /\ e.type \in Holders /\ Innermost(c) /\ Past(c, k)
      /\ k # N => l \in 1..N
      /\ pos = Behind(c, e, k).end /\ pos <= Len(file.bytes) /\ ver = file.ver
      /\ TopType = e.type /\ Top.left = Left(e, k)
  BY <1>1, <1>2, ComesFacts
<1>4. e.type \in Series /\ e.type # TYPE_DICT
  BY <1>1, <1>3, HoldersApart
<1>5. Elements(e) = N /\ Left(e, k) = N - k + 1 /\ Left(e, l) = N - l + 1
  BY <1>4, Zenon DEF Elements, Left
<1>6. Only(heap', c) /\ Len(heap'[e.obj].items) = k
  BY <1>1, <1>2, <1>3, <1>5, TakesPart
<1> HIDE DEF N
<1>7. left = Left(e, l) /\ (left = 0 => k = N) /\ (left # 0 => k # N /\ left \in Nat \ {0})
  BY <1>3, <1>5
<1>8. left = 0 => k = Len(e.parts) /\ Ended(file, heap', c)
  BY <1>5, <1>6, <1>7, Zenon DEF Ended, N
<1>9. left # 0 => /\ l \in 1..Len(e.parts) /\ left \in Nat \ {0} /\ left = Left(e, l)
                  /\ Len(heap'[e.obj].items) = k /\ e.parts[l].piece # 0
  <2>1. \A j \in 1..Len(e.parts) : e.parts[j].piece # 0
    BY <1>3, <1>4, Facts, PartsAreObjects
  <2>2. QED
    BY <1>3, <1>6, <1>7, <2>1, Zenon DEF N
<1>10. pos' = Behind(c, e, k).end /\ pos' <= Len(file.bytes) /\ ver' = file.ver
  BY <1>1, <1>3
<1>11. k \in 0..Len(e.parts) /\ Innermost(c) /\ Past(c, k) /\ Only(heap', c)
  BY <1>3, <1>6, Zenon DEF N
<1> HIDE DEF left, l
<1>12. l = k + 1 /\ Await(left, "object")
  BY <1>1 DEF l, left
<1>13. QED
  BY <1>1, <1>8, <1>9, <1>10, <1>11, <1>12, Resumes

\* The parts of a dict, keys and values in turn.
LEMMA DictParts ==
  ASSUME FInv, IsListed(file), NEW c \in Indices(file), file.pieces[c].type = TYPE_DICT
  PROVE  LET e == file.pieces[c]
             N == Len(e.parts)
         IN /\ N % 2 = 1 /\ N \in Nat
            /\ Elements(e) = N - 1
            /\ \A k \in 1..N : /\ e.parts[k].piece # 0
                               /\ k % 2 = 1 => (file.pieces[e.parts[k].piece].obj = 0 <=> k = N)
                               /\ Left(e, k) = IF k % 2 = 1 THEN 2 ELSE 1
<1> DEFINE e == file.pieces[c]
           N == Len(e.parts)
<1>1. IsDict(file, c, e) /\ N \in Nat
  BY Facts, KindOf, PieceFacts
<1>2. N % 2 = 1 /\ \A k \in 1..N : k % 2 = 1 => (file.pieces[e.parts[k].piece].obj = 0 <=> k = N)
  BY <1>1, Zenon DEF IsDict
<1>3. \A k \in 1..N : e.parts[k].piece # 0
  BY Facts, PartsAreObjects
<1>4. Elements(e) = N - 1 /\ \A k \in 1..N : Left(e, k) = IF k % 2 = 1 THEN 2 ELSE 1
  BY Zenon DEF Elements, Left
<1>5. QED
  BY <1>1, <1>2, <1>3, <1>4, Zenon

LEMMA FollowKey == ASSUME FInv, IsListed(file), TakeKey PROVE Follows'
<1>1. /\ pc = "return" /\ frames # <<>> /\ TopType = TYPE_DICT /\ Top.left = 2
      /\ \/ ret = 0 /\ Await(0, "object") /\ heap' = heap
         \/ ret # 0 /\ Await(1, "object")
            /\ heap' = Given(heap, Top.obj, With(heap[Top.obj], ret))
      /\ UNCHANGED <<file, pos, ver, refs, interns>>
  BY DEF TakeKey, Returned, Take, Given, With
<1>2. PICK c, k : Comes(c, k)
  BY <1>1, ComesBack
<1> DEFINE e == file.pieces[c]
           N == Len(e.parts)
           l == k + 1
<1>3. /\ N \in Nat /\ k \in 1..N /\ k \in 0..N /\ k \in Nat /\ k <= N
      /\ c \in Indices(file) /\ e.type \in Holders /\ Innermost(c) /\ Past(c, k)
      /\ k # N => l \in 1..N
      /\ pos = Behind(c, e, k).end /\ pos <= Len(file.bytes) /\ ver = file.ver
      /\ TopType = e.type /\ Top.left = Left(e, k)
  BY <1>1, <1>2, ComesFacts
<1>4. /\ N % 2 = 1 /\ Elements(e) = N - 1
      /\ \A j \in 1..N : /\ e.parts[j].piece # 0
                         /\ j % 2 = 1 => (file.pieces[e.parts[j].piece].obj = 0 <=> j = N)
                         /\ Left(e, j) = IF j % 2 = 1 THEN 2 ELSE 1
  <2>1. e.type = TYPE_DICT
    BY <1>1, <1>3
  <2>2. QED
    BY <1>3, <2>1, DictParts
<1>5. k % 2 = 1 /\ (ret = 0 <=> k = N)
  <2>1. ret = file.pieces[e.parts[k].piece].obj
    BY <1>2, Zenon DEF Comes
  <2>2. k % 2 = 1
    <3>1. 2 # 1
      OBVIOUS
    <3>2. QED
      BY <1>1, <1>3, <1>4, <3>1, Zenon
  <2>3. QED
    BY <1>3, <1>4, <2>1, <2>2, Zenon
<1>6. pos' = Behind(c, e, k).end /\ pos' <= Len(file.bytes) /\ ver' = file.ver
  BY <1>1, <1>3
<1>7. CASE ret = 0
  <2>1. Await(0, "object") /\ heap' = heap
    BY <1>1, <1>7
  <2>2. k = N
    BY <1>5, <1>7
  <2>3. Filled(file, heap, c) /\ Len(heap[e.obj].items) + 1 = k
    BY <1>2, Zenon DEF Comes
  <2>4. Only(heap, c)
    BY <2>3, Zenon DEF Only
  <2>5. Ended(file, heap, c)
    <3> DEFINE a == Len(heap[e.obj].items)
    <3>1. a \in Nat
      <4>1. e.obj \in 1..Len(heap)
        BY <1>3, InnermostFacts
      <4>2. heap[e.obj] \in ObjectsUpTo(Len(heap))
        BY <4>1, Typed DEF FInv
      <4>3. heap[e.obj].items \in Seq(0..Len(heap))
        BY <4>2 DEF ObjectsUpTo
      <4>4. QED
        BY <4>3, SeqIn
    <3>2. a + 1 = k /\ k = N
      BY <2>2, <2>3
    <3> HIDE DEF a, N
    <3>3. a = N - 1
      BY <1>3, <3>1, <3>2
    <3>4. QED
      BY <1>4, <3>3, Zenon DEF Ended, a
  <2>6. Only(heap', c) /\ Ended(file, heap', c)
    BY <2>1, <2>4, <2>5
  <2> HIDE DEF N, l
  <2>7. k \in 0..Len(e.parts) /\ k = Len(e.parts)
    BY <1>3, <2>2 DEF N
  <2>8. l = k + 1 /\ 0 = 0
    BY DEF l
  <2>9. \A left : left = 0 /\ Await(left, "object") => Follows'
    BY <1>1, <1>3, <1>6, <2>6, <2>7, <2>8, Resumes
  <2>10. QED
    BY <2>1, <2>9
<1>8. CASE ret # 0
  <2>1. Await(1, "object") /\ heap' = Given(heap, Top.obj, With(heap[Top.obj], ret))
    BY <1>1, <1>8
  <2>2. k # N
    BY <1>5, <1>8
  <2>3. k <= Elements(e)
    <3> HIDE DEF N
    <3>1. QED
      BY <1>3, <1>4, <2>2
  <2>4. Only(heap', c) /\ Len(heap'[e.obj].items) = k
    BY <1>2, <2>1, <2>3, TakesPart
  <2>5. l \in 1..N /\ l % 2 # 1
    BY <1>3, <1>5, <2>2
  <2>6. Left(e, l) = 1 /\ e.parts[l].piece # 0
    BY <1>4, <2>5, Zenon
  <2>7. 1 \in Nat \ {0} /\ 1 # 0 /\ k \in 0..N
    BY <1>3
  <2>8. l = k + 1
    OBVIOUS
  <2> HIDE DEF l
  <2>9. \A left : left = 1 /\ Await(left, "object") => Follows'
    BY <1>1, <1>3, <1>6, <2>4, <2>5, <2>6, <2>7, <2>8, Resumes
  <2>10. QED
    BY <2>1, <2>9
<1>9. QED
  BY <1>7, <1>8

LEMMA FollowValue == ASSUME FInv, IsListed(file), TakeValue PROVE Follows'
<1>1. /\ pc = "return" /\ frames # <<>> /\ TopType = TYPE_DICT /\ Top.left = 1
      /\ Await(2, "object") /\ heap' = Given(heap, Top.obj, With(heap[Top.obj], ret))
      /\ UNCHANGED <<file, pos, ver, refs, interns>>
  BY DEF TakeValue, Returned, Take, Given, With
<1>2. PICK c, k : Comes(c, k)
  BY <1>1, ComesBack
<1> DEFINE e == file.pieces[c]
           N == Len(e.parts)
           l == k + 1
<1>3. /\ N \in Nat /\ k \in 1..N /\ k \in 0..N /\ k \in Nat /\ k <= N
      /\ c \in Indices(file) /\ e.type \in Holders /\ Innermost(c) /\ Past(c, k)
      /\ k # N => l \in 1..N
      /\ pos = Behind(c, e, k).end /\ pos <= Len(file.bytes) /\ ver = file.ver
      /\ TopType = e.type /\ Top.left = Left(e, k)
  BY <1>1, <1>2, ComesFacts
<1>4. /\ N % 2 = 1 /\ Elements(e) = N - 1
      /\ \A j \in 1..N : /\ e.parts[j].piece # 0
                         /\ Left(e, j) = IF j % 2 = 1 THEN 2 ELSE 1
  <2>1. e.type = TYPE_DICT
    BY <1>1, <1>3
  <2>2. QED
    BY <1>3, <2>1, DictParts
<1>5. k % 2 # 1
  <2>1. 2 # 1
    OBVIOUS
  <2>2. QED
    BY <1>1, <1>3, <1>4, <2>1, Zenon
<1>6. k # N
  BY <1>4, <1>5
<1>7. k <= Elements(e)
  <2> HIDE DEF N
  <2>1. QED
    BY <1>3, <1>4, <1>6
<1>8. Only(heap', c) /\ Len(heap'[e.obj].items) = k
  BY <1>1, <1>2, <1>7, TakesPart
<1>9. l \in 1..N /\ l % 2 = 1
  BY <1>3, <1>5, <1>6
<1>10. Left(e, l) = 2 /\ e.parts[l].piece # 0
  BY <1>4, <1>9, Zenon
<1>11. 2 \in Nat \ {0} /\ 2 # 0
  OBVIOUS
<1>12. pos' = Behind(c, e, k).end /\ pos' <= Len(file.bytes) /\ ver' = file.ver
  BY <1>1, <1>3
<1>13. l = k + 1
  OBVIOUS
<1> HIDE DEF l
<1>14. \A left : left = 2 /\ Await(left, "object") => Follows'
  BY <1>1, <1>3, <1>8, <1>9, <1>10, <1>11, <1>12, <1>13, Resumes
<1>15. QED
  BY <1>1, <1>14

LEMMA FollowField == ASSUME FInv, IsListed(file), TakeField PROVE Follows'
<1>1. /\ pc = "return" /\ frames # <<>> /\ TopType \in CodeTypes
      /\ heap' = Given(heap, Top.obj, With(heap[Top.obj], ret))
      /\ Await(Top.left - 1, "field") /\ UNCHANGED <<file, pos, ver, refs, interns>>
  BY DEF TakeField, Returned, Take, Given, With
<1>2. PICK c, k : Comes(c, k)
  BY <1>1, ComesBack
<1> DEFINE e == file.pieces[c]
           N == Len(e.parts)
           l == k + 1
           left == Top.left - 1
<1>3. /\ N \in Nat /\ k \in 1..N /\ k \in 0..N /\ k \in Nat /\ k <= N
      /\ c \in Indices(file) /\ e.type \in Holders /\ Innermost(c) /\ Past(c, k)
      /\ k # N => l \in 1..N
      /\ pos = Behind(c, e, k).end /\ pos <= Len(file.bytes) /\ ver = file.ver
      /\ TopType = e.type /\ Top.left = Left(e, k)
  BY <1>1, <1>2, ComesFacts
<1>4. e.type \in CodeTypes /\ e.type # TYPE_DICT
  BY <1>1, <1>3, HoldersApart
<1>5. Elements(e) = N /\ Left(e, k) = N - k + 1 /\ Left(e, l) = N - l + 1
  BY <1>4, Zenon DEF Elements, Left
<1>6. Only(heap', c) /\ Len(heap'[e.obj].items) = k
  BY <1>1, <1>2, <1>3, <1>5, TakesPart
<1> HIDE DEF N
<1>7. left = Left(e, l) /\ (left = 0 => k = N) /\ (left # 0 => k # N /\ left \in Nat \ {0})
  BY <1>3, <1>5
<1>8. left = 0 => k = Len(e.parts) /\ Ended(file, heap', c)
  BY <1>5, <1>6, <1>7, Zenon DEF Ended, N
<1>9. left # 0 => /\ l \in 1..Len(e.parts) /\ left \in Nat \ {0} /\ left = Left(e, l)
                  /\ Len(heap'[e.obj].items) = k
  BY <1>3, <1>6, <1>7, Zenon DEF N
<1>10. pos' = Behind(c, e, k).end /\ pos' <= Len(file.bytes) /\ ver' = file.ver
  BY <1>1, <1>3
<1>11. k \in 0..Len(e.parts) /\ Innermost(c) /\ Past(c, k) /\ Only(heap', c)
  BY <1>3, <1>6, Zenon DEF N
<1> HIDE DEF left, l
<1>12. l = k + 1 /\ Await(left, "field")
  BY <1>1 DEF l, left
<1>13. QED
  BY <1>1, <1>4, <1>8, <1>9, <1>10, <1>11, <1>12, Resumes

\* The field that comes next of a code object, its kth.
FieldIsNext(c, k) ==
  LET e == file.pieces[c]
      m == k - 1
  IN /\ c \in Indices(file) /\ e.type \in CodeTypes /\ k \in 1..Len(e.parts)
     /\ OnField(file, heap, frames, refs, interns, pos, c, k)
     /\ m \in 0..Len(e.parts)
     /\ Innermost(c) /\ Past(c, m) /\ pos = Behind(c, e, m).end
     /\ Filled(file, heap, c) /\ Len(heap[e.obj].items) = m
     /\ Top.left = Left(e, k) /\ TopType = e.type
     /\ IsFieldPart(file, c, e, k, NextField)

\* Reading a field, the listing has one there.
LEMMA OnAField ==
  ASSUME FInv, IsListed(file), pc = "field"
  PROVE  \E c, k : FieldIsNext(c, k)
<1>1. PICK c \in Indices(file) :
        file.pieces[c].type \in CodeTypes /\ \E k \in 1..Len(file.pieces[c].parts) :
          OnField(file, heap, frames, refs, interns, pos, c, k)
  BY DEF FInv, Follows
<1>2. PICK k \in 1..Len(file.pieces[c].parts) :
        OnField(file, heap, frames, refs, interns, pos, c, k)
  BY <1>1
<1> DEFINE e == file.pieces[c]
           m == k - 1
           b == Behind(c, e, m).last
<1>3. m \in 0..Len(e.parts) /\ m + 1 = k /\ e.type \in Holders
  <2> DEFINE N == Len(e.parts)
  <2>1. N \in Nat /\ k \in 1..N
    BY Facts, PieceFacts
  <2>2. e.type \in Holders
    BY <1>1, TypesApart
  <2> HIDE DEF N
  <2>3. m \in 0..N /\ m + 1 = k
    BY <2>1
  <2>4. QED
    BY <2>2, <2>3 DEF N
<1>4. /\ Awaiting(file, heap, frames, pos, c, k)
      /\ Objects(file, heap, frames, b) /\ Tables(file, refs, interns, b)
  BY <1>2, Zenon DEF OnField
<1>5. b \in Nat /\ b <= Len(file.pieces) /\ Len(file.pieces) \in Nat
  <2>1. b \in Nat /\ b <= Len(file.pieces)
    BY <1>3, Facts, BehindFacts
  <2>2. Len(file.pieces) \in Nat
    BY Facts, PieceFacts
  <2>3. QED
    BY <2>1, <2>2
<1>6. b \in 0..Len(file.pieces)
  <2> HIDE DEF b
  <2>1. QED
    BY <1>5
<1>7. /\ frames # <<>> /\ Len(frames) = Len(e.way)
      /\ Under(file, heap, frames, e.way, Len(frames) - 1)
      /\ Waits(file, heap, Top, c, k) /\ pos = Behind(c, e, m).end
  BY <1>4, Zenon DEF Awaiting, Top
<1>8. Top.obj = e.obj /\ Len(heap[Top.obj].items) + 1 = k /\ Top.left = Left(e, k)
  BY <1>7, Zenon DEF Waits
<1>9. Filled(file, heap, c) /\ heap[e.obj].type = e.type
  BY <1>3, <1>4, Facts, LastFacts, Zenon
<1>10. Innermost(c)
  BY <1>3, <1>7, <1>8, Zenon DEF Innermost
<1>11. Past(c, m)
  BY <1>4, <1>6, Zenon DEF Past
<1>12. TopType = e.type
  BY <1>8, <1>9, Zenon DEF TopType
<1>13. NextField = Layout(ver)[k] /\ ver = file.ver
  <2>1. NextField = Layout(ver)[Len(heap[Top.obj].items) + 1]
    BY <1>1, <1>7, <1>12, NextFieldIs DEF FInv
  <2>2. ver = file.ver
    BY DEF FInv, Follows
  <2>3. QED
    BY <1>8, <2>1, <2>2, Zenon
<1>14. IsFieldPart(file, c, e, k, NextField)
  <2>1. \A j \in 1..Len(e.parts) : IsFieldPart(file, c, e, j, Layout(file.ver)[j])
    BY <1>1, Facts, CodeParts
  <2>2. QED
    BY <1>13, <2>1, Zenon
<1>15. Len(heap[e.obj].items) = m
  <2> DEFINE a == Len(heap[e.obj].items)
  <2>1. a \in Nat
    <3>1. e.obj \in 1..Len(heap)
      BY <1>10, InnermostFacts
    <3>2. heap[e.obj] \in ObjectsUpTo(Len(heap))
      BY <3>1, Typed DEF FInv
    <3>3. heap[e.obj].items \in Seq(0..Len(heap))
      BY <3>2 DEF ObjectsUpTo
    <3>4. QED
      BY <3>3, SeqIn
  <2>2. a + 1 = k
    BY <1>8, Zenon
  <2> HIDE DEF a
  <2>3. a = m
    BY <2>1, <2>2
  <2>4. QED
    BY <2>3 DEF a
<1>16. FieldIsNext(c, k)
  BY <1>1, <1>2, <1>3, <1>7, <1>8, <1>9, <1>10, <1>11, <1>12, <1>14, <1>15, Zenon DEF FieldIsNext
<1>17. QED
  BY <1>16, Zenon

\* Asking for an object, the reader stands at its piece.
LEMMA FollowAsk == ASSUME FInv, IsListed(file), AskField PROVE Follows'
<1>1. /\ pc = "field" /\ ~IsNumber(NextField) /\ pc' = "object"
      /\ UNCHANGED <<file, pos, ver, heap, refs, interns, frames, ret>>
  BY DEF AskField
<1>2. PICK c, k : FieldIsNext(c, k)
  BY <1>1, OnAField
<1> DEFINE e == file.pieces[c]
           m == k - 1
<1>3. /\ c \in Indices(file) /\ e.type \in CodeTypes /\ k \in 1..Len(e.parts)
      /\ OnField(file, heap, frames, refs, interns, pos, c, k)
      /\ m \in 0..Len(e.parts) /\ IsFieldPart(file, c, e, k, NextField)
  BY <1>2, Zenon DEF FieldIsNext
<1>4. e.type \in Holders
  BY <1>3, TypesApart
<1>5. e.parts[k].piece = Behind(c, e, m).last + 1
  BY <1>1, <1>3, Zenon DEF IsFieldPart, IsPart
<1>6. Behind(c, e, m).last \in Nat
  BY <1>3, Facts, BehindFacts
<1>7. e.parts[k].piece # 0
  <2> HIDE DEF e, m
  <2>1. QED
    BY <1>5, <1>6
<1>8. OnField(file, heap', frames', refs', interns', pos', c, k)
  BY <1>1, <1>3
<1>9. ver' = file.ver /\ pos' <= Len(file.bytes)
  BY <1>1 DEF FInv, Follows
<1>10. QED
  BY <1>1, <1>3, <1>4, <1>7, <1>8, <1>9, GoesOn

\* A number put into a code object leaves its elements alone.
LEMMA WithNumberFacts ==
  ASSUME NEW n \in Nat, NEW o \in ObjectsUpTo(n), NEW x \in Int
  PROVE  LET p == WithNumber(o, x)
         IN /\ p \in ObjectsUpTo(n) /\ p.type = o.type
            /\ p.items = Append(o.items, 0) /\ p.val = Append(o.val, x)
            /\ Len(p.val) = Len(o.val) + 1 /\ p.val[Len(o.val) + 1] = x
            /\ \A j \in 1..Len(o.val) : p.val[j] = o.val[j]
            /\ Len(o.val) \in Nat /\ Len(o.items) \in Nat
<1> DEFINE p == WithNumber(o, x)
<1>1. /\ o.val \in Seq(Int) /\ o.items \in Seq(0..n)
      /\ o.type \in Types /\ o.size \in Nat
  BY DEF ObjectsUpTo
<1>2. /\ Append(o.val, x) \in Seq(Int) /\ Append(o.items, 0) \in Seq(0..n)
      /\ Len(o.val) \in Nat /\ Len(o.items) \in Nat
  BY <1>1, SeqIn
<1>3. p = [o EXCEPT !.val = Append(o.val, x), !.items = Append(o.items, 0)]
  BY DEF WithNumber
<1>4. /\ p \in ObjectsUpTo(n) /\ p.type = o.type
      /\ p.items = Append(o.items, 0) /\ p.val = Append(o.val, x)
  BY <1>1, <1>2, <1>3 DEF ObjectsUpTo
<1>5. /\ Len(Append(o.val, x)) = Len(o.val) + 1 /\ Append(o.val, x)[Len(o.val) + 1] = x
      /\ \A j \in 1..Len(o.val) : Append(o.val, x)[j] = o.val[j]
  BY <1>1, AppendAny
<1>6. QED
  BY <1>2, <1>4, <1>5

\* A number field that is there is read as it was.
LEMMA NumberThere ==
  ASSUME file \in Files, ver = file.ver, NEW field, NEW n, NEW p \in Nat, Has(p, Width(field)),
         Storable(file.ver, field, n),
         IF field.kind = "short" THEN HasShort(file, p, Stored(file.ver, field, n))
                                 ELSE HasLong(file, p, Stored(file.ver, field, n))
  PROVE  NumberAt(field, p) = n /\ NumberIsGood(field, p) /\ n \in Int
<1> DEFINE s == Stored(file.ver, field, n)
<1>1. NumberRead(field, p) = s
  <2>1. CASE field.kind = "short"
    <3>1. HasShort(file, p, s) /\ Has(p, 2)
      BY <2>1, Zenon DEF Width
    <3>2. get16(p) = s
      BY <3>1, ShortThere
    <3>3. QED
      BY <2>1, <3>2, Zenon DEF NumberRead
  <2>2. CASE field.kind # "short"
    <3>1. HasLong(file, p, s) /\ Has(p, 4)
      BY <2>2, Zenon DEF Width
    <3>2. get32(p) = s
      BY <3>1, LongThere
    <3>3. QED
      BY <2>2, <3>2, Zenon DEF NumberRead
  <2>3. QED
    BY <2>1, <2>2
<1>2. Remapped(field) <=> Lower(file.ver, field)
  <2>1. <<3, 8>>[1] = 3 /\ <<3, 8>>[2] = 8
    OBVIOUS
  <2>2. Since(ver, 3, 8) <=> NotBefore(file.ver, <<3, 8>>)
    BY <2>1, Zenon DEF Since, NotBefore
  <2>3. QED
    BY <2>2, Zenon DEF Remapped, Lower
<1>3. Fits(n) /\ (Lower(file.ver, field) => (n \div 65536) % 16 = 0)
  BY DEF Storable
<1>4. n \in Int
  BY <1>3, SMT DEF Fits
<1>5. CASE Remapped(field)
  <2> DEFINE t == (n % 65536) + 65536 * (n \div 1048576)
  <2>1. Remap(t) = n /\ CanRemap(t)
    BY <1>2, <1>3, <1>5, StoredIsRead
  <2>2. s = t
    BY <1>2, <1>5 DEF Stored
  <2> HIDE DEF s, t
  <2>3. NumberRead(field, p) = t
    BY <1>1, <2>2
  <2>4. QED
    BY <1>4, <1>5, <2>1, <2>3, Zenon DEF NumberAt, NumberIsGood
<1>6. CASE ~Remapped(field)
  <2>1. s = n
    BY <1>2, <1>6 DEF Stored
  <2>2. QED
    BY <1>1, <1>4, <1>6, <2>1, Zenon DEF NumberAt, NumberIsGood
<1>7. QED
  BY <1>5, <1>6

\* What reading the kth part, a number, does to the object.
LEMMA NumberGiven ==
  ASSUME FInv, IsListed(file), ver = file.ver, NEW c, NEW k, FieldIsNext(c, k),
         IsNumber(NextField), Has(pos, Width(NextField)), NEW m, m = k - 1
  PROVE  LET e == file.pieces[c]
             g == Given(heap, Top.obj, WithNumber(heap[Top.obj], NumberAt(NextField, pos)))
         IN /\ Only(g, c) /\ Len(g[e.obj].items) = k /\ Past(c, k)
            /\ pos + Width(NextField) = Behind(c, e, k).end
            /\ NumberIsGood(NextField, pos)
<1> DEFINE e == file.pieces[c]
           o == heap[e.obj]
           part == e.parts[k]
           n == e.val[part.taken]
           p == WithNumber(o, n)
<1>1. /\ c \in Indices(file) /\ e.type \in CodeTypes /\ k \in 1..Len(e.parts)
      /\ m \in 0..Len(e.parts)
      /\ Innermost(c) /\ Past(c, m) /\ pos = Behind(c, e, m).end
      /\ Filled(file, heap, c) /\ Len(o.items) = m
      /\ IsFieldPart(file, c, e, k, NextField)
  BY Zenon DEF FieldIsNext
<1>2. IsNumberPart(file, c, e, k, NextField)
  BY <1>1, Zenon DEF IsFieldPart
<1>3. /\ part.piece = 0
      /\ part.end = pos + Width(NextField)
      /\ part.last = Behind(c, e, m).last
      /\ part.taken = Behind(c, e, m).taken + 1
      /\ Storable(file.ver, NextField, n)
      /\ IF NextField.kind = "short" THEN HasShort(file, pos, Stored(file.ver, NextField, n))
                                     ELSE HasLong(file, pos, Stored(file.ver, NextField, n))
  BY <1>1, <1>2, Zenon DEF IsNumberPart
<1>4. file \in Files /\ pos \in Nat /\ Listed(file) /\ Len(heap) \in Nat
  BY Facts
<1>5. NumberAt(NextField, pos) = n /\ NumberIsGood(NextField, pos) /\ n \in Int
  <2> HIDE DEF n
  <2>1. QED
    BY <1>3, <1>4, NumberThere
<1>6. Behind(c, e, k) = part
  <2>1. k \in 0..Len(e.parts) /\ k # 0
    BY <1>1, <1>4, PieceFacts
  <2>2. QED
    BY <1>1, <1>4, <2>1, BehindFacts
<1>7. Past(c, k)
  BY <1>1, <1>3, <1>6, Zenon DEF Past
<1>8. Top.obj = e.obj /\ e.obj \in 1..Len(heap)
  BY <1>1, InnermostFacts, Zenon DEF Innermost
<1>9. o \in ObjectsUpTo(Len(heap))
  BY <1>8, Typed DEF FInv
<1> HIDE DEF n, o
<1>10. /\ p \in ObjectsUpTo(Len(heap)) /\ p.type = o.type
       /\ p.items = Append(o.items, 0)
       /\ Len(p.val) = Len(o.val) + 1 /\ p.val[Len(o.val) + 1] = n
       /\ \A j \in 1..Len(o.val) : p.val[j] = o.val[j]
       /\ Len(o.val) \in Nat /\ Len(o.items) \in Nat
  BY <1>4, <1>5, <1>9, WithNumberFacts
<1> HIDE DEF p
<1>11. /\ Len(o.val) = Behind(c, e, Len(o.items)).taken
       /\ \A j \in 1..Len(o.val) : o.val[j] = e.val[j]
  BY <1>1, Zenon DEF Filled, o
<1>12. /\ Len(p.val) = Behind(c, e, k).taken
       /\ \A j \in 1..Len(p.val) : p.val[j] = e.val[j]
  <2> DEFINE a == Len(o.val)
             v == e.val
  <2>1. a = Behind(c, e, m).taken
    BY <1>1, <1>11, Zenon
  <2>2. part.taken = a + 1
    BY <1>3, <2>1, Zenon
  <2>3. n = v[a + 1]
    BY <2>2, Zenon DEF n
  <2>4. Len(p.val) = a + 1 /\ p.val[a + 1] = n /\ a \in Nat
        /\ \A j \in 1..a : p.val[j] = v[j]
    BY <1>10, <1>11, Zenon
  <2> HIDE DEF a, v
  <2>5. \A j \in 1..(a + 1) : j \in 1..a \/ j = a + 1
    BY <2>4
  <2>6. \A j \in 1..(a + 1) : p.val[j] = v[j]
    BY <2>3, <2>4, <2>5, Zenon
  <2>7. QED
    BY <1>6, <2>2, <2>4, <2>6, Zenon DEF v
<1>13. k \in Nat /\ m + 1 = k /\ k <= Len(e.parts)
  BY <1>1, <1>4, PieceFacts
<1>14. Elements(e) = Len(e.parts)
  <2>1. e.type \in Holders
    BY <1>1, TypesApart
  <2>2. e.type # TYPE_DICT
    BY <1>1, <2>1, HoldersApart
  <2>3. QED
    BY <2>2, Zenon DEF Elements
<1>15. Item(file, e, k) = 0
  BY <1>3, Zenon DEF Item
<1>16. k <= Elements(e) /\ Len(o.items) + 1 = k
  BY <1>1, <1>13, <1>14, Zenon
<1>17. PartAdded(c, k, 0, p)
  BY <1>1, <1>8, <1>10, <1>12, <1>15, <1>16, Zenon DEF PartAdded, o
<1>18. LET g == Given(heap, Top.obj, p) IN Only(g, c) /\ Len(g[e.obj].items) = k
  BY <1>1, <1>10, <1>17, GivesPart
<1>19. pos + Width(NextField) = Behind(c, e, k).end
  BY <1>3, <1>6, Zenon
<1>20. QED
  BY <1>5, <1>7, <1>8, <1>18, <1>19, Zenon DEF p, o

\* A number read is the listing's, its flags moved up where they were lower.
LEMMA FollowReadNumber == ASSUME FInv, IsListed(file), ReadNumber PROVE Follows'
<1>1. /\ pc = "field" /\ IsNumber(NextField) /\ NumberIsGood(NextField, pos)
      /\ heap' = Given(heap, Top.obj, WithNumber(heap[Top.obj], NumberAt(NextField, pos)))
      /\ pos' = pos + Width(NextField)
      /\ Await(Top.left - 1, "field") /\ UNCHANGED <<file, ver, refs, interns>>
  BY DEF ReadNumber, Given
<1>2. PICK c, k : FieldIsNext(c, k)
  BY <1>1, OnAField
<1> DEFINE e == file.pieces[c]
           N == Len(e.parts)
           l == k + 1
           m == k - 1
           left == Top.left - 1
<1>3. ver = file.ver
  BY <1>1 DEF FInv, Follows
<1>4. Has(pos, Width(NextField))
  BY <1>1 DEF NumberIsGood
<1>5. /\ c \in Indices(file) /\ e.type \in CodeTypes /\ k \in 1..N /\ Innermost(c)
      /\ Top.left = Left(e, k)
  BY <1>2, Zenon DEF FieldIsNext
<1>6. N \in Nat /\ e.type # TYPE_DICT
  BY <1>5, Facts, PieceFacts, TypesApart
<1>7. Elements(e) = N /\ Left(e, k) = N - k + 1 /\ Left(e, l) = N - l + 1
  BY <1>6, Zenon DEF Elements, Left
<1>8. /\ Only(heap', c) /\ Len(heap'[e.obj].items) = k /\ Past(c, k)
      /\ pos' = Behind(c, e, k).end
  BY <1>1, <1>2, <1>3, <1>4, NumberGiven
<1>9. pos' <= Len(file.bytes)
  BY <1>1, <1>4 DEF Has
<1> HIDE DEF N
<1>10. /\ k \in 0..N /\ left = Left(e, l) /\ (left = 0 => k = N)
       /\ (left # 0 => l \in 1..N /\ left \in Nat \ {0})
  BY <1>5, <1>6, <1>7
<1>11. left = 0 => k = Len(e.parts) /\ Ended(file, heap', c)
  BY <1>7, <1>8, <1>10, Zenon DEF Ended, N
<1>12. left # 0 => /\ l \in 1..Len(e.parts) /\ left \in Nat \ {0} /\ left = Left(e, l)
                   /\ Len(heap'[e.obj].items) = k
  BY <1>8, <1>10, Zenon DEF N
<1>13. k \in 0..Len(e.parts) /\ ver' = file.ver
  BY <1>1, <1>3, <1>10 DEF N
<1> HIDE DEF left, l
<1>14. l = k + 1 /\ Await(left, "field")
  BY <1>1 DEF l, left
<1>15. QED
  BY <1>1, <1>5, <1>8, <1>9, <1>11, <1>12, <1>13, <1>14, Resumes

----------------------------------------------------------------------------
(* The beginning and the end of reading                                      *)

\* The header of a file that is not hashed has the size of the version.
LEMMA HeaderSizes ==
  ASSUME NEW v, v.maj \in Int, v.min \in Int
  PROVE  /\ HeaderSize(v) = 8 + (IF Since(v, 3, 7) THEN 4 ELSE 0) + (IF Since(v, 3, 3) THEN 4 ELSE 0)
         /\ HeaderSize(v) \in Nat /\ HeaderSize(v) >= 8
<1> DEFINE A == Since(v, 3, 7)
           B == Since(v, 3, 3)
           odd == At(4) % 2 = 1
           a == IF A THEN 4 ELSE 0
           b == IF A /\ odd THEN 8 ELSE IF B THEN 8 ELSE 4
           d == IF B THEN 4 ELSE 0
<1>1. A => B
  BY DEF Since
<1>2. HeaderSize(v) = 4 + a + b
  BY Zenon DEF HeaderSize
<1> HIDE DEF A, B, odd
<1>3. b = 4 + d /\ a \in {0, 4} /\ d \in {0, 4}
  BY <1>1
<1> HIDE DEF a, b, d
<1>4. HeaderSize(v) = 8 + a + d /\ HeaderSize(v) \in Nat /\ HeaderSize(v) >= 8
  BY <1>2, <1>3
<1>5. QED
  BY <1>4 DEF a, d, A, B

\* A known version is a pair of numbers.
LEMMA KnownIsTyped ==
  ASSUME NEW v \in KnownVersions
  PROVE  v.maj \in Int /\ v.min \in Int
BY DEF KnownVersions

\* The header is that of the version.
LEMMA HeaderThere ==
  ASSUME file \in Files, Listed(file), file.given = NoVersion, Has(0, 8)
  PROVE  /\ HeaderVersion = file.ver /\ file.ver # NoVersion
         /\ HeaderSize(file.ver) = file.start
<1>1. file.ver \in KnownVersions /\ IsHeader(file)
  BY ListingFacts
<1>2. /\ file.ver # NoVersion /\ setVersion(file.magic) = file.ver
      /\ HasLong(file, 0, file.magic)
      /\ file.start = 8 + (IF NotBefore(file.ver, <<3, 7>>) THEN 4 ELSE 0)
                        + (IF NotBefore(file.ver, <<3, 3>>) THEN 4 ELSE 0)
  BY <1>1, Zenon DEF IsHeader
<1>3. get32(0) = file.magic
  <2>1. Len(file.bytes) \in Nat
    BY FileFacts
  <2>2. Has(0, 4)
    BY <2>1 DEF Has
  <2>3. QED
    BY <1>2, <2>2, LongThere
<1>4. HeaderVersion = file.ver
  BY <1>2, <1>3 DEF HeaderVersion
<1>5. /\ NotBefore(file.ver, <<3, 7>>) <=> Since(file.ver, 3, 7)
      /\ NotBefore(file.ver, <<3, 3>>) <=> Since(file.ver, 3, 3)
  <2>1. <<3, 7>>[1] = 3 /\ <<3, 7>>[2] = 7 /\ <<3, 3>>[1] = 3 /\ <<3, 3>>[2] = 3
    OBVIOUS
  <2>2. QED
    BY <2>1, Zenon DEF NotBefore, Since
<1>6. HeaderSize(file.ver) = 8 + (IF Since(file.ver, 3, 7) THEN 4 ELSE 0)
                               + (IF Since(file.ver, 3, 3) THEN 4 ELSE 0)
  BY <1>1, KnownIsTyped, HeaderSizes
<1>7. HeaderSize(file.ver) = file.start
  BY <1>2, <1>5, <1>6, Zenon
<1>8. QED
  BY <1>2, <1>4, <1>7

\* The first piece is the code object.
LEMMA FirstPiece ==
  ASSUME FInv, IsListed(file)
  PROVE  /\ 1 \in Indices(file) /\ file.pieces[1].at = file.start
         /\ file.pieces[1].type \in CodeTypes /\ file.pieces[1].type \in Holders
         /\ Creates(file.pieces[1]) /\ file.pieces[1].is = file.pieces[1].type
         /\ file.pieces[1].last = Len(file.pieces)
<1>1. Listed(file)
  BY Facts
<1>2. Len(file.pieces) \in Nat /\ file.pieces \in Seq(Piece) /\ file.pieces[1].type \in CodeTypes
      /\ file.pieces[1].at = file.start /\ file.pieces[1].last = Len(file.pieces)
  BY <1>1, ListingFacts
<1>3. Len(file.pieces) # 0
  BY <1>2, EmptySeq DEF IsListed
<1>4. 1 \in Indices(file)
  BY <1>2, <1>3 DEF Indices
<1>5. file.pieces[1].type \in Holders
  BY <1>2, TypesApart
<1>6. QED
  BY <1>1, <1>2, <1>4, <1>5, HolderFacts

\* A file opened at the listing's start is read from the first piece.
LEMMA FollowOpen ==
  ASSUME FInv, IsListed(file), pc = "open", Open(file.ver, file.start), file.start <= Len(file.bytes)
  PROVE  Follows'
<1>1. /\ pc' = "object" /\ pos' = file.start /\ ver' = file.ver
      /\ UNCHANGED <<file, heap, refs, interns, frames, ret>>
  BY DEF Open
<1>2. frames = <<>> /\ Objects(file, heap, frames, 0) /\ Tables(file, refs, interns, 0)
  BY DEF FInv, Follows
<1> DEFINE w == file.pieces[1].way
<1>3. Len(w) - 1 = 0
  <2>1. 1 \in Indices(file) /\ Listed(file)
    BY Facts, FirstPiece
  <2>2. Len(w) = 1
    BY <2>1, OneAround
  <2>3. QED
    BY <2>2
<1>4. Len(frames) = 0
  BY <1>2, EmptySeq
<1>5. Under(file, heap, frames, w, Len(frames))
  BY <1>4 DEF Under
<1>6. Around(file, heap, frames, 1)
  BY <1>3, <1>4, <1>5, Zenon DEF Around
<1>7. 1 - 1 = 0
  OBVIOUS
<1>8. 1 \in Indices(file) /\ file.start = file.pieces[1].at
  BY FirstPiece
<1>9. OnObject(file, heap, frames, refs, interns, file.start, 1)
  BY <1>2, <1>6, <1>7, <1>8, Zenon DEF OnObject
<1>10. /\ 1 \in Indices(file')
       /\ OnObject(file', heap', frames', refs', interns', pos', 1)
       /\ ver' = file'.ver /\ pos' <= Len(file'.bytes)
  BY <1>1, <1>8, <1>9
<1>11. QED
  BY <1>1, <1>10 DEF Follows

\* A file with a header, and one without, opens at the listing's start.
LEMMA FollowFile == ASSUME FInv, IsListed(file), loadFromFile PROVE Follows'
<1>1. /\ pc = "open" /\ file.given = NoVersion /\ Has(0, HeaderSize(HeaderVersion))
      /\ Open(HeaderVersion, HeaderSize(HeaderVersion))
  BY DEF loadFromFile, HeaderIsGood
<1>2. file \in Files /\ Listed(file) /\ Len(file.bytes) \in Nat
  BY Facts
<1>3. Has(0, 8)
  <2>1. HeaderVersion \in Versions
    BY <1>2, Get32IsInt, VersionIsTyped DEF HeaderVersion, Versions
  <2>2. HeaderVersion.maj \in Int /\ HeaderVersion.min \in Int
    BY <2>1 DEF Versions
  <2>3. HeaderSize(HeaderVersion) \in Nat /\ HeaderSize(HeaderVersion) >= 8
    BY <2>2, HeaderSizes
  <2>4. QED
    BY <1>1, <1>2, <2>3 DEF Has
<1>4. HeaderVersion = file.ver /\ HeaderSize(file.ver) = file.start
  BY <1>1, <1>2, <1>3, HeaderThere
<1>5. file.start <= Len(file.bytes)
  <2>1. 0 + file.start <= Len(file.bytes) /\ file.start \in Nat
    <3>1. file.start \in Nat
      <4>1. file.ver \in KnownVersions
        BY <1>2, ListingFacts
      <4>2. QED
        BY <1>4, <4>1, KnownIsTyped, HeaderSizes
    <3>2. QED
      BY <1>1, <1>4, <3>1 DEF Has
  <2>2. QED
    BY <2>1
<1>6. Open(file.ver, file.start)
  BY <1>1, <1>4
<1>7. QED
  BY <1>1, <1>5, <1>6, FollowOpen

LEMMA FollowMarshalled == ASSUME FInv, IsListed(file), loadFromMarshalledFile PROVE Follows'
<1>1. /\ pc = "open" /\ file.given # NoVersion
      /\ Open([file.given EXCEPT !.unicode = file.given.maj >= 3], 0)
  BY DEF loadFromMarshalledFile
<1>2. Listed(file) /\ Len(file.bytes) \in Nat
  BY Facts
<1>3. IsHeader(file)
  BY <1>2, ListingFacts
<1>4. file.start = 0 /\ file.ver = [file.given EXCEPT !.unicode = file.given.maj >= 3]
  BY <1>1, <1>3, Zenon DEF IsHeader
<1>5. Open(file.ver, file.start) /\ file.start <= Len(file.bytes)
  BY <1>1, <1>2, <1>4
<1>6. QED
  BY <1>1, <1>5, FollowOpen

\* When the first call of LoadObject returns.
LEMMA LastReturn ==
  ASSUME FInv, IsListed(file), pc = "return", frames = <<>>
  PROVE  OnReturn(file, heap, frames, refs, interns, pos, ret, 1)
<1>1. PICK i \in Indices(file) : OnReturn(file, heap, frames, refs, interns, pos, ret, i)
  BY DEF FInv, Follows
<1>2. Len(frames) = 0
  BY EmptySeq
<1>3. i = 1
  BY <1>1, <1>2, Facts, GoesUp
<1>4. QED
  BY <1>1, <1>3

\* Reading ends behind the first piece.
LEMMA FollowFinish == ASSUME FInv, IsListed(file), Finish PROVE Follows'
<1>1. /\ pc = "return" /\ frames = <<>> /\ pc' = "done"
      /\ UNCHANGED <<file, pos, ver, heap, refs, interns, frames, ret>>
  BY DEF Finish
<1>2. OnReturn(file, heap, frames, refs, interns, pos, ret, 1)
  BY <1>1, LastReturn
<1>3. pos <= Len(file.bytes) /\ ver = file.ver
  BY <1>1 DEF FInv, Follows
<1>4. /\ OnReturn(file', heap', frames', refs', interns', pos', ret', 1)
      /\ ver' = file'.ver /\ pos' <= Len(file'.bytes)
  BY <1>1, <1>2, <1>3
<1>5. QED
  BY <1>1, <1>4 DEF Follows

\* FInv holds before a file is opened.
LEMMA InitFInv == Init => FInv
<1> SUFFICES ASSUME Init PROVE FInv
  OBVIOUS
<1>1. IInv
  BY InitIInv
<1>2. /\ file \in Files /\ refs = <<>> /\ interns = <<>> /\ frames = <<>> /\ pc = "open"
      /\ heap = [s \in 1..5 |-> Object(Singletons[s], <<>>, 0)]
  BY DEF Init
<1>3. Made(file, 0) = 0 /\ Noted(file, 0) = 0 /\ Kept(file, 0) = 0
  BY Zenon DEF Made, Noted, Kept
<1>4. Len(heap) = 5 + Made(file, 0) /\ \A s \in 1..5 : heap[s].type = Singletons[s]
  <2> DEFINE O(s) == Object(Singletons[s], <<>>, 0)
  <2>1. \A s \in 1..5 : O(s).type = Singletons[s]
    BY NewObject
  <2>2. heap = [s \in 1..5 |-> O(s)]
    BY <1>2
  <2>3. \A s \in 1..5 : O(s) \in ObjectsUpTo(0)
    BY TypesApart, EmptyObjectFacts
  <2> HIDE DEF O
  <2>4. Len(heap) = 5 /\ \A s \in 1..5 : heap[s] = O(s)
    BY <2>2
  <2>5. QED
    BY <1>3, <2>1, <2>4
<1>5. Objects(file, heap, frames, 0)
  BY <1>4 DEF Objects
<1>6. Tables(file, refs, interns, 0)
  BY <1>2, <1>3, EmptySeq DEF Tables
<1>7. Follows
  <2>1. pos <= Len(file.bytes)
    BY <1>2, FileFacts DEF Init
  <2>2. QED
    BY <1>2, <1>5, <1>6, <2>1 DEF Follows
<1>8. QED
  BY <1>1, <1>7 DEF FInv

----------------------------------------------------------------------------
(* Nothing goes wrong in a file that is whole                                *)

\* In a whole file all of a piece is there.
LEMMA AllThere ==
  ASSUME FInv, IsListed(file), file.whole, NEW i \in Indices(file)
  PROVE  LET e == file.pieces[i]
         IN /\ e.next <= Len(file.bytes)
            /\ \A k \in 0..Len(e.parts) : Behind(i, e, k).end <= Len(file.bytes)
            /\ LeadOf(e) \in Nat /\ e.at \in Nat /\ e.at + 1 \in Nat
            /\ Has(e.at, 1) /\ Has(e.at + 1, LeadOf(e))
<1> DEFINE e == file.pieces[i]
<1>1. Listed(file) /\ Len(file.bytes) \in Nat
  BY Facts
<1>2. Within(Len(file.bytes), i, e)
  BY <1>1, ListingFacts
<1>3. e.next <= Len(file.bytes) /\ \A k \in 0..Len(e.parts) : Behind(i, e, k).end <= Len(file.bytes)
  BY <1>2, Zenon DEF Within
<1>4. e.at \in Nat /\ Len(e.parts) \in Nat
  BY <1>1, PieceFacts
<1>5. LeadOf(e) \in Nat
  BY DEF LeadOf, LengthWidth
<1>6. 0 \in 0..Len(e.parts)
  BY <1>4
<1>7. Behind(i, e, 0).end = e.at + 1 + LeadOf(e)
  BY DEF Behind
<1>8. e.at + 1 + LeadOf(e) <= Len(file.bytes)
  BY <1>3, <1>6, <1>7
<1> HIDE DEF e
<1>9. Has(e.at, 1) /\ Has(e.at + 1, LeadOf(e)) /\ e.at + 1 \in Nat
  BY <1>1, <1>4, <1>5, <1>8 DEF Has
<1>10. QED
  BY <1>3, <1>4, <1>5, <1>9 DEF e

\* In a whole file a reference is in its table.
LEMMA ReferenceThere ==
  ASSUME FInv, IsListed(file), file.whole, NEW i \in Indices(file),
         Tables(file, refs, interns, i - 1), file.pieces[i].type = TYPE_OBREF
  PROVE  IndexIsGood(file.pieces[i].at + 1, Len(refs))
<1> DEFINE e == file.pieces[i]
           to == file.pieces[e.to]
<1>1. IsReference(file, i, e)
  BY Facts, KindOf
<1>2. e.to \in 1..(i - 1) /\ to.flagged /\ HasLong(file, e.at + 1, to.noted - 1) /\ e.next = e.at + 5
  BY <1>1, Zenon DEF IsReference
<1>3. e.at \in Nat /\ e.at + 1 \in Nat /\ e.next <= Len(file.bytes)
  BY AllThere
<1>4. Has(e.at + 1, 4)
  <2> DEFINE a == e.at
             q == e.next
  <2>1. a \in Nat /\ q = a + 5 /\ q <= Len(file.bytes)
    BY <1>2, <1>3
  <2> HIDE DEF a, q
  <2>2. Has(a + 1, 4)
    BY <2>1, Facts DEF Has
  <2>3. QED
    BY <2>2 DEF a
<1>5. get32(e.at + 1) = to.noted - 1
  BY <1>2, <1>3, <1>4, Facts, LongThere
<1>6. to.noted \in 1..Len(refs)
  BY <1>2, Zenon DEF Tables
<1>7. Len(refs) \in Nat
  BY Facts
<1> HIDE DEF to
<1>8. get32(e.at + 1) \in 0..(Len(refs) - 1)
  BY <1>5, <1>6, <1>7
<1>9. QED
  BY <1>4, <1>8 DEF IndexIsGood

\* In a whole file a string reference is in its table.
LEMMA StringReferenceThere ==
  ASSUME FInv, IsListed(file), file.whole, NEW i \in Indices(file),
         Tables(file, refs, interns, i - 1), file.pieces[i].type = TYPE_STRINGREF
  PROVE  IndexIsGood(file.pieces[i].at + 1, Len(interns))
<1> DEFINE e == file.pieces[i]
           to == file.pieces[e.to]
<1>1. IsStringReference(file, i, e)
  BY Facts, KindOf
<1>2. /\ e.to \in 1..(i - 1) /\ to.type \in Interned /\ HasLong(file, e.at + 1, to.kept - 1)
      /\ e.next = e.at + 5
  BY <1>1, Zenon DEF IsStringReference
<1>3. e.at \in Nat /\ e.at + 1 \in Nat /\ e.next <= Len(file.bytes)
  BY AllThere
<1>4. Has(e.at + 1, 4)
  <2> DEFINE a == e.at
             q == e.next
  <2>1. a \in Nat /\ q = a + 5 /\ q <= Len(file.bytes)
    BY <1>2, <1>3
  <2> HIDE DEF a, q
  <2>2. Has(a + 1, 4)
    BY <2>1, Facts DEF Has
  <2>3. QED
    BY <2>2 DEF a
<1>5. get32(e.at + 1) = to.kept - 1
  BY <1>2, <1>3, <1>4, Facts, LongThere
<1>6. to.kept \in 1..Len(interns)
  BY <1>2, Zenon DEF Tables
<1>7. Len(interns) \in Nat
  BY Facts
<1> HIDE DEF to
<1>8. get32(e.at + 1) \in 0..(Len(interns) - 1)
  BY <1>5, <1>6, <1>7
<1>9. QED
  BY <1>4, <1>8 DEF IndexIsGood

\* In a whole file a number is there with all its digits.
LEMMA NumeralThere ==
  ASSUME FInv, IsListed(file), file.whole, NEW i \in Indices(file), file.pieces[i].type \in Numbers
  PROVE  LET e == file.pieces[i] IN Has(e.at + 1, Extent(e.type, e.at + 1))
<1> DEFINE e == file.pieces[i]
           N == Len(e.val)
<1>1. IsNumeral(file, e) /\ e \in Piece /\ N \in Nat
  BY Facts, KindOf, PieceFacts
<1>2. e.next = e.at + 1 + N
  BY <1>1, Zenon DEF IsNumeral
<1>3. e.at \in Nat /\ e.next <= Len(file.bytes)
  BY AllThere
<1>4. Has(e.at + 1, N)
  BY <1>2, <1>3 DEF Has
<1>5. Extent(e.type, e.at + 1) = N
  BY <1>1, <1>4, Facts, ExtentThere
<1>6. QED
  BY <1>4, <1>5

\* A length within the file is no negative number taken for a large one.
LEMMA CountOf ==
  ASSUME NEW n \in Nat, file \in Files, n <= Len(file.bytes)
  PROVE  Count(n) = n
<1>1. Len(file.bytes) \in Nat
  BY FileFacts
<1>2. QED
  BY <1>1 DEF Count

\* In a whole file a text is there, and ASCII where it says so.
LEMMA WholeText ==
  ASSUME FInv, IsListed(file), file.whole, NEW i \in Indices(file), file.pieces[i].type \in Texts
  PROVE  TextIsGood(file.pieces[i].type, file.pieces[i].at + 1)
<1> DEFINE e == file.pieces[i]
           N == Len(e.val)
           w == LengthWidth(e.type)
           p == e.at + 1
<1>1. IsText(file, e) /\ e.val \in Seq(Int) /\ N \in Nat
  BY Facts, KindOf, PieceFacts
<1>2. /\ HasLength(file, e.type, p, N) /\ HasBytes(file, p + w, e.val)
      /\ e.next = p + w + N /\ (e.type \in Ascii => check_ascii(e.val))
  BY <1>1, Zenon DEF IsText
<1>3. p \in Nat /\ e.next <= Len(file.bytes) /\ Len(file.bytes) \in Nat /\ file \in Files
  BY AllThere, Facts
<1>4. w \in Nat
  BY DEF LengthWidth
<1> DEFINE L == Len(file.bytes)
           q == e.next
<1>5. q = p + w + N /\ q <= L /\ L \in Nat
  BY <1>2, <1>3
<1> HIDE DEF p, w, N, q, L
<1>6. p + w <= L /\ p + (w + N) <= L /\ p + w + N <= L /\ N <= L /\ p + w \in Nat
  BY <1>1, <1>3, <1>4, <1>5
<1>7. Has(p, w) /\ Has(p, w + N) /\ Has(p + w, N)
  BY <1>6 DEF Has, L
<1>8. LengthAt(e.type, p) = N
  <2>1. HasLength(file, e.type, p, N) /\ Has(p, LengthWidth(e.type))
    BY <1>2, <1>7 DEF w
  <2>2. QED
    BY <1>1, <1>3, <2>1, LengthThere
<1>9. Count(N) = N
  BY <1>1, <1>3, <1>6, CountOf DEF L
<1>10. TextAt(e.type, p) = e.val
  <2>1. Slice(p + w, N) = e.val
    <3>1. \A s \in Seq(Int) : HasBytes(file, p + w, s) /\ Has(p + w, Len(s)) => Slice(p + w, Len(s)) = s
      BY <1>3, <1>6, TextThere
    <3>2. QED
      BY <1>1, <1>2, <1>7, <3>1 DEF N
  <2>2. QED
    BY <1>8, <2>1 DEF TextAt, w
<1>11. LengthAt(e.type, p) >= 0
  BY <1>1, <1>8
<1>12. Has(p, w + Count(LengthAt(e.type, p)))
  BY <1>7, <1>8, <1>9, Zenon
<1>13. e.type \in Ascii => check_ascii(TextAt(e.type, p))
  BY <1>2, <1>10, Zenon
<1>14. TextIsGood(e.type, p)
  BY <1>7, <1>11, <1>12, <1>13, Zenon DEF TextIsGood, w
<1>15. QED
  BY <1>14 DEF p

\* In a whole file the next object can be read.
LEMMA WholeReadable ==
  ASSUME FInv, IsListed(file), file.whole, pc = "object"
  PROVE  Readable
<1>1. PICK i \in Indices(file) : OnObject(file, heap, frames, refs, interns, pos, i)
  BY DEF FInv, Follows
<1> DEFINE e == file.pieces[i]
<1>2. pos = e.at /\ Tables(file, refs, interns, i - 1)
  BY <1>1 DEF OnObject
<1>3. Has(pos, 1) /\ Has(pos + 1, LeadOf(e)) /\ pos + 1 \in Nat
  BY <1>2, AllThere
<1>4. /\ TypeByte = e.type
      /\ At(pos) = TYPE_OBREF <=> e.type = TYPE_OBREF /\ ~e.flagged
  BY <1>2, <1>3, Facts, TypeRead
<1>5. At(pos) = TYPE_OBREF => IndexIsGood(pos + 1, Len(refs))
  BY <1>2, <1>4, ReferenceThere
<1>6. TypeByte = TYPE_STRINGREF => IndexIsGood(pos + 1, Len(interns))
  BY <1>2, <1>4, StringReferenceThere
<1>7. TypeByte \in Numbers => Has(pos + 1, Extent(TypeByte, pos + 1))
  BY <1>2, <1>4, NumeralThere
<1>8. TypeByte \in Texts => TextIsGood(TypeByte, pos + 1)
  BY <1>2, <1>4, WholeText
<1>9. ASSUME TypeByte \in Series
      PROVE  Has(pos + 1, LengthWidth(TypeByte)) /\ LengthAt(TypeByte, pos + 1) >= 0
  <2> DEFINE N == Len(e.parts)
  <2>1. LeadOf(e) = LengthWidth(TypeByte)
    BY <1>4, <1>9, Zenon DEF LeadOf
  <2>2. Has(pos + 1, LengthWidth(TypeByte))
    BY <1>3, <2>1
  <2>3. IsSeries(file, i, e) /\ N \in Nat
    BY <1>4, <1>9, Facts, KindOf, PieceFacts
  <2>4. HasLength(file, TypeByte, pos + 1, N)
    BY <1>2, <1>4, <2>3, Zenon DEF IsSeries
  <2> HIDE DEF N
  <2>5. LengthAt(TypeByte, pos + 1) = N
    BY <1>3, <2>2, <2>3, <2>4, Facts, LengthThere
  <2>6. QED
    BY <2>2, <2>3, <2>5
<1>10. QED
  BY <1>3, <1>5, <1>6, <1>7, <1>8, <1>9, Zenon DEF Readable

\* In a whole file the header is there and of a known version.
LEMMA WholeHeader ==
  ASSUME FInv, IsListed(file), file.whole, file.given = NoVersion
  PROVE  HeaderIsGood
<1>1. file \in Files /\ Listed(file) /\ Len(file.bytes) \in Nat
  BY Facts
<1>2. file.ver \in KnownVersions
  BY <1>1, ListingFacts
<1>3. 1 \in Indices(file) /\ file.pieces[1].at = file.start
  BY FirstPiece
<1>4. Has(file.start, 1) /\ file.start \in Nat
  BY <1>3, AllThere
<1>5. file.start = 8 + (IF NotBefore(file.ver, <<3, 7>>) THEN 4 ELSE 0)
                     + (IF NotBefore(file.ver, <<3, 3>>) THEN 4 ELSE 0)
  <2>1. IsHeader(file)
    BY <1>1, ListingFacts
  <2>2. QED
    BY <2>1, Zenon DEF IsHeader
<1>6. file.start >= 8
  <2> DEFINE a == IF NotBefore(file.ver, <<3, 7>>) THEN 4 ELSE 0
             b == IF NotBefore(file.ver, <<3, 3>>) THEN 4 ELSE 0
  <2>1. a \in {0, 4} /\ b \in {0, 4}
    BY Zenon
  <2>2. file.start = 8 + a + b
    BY <1>5
  <2> HIDE DEF a, b
  <2>3. QED
    BY <2>1, <2>2
<1>7. Has(0, 8) /\ Has(0, file.start)
  BY <1>1, <1>4, <1>6 DEF Has
<1>8. HeaderVersion = file.ver /\ file.ver # NoVersion /\ HeaderSize(file.ver) = file.start
  BY <1>1, <1>7, HeaderThere
<1>9. QED
  BY <1>7, <1>8 DEF HeaderIsGood

\* In a whole file the next number of a code object is there.
LEMMA WholeNumber ==
  ASSUME FInv, IsListed(file), file.whole, pc = "field", IsNumber(NextField)
  PROVE  NumberIsGood(NextField, pos)
<1>1. PICK c, k : FieldIsNext(c, k)
  BY OnAField
<1> DEFINE e == file.pieces[c]
           m == k - 1
<1>2. /\ c \in Indices(file) /\ k \in 1..Len(e.parts) /\ pos = Behind(c, e, m).end
      /\ IsFieldPart(file, c, e, k, NextField)
  BY <1>1, Zenon DEF FieldIsNext
<1>3. e.parts[k].end = pos + Width(NextField)
  BY <1>2, Zenon DEF IsFieldPart, IsNumberPart
<1>4. k \in 0..Len(e.parts) /\ k # 0
  BY <1>2, Facts, PieceFacts
<1>5. Behind(c, e, k).end = e.parts[k].end /\ Behind(c, e, k).end <= Len(file.bytes)
  BY <1>2, <1>4, AllThere DEF Behind
<1>6. Has(pos, Width(NextField))
  BY <1>3, <1>5 DEF Has
<1>7. ver = file.ver
  BY DEF FInv, Follows
<1>8. QED
  BY <1>1, <1>6, <1>7, NumberGiven

\* A piece that stands for an object stands for one.
LEMMA ObjectIsThere ==
  ASSUME NEW f, Listed(f), NEW i \in Indices(f), f.pieces[i].is \in Types
  PROVE  f.pieces[i].obj # 0
<1>1. 0 \notin Types
  BY DEF Types, Strings, Texts, Ascii, Short, Interned, Numbers, Series, CodeTypes, Singletons,
         TYPE_NONE, TYPE_ELLIPSIS, TYPE_STOPITER, TYPE_FALSE, TYPE_TRUE, TYPE_STRINGREF, TYPE_DICT,
         TYPE_STRING, TYPE_UNICODE, TYPE_ASCII, TYPE_ASCII_INTERNED, TYPE_INTERNED,
         TYPE_SHORT_ASCII, TYPE_SHORT_ASCII_INTERNED, TYPE_INT, TYPE_INT64, TYPE_LONG, TYPE_FLOAT,
         TYPE_COMPLEX, TYPE_BINARY_FLOAT, TYPE_BINARY_COMPLEX, TYPE_TUPLE, TYPE_SMALL_TUPLE,
         TYPE_LIST, TYPE_SET, TYPE_FROZENSET, TYPE_CODE, TYPE_CODE2
<1>2. \A j \in Indices(f) : Creates(f.pieces[j]) => f.pieces[j].obj # 0
  <2>1. \A j \in Indices(f) : Creates(f.pieces[j]) =>
          f.pieces[j].obj = 5 + f.pieces[j].made /\ f.pieces[j].made \in Nat
    BY CountsGrow, PieceFacts
  <2>2. QED
    BY <2>1
<1>3. \A j \in Indices(f) : \A s \in 1..5 : f.pieces[j].type = Singletons[s] => f.pieces[j].obj # 0
  <2>1. \A j \in Indices(f) : \A s \in 1..5 : f.pieces[j].type = Singletons[s] => f.pieces[j].obj = s
    BY KindOf
  <2>2. QED
    BY <2>1
<1>4. \A j \in Indices(f) :
        f.pieces[j].type # TYPE_OBREF /\ f.pieces[j].obj = 0 => f.pieces[j].type = TYPE_NULL
  <2>1. \A j \in Indices(f) : ~Creates(f.pieces[j]) =>
          \/ f.pieces[j].type = TYPE_OBREF \/ f.pieces[j].type = TYPE_NULL
          \/ \E s \in 1..5 : f.pieces[j].type = Singletons[s]
    BY KindOf
  <2>2. QED
    BY <1>2, <1>3, <2>1, Zenon
<1>5. \A j \in Indices(f) : f.pieces[j].type = TYPE_NULL => ~f.pieces[j].flagged /\ f.pieces[j].is = 0
  BY KindOf
<1>6. \A j \in Indices(f) : f.pieces[j].type = TYPE_OBREF => IsReference(f, j, f.pieces[j])
  BY KindOf
<1>7. CASE f.pieces[i].type = TYPE_OBREF
  <2> DEFINE j == f.pieces[i].to
  <2>1. IsReference(f, i, f.pieces[i])
    BY <1>6, <1>7
  <2>2. j \in 1..(i - 1) /\ f.pieces[j].flagged /\ f.pieces[i].obj = f.pieces[j].obj
    BY <2>1, Zenon DEF IsReference
  <2> HIDE DEF j
  <2>3. i \in Nat /\ i <= Len(f.pieces) /\ Len(f.pieces) \in Nat
    BY PieceFacts
  <2>4. j \in Indices(f)
    BY <2>2, <2>3 DEF Indices
  <2>5. f.pieces[j].type # TYPE_OBREF
    BY <1>6, <2>2, <2>4, Zenon DEF IsReference
  <2>6. QED
    BY <1>4, <1>5, <2>2, <2>4, <2>5, Zenon
<1>8. CASE f.pieces[i].type # TYPE_OBREF
  BY <1>1, <1>4, <1>5, <1>8
<1>9. QED
  BY <1>7, <1>8

\* What a field is cast to is a type.
LEMMA CastableTypes == \A kind : Castable(kind) \subseteq Types
BY DEF Castable, Types

\* A field of a listed code object has a type that it can be cast to.
LEMMA WholeField ==
  ASSUME FInv, IsListed(file), Returned(CodeTypes)
  PROVE  Cast(Castable(NextField.kind))
<1>1. pc = "return" /\ frames # <<>> /\ TopType \in CodeTypes
  BY DEF Returned
<1>2. PICK c, k : Comes(c, k)
  BY <1>1, ComesBack
<1> DEFINE e == file.pieces[c]
           N == Len(e.parts)
           m == Behind(c, e, k).last
           q == e.parts[k].piece
<1>3. /\ k \in 1..N /\ c \in Indices(file) /\ ver = file.ver /\ TopType = e.type /\ Innermost(c)
  BY <1>1, <1>2, ComesFacts
<1>4. /\ q # 0 /\ ret = file.pieces[q].obj /\ q \in 1..m /\ Past(c, k)
      /\ Len(heap[e.obj].items) + 1 = k
  BY <1>2, Zenon DEF Comes
<1>5. NextField = Layout(file.ver)[k]
  <2>1. NextField = Layout(ver)[Len(heap[Top.obj].items) + 1]
    BY <1>1, NextFieldIs DEF FInv
  <2>2. Top.obj = e.obj
    BY <1>3 DEF Innermost
  <2>3. QED
    BY <1>3, <1>4, <2>1, <2>2, Zenon
<1>6. IsFieldPart(file, c, e, k, NextField)
  <2>1. \A j \in 1..N : IsFieldPart(file, c, e, j, Layout(file.ver)[j])
    BY <1>1, <1>3, Facts, CodeParts
  <2>2. QED
    BY <1>3, <1>5, <2>1, Zenon
<1>7. file.pieces[q].is \in Castable(NextField.kind)
  <2>1. ~IsNumber(NextField)
    BY <1>4, <1>6, Zenon DEF IsFieldPart, IsNumberPart
  <2>2. QED
    BY <1>6, <2>1, Zenon DEF IsFieldPart
<1>8. m \in 0..Len(file.pieces) /\ Objects(file, heap, frames, m) /\ Listed(file)
  BY <1>4, Facts DEF Past
<1> HIDE DEF m
<1>9. q \in Indices(file)
  BY <1>4, <1>8 DEF Indices
<1>10. file.pieces[q].obj # 0
  BY <1>7, <1>8, <1>9, CastableTypes, ObjectIsThere
<1>11. heap[file.pieces[q].obj].type = file.pieces[q].is
  BY <1>4, <1>8, <1>10, TypeOfPiece
<1>12. QED
  BY <1>4, <1>7, <1>10, <1>11 DEF Cast

\* What is read first is a code object.
LEMMA WholeCode ==
  ASSUME FInv, IsListed(file), pc = "return", frames = <<>>
  PROVE  Cast(CodeTypes)
<1>1. OnReturn(file, heap, frames, refs, interns, pos, ret, 1)
  BY LastReturn
<1> DEFINE e == file.pieces[1]
           m == e.last
<1>2. ret = e.obj /\ Objects(file, heap, frames, m)
  BY <1>1 DEF OnReturn
<1>3. /\ 1 \in Indices(file) /\ e.type \in CodeTypes /\ e.is = e.type
      /\ m = Len(file.pieces)
  BY FirstPiece
<1>4. Listed(file) /\ Len(file.pieces) \in Nat
  BY Facts, ListingFacts
<1>5. e.is \in Types
  BY <1>3, TypesApart
<1>6. e.obj # 0
  BY <1>3, <1>4, <1>5, ObjectIsThere
<1>7. m \in 0..Len(file.pieces) /\ 1 \in 1..m
  BY <1>3, <1>4 DEF Indices
<1>8. heap[e.obj].type = e.is
  <2> HIDE DEF m
  <2>1. QED
    BY <1>2, <1>4, <1>6, <1>7, TypeOfPiece
<1>9. QED
  BY <1>2, <1>3, <1>6, <1>8 DEF Cast

\* Only a file that is cut off makes reading fail.
LEMMA FollowFail == ASSUME FInv, IsListed(file), Fail PROVE Follows'
<1>1. /\ Fails /\ pc' = "failed"
      /\ UNCHANGED <<file, pos, ver, heap, refs, interns, frames, ret>>
  BY DEF Fail
<1>2. ~file.whole
  <2> SUFFICES ASSUME file.whole PROVE FALSE
    OBVIOUS
  <2>1. CASE pc = "open" /\ file.given = NoVersion /\ ~HeaderIsGood
    BY <2>1, WholeHeader
  <2>2. CASE pc = "open" /\ file.given # NoVersion /\ ~isSupportedVersion(file.given)
    <3>1. IsHeader(file)
      BY Facts, ListingFacts
    <3>2. QED
      BY <2>2, <3>1, Zenon DEF IsHeader
  <2>3. CASE pc = "object" /\ ~Readable
    BY <2>3, WholeReadable
  <2>4. CASE pc = "field" /\ IsNumber(NextField) /\ ~NumberIsGood(NextField, pos)
    BY <2>4, WholeNumber
  <2>5. CASE Returned(CodeTypes) /\ ~Cast(Castable(NextField.kind))
    BY <2>5, WholeField
  <2>6. CASE pc = "return" /\ frames = <<>> /\ ~Cast(CodeTypes)
    BY <2>6, WholeCode
  <2>7. QED
    BY <1>1, <2>1, <2>2, <2>3, <2>4, <2>5, <2>6 DEF Fails
<1>3. pos' <= Len(file'.bytes)
  BY <1>1 DEF FInv, Follows
<1>4. QED
  BY <1>1, <1>2, <1>3 DEF Follows

\* Each step of the reader follows the listing.
LEMMA FollowsStep == ASSUME FInv, IsListed(file), [Next]_vars PROVE Follows'
<1>1. CASE loadFromFile
  BY <1>1, FollowFile
<1>2. CASE loadFromMarshalledFile
  BY <1>2, FollowMarshalled
<1>3. CASE LoadObject
  <2>1. CASE LoadReference
    BY <2>1, FollowReference
  <2>2. CASE LoadNothing
    BY <2>2, FollowNothing
  <2>3. CASE LoadSingleton
    BY <2>3, FollowSingleton
  <2>4. CASE LoadNumber
    BY <2>4, FollowNumber
  <2>5. CASE LoadText
    BY <2>5, FollowText
  <2>6. CASE LoadStringRef
    BY <2>6, FollowStringRef
  <2>7. CASE LoadSeries
    BY <2>7, FollowSeries
  <2>8. CASE LoadDict
    BY <2>8, FollowDict
  <2>9. CASE LoadCode
    BY <2>9, FollowCode
  <2>10. QED
    BY <1>3, <2>1, <2>2, <2>3, <2>4, <2>5, <2>6, <2>7, <2>8, <2>9 DEF LoadObject
<1>4. CASE TakeElement
  BY <1>4, FollowElement
<1>5. CASE TakeKey
  BY <1>5, FollowKey
<1>6. CASE TakeValue
  BY <1>6, FollowValue
<1>7. CASE TakeField
  BY <1>7, FollowField
<1>8. CASE ReadNumber
  BY <1>8, FollowReadNumber
<1>9. CASE AskField
  BY <1>9, FollowAsk
<1>10. CASE Finish
  BY <1>10, FollowFinish
<1>11. CASE Fail
  BY <1>11, FollowFail
<1>12. CASE UNCHANGED vars
  <2>1. /\ file' = file /\ pos' = pos /\ ver' = ver /\ heap' = heap /\ refs' = refs
        /\ interns' = interns /\ frames' = frames /\ ret' = ret /\ pc' = pc
    BY <1>12 DEF vars
  <2>2. QED
    BY <2>1 DEF FInv, Follows
<1>13. QED
  BY <1>1, <1>2, <1>3, <1>4, <1>5, <1>6, <1>7, <1>8, <1>9, <1>10, <1>11, <1>12 DEF Next

\* FInv is inductive.
LEMMA FollowsInductive == FInv /\ [Next]_vars => FInv'
<1> SUFFICES ASSUME FInv, [Next]_vars PROVE FInv'
  OBVIOUS
<1>1. IInv'
  BY Inductive DEF FInv
<1>2. file' = file
  BY DEF vars, Next, loadFromFile, loadFromMarshalledFile, Open, LoadObject, LoadReference, LoadNothing,
         LoadSingleton, LoadNumber, LoadText, LoadStringRef, LoadSeries, LoadDict, LoadCode, Loading,
         TakeElement, TakeKey, TakeValue, TakeField, ReadNumber, AskField, Finish, Fail
<1>3. IsListed(file) => Follows'
  BY FollowsStep
<1>4. QED
  BY <1>1, <1>2, <1>3 DEF FInv, IsListed

----------------------------------------------------------------------------

(* The variables have their types in any file.                               *)
THEOREM TypeCorrect == Spec => []TypeOK
<1>1. IInv => TypeOK
  BY DEF IInv
<1>2. QED
  BY <1>1, InitIInv, Inductive, PTL DEF Spec

(* Whatever the bytes, no object is half loaded when reading has ended.        *)
THEOREM LoadsWhole == Spec => []NothingHalfLoaded
<1>1. IInv => NothingHalfLoaded
  <2> SUFFICES ASSUME IInv, pc = "done", NEW i \in 1..Len(heap) PROVE Whole(heap[i])
    BY DEF NothingHalfLoaded
  <2>1. Len(frames) = 0
    <3>1. frames = <<>>
      BY DEF IInv, AtPc
    <3>2. QED
      BY <3>1, EmptySeq
  <2>2. Books(heap, frames, Layout(ver))
    BY Typed
  <2>3. WholeIn(heap, Layout(ver), heap[i])
    BY <2>1, <2>2 DEF Books, Waited
  <2>4. QED
    BY <2>3 DEF WholeIn, Whole, GoodItems, GoodItem, FieldIsGood
<1>2. QED
  BY <1>1, InitIInv, Inductive, PTL DEF Spec

\* What Follows says when reading has ended.
LEMMA AtEnd ==
  ASSUME FInv, IsListed(file), pc = "done"
  PROVE  /\ OnReturn(file, heap, frames, refs, interns, pos, ret, 1)
         /\ ver = file.ver /\ Listed(file) /\ pos = file.pieces[1].next /\ pos <= Len(file.bytes)
         /\ ret = file.pieces[1].obj
         /\ \A i \in 1..Len(file.pieces) : Creates(file.pieces[i]) =>
              Filled(file, heap, i) /\ Ended(file, heap, i)
<1>1. OnReturn(file, heap, frames, refs, interns, pos, ret, 1) /\ ver = file.ver /\ pos <= Len(file.bytes)
  BY DEF FInv, Follows
<1>2. Listed(file) /\ file.pieces[1].last = Len(file.pieces)
  BY Facts, FirstPiece
<1>3. /\ pos = file.pieces[1].next /\ ret = file.pieces[1].obj
      /\ Objects(file, heap, frames, Len(file.pieces))
  BY <1>1, <1>2, Zenon DEF OnReturn
<1>4. \A x : ~Waited(frames, x)
  <2>1. Len(frames) = 0
    BY EmptySeq DEF FInv, IInv, AtPc
  <2>2. QED
    BY <2>1 DEF Waited
<1>5. \A i \in 1..Len(file.pieces) : Creates(file.pieces[i]) =>
        Filled(file, heap, i) /\ Ended(file, heap, i)
  BY <1>3, <1>4, Zenon DEF Objects
<1>6. QED
  BY <1>1, <1>2, <1>3, <1>5, Zenon

\* An object that is filled and ended is the one that was written.
LEMMA AsWritten ==
  ASSUME FInv, IsListed(file), NEW i \in Indices(file), Filled(file, heap, i), Ended(file, heap, i)
  PROVE  LET e == file.pieces[i]
             o == heap[e.obj]
         IN /\ o.type = e.is /\ o.val = e.val
            /\ Len(o.items) = Elements(e)
            /\ \A k \in 1..Elements(e) : o.items[k] = Item(file, e, k)
<1> DEFINE e == file.pieces[i]
           o == heap[e.obj]
<1>1. /\ o.type = e.is /\ e.obj \in 1..Len(heap) /\ Len(o.items) = Elements(e)
      /\ \A k \in 1..Len(o.items) : o.items[k] = Item(file, e, k)
  <2>1. e.obj \in 6..Len(heap) /\ Len(heap) \in Nat
    BY Facts, Zenon DEF Filled
  <2>2. e.obj \in 1..Len(heap)
    <3> DEFINE x == e.obj
    <3> HIDE DEF x
    <3>1. x \in 6..Len(heap) => x \in 1..Len(heap)
      BY <2>1
    <3>2. QED
      BY <2>1, <3>1, Zenon DEF x
  <2>3. QED
    BY <2>2, Zenon DEF Filled, Ended
<1>2. o.val \in Seq(Int) /\ e.val \in Seq(Int)
  <2>1. o \in ObjectsUpTo(Len(heap))
    BY <1>1, Typed DEF FInv
  <2>2. QED
    BY <2>1, Facts, PieceFacts DEF ObjectsUpTo
<1>3. CASE e.type \in CodeTypes
  <2>1. /\ Len(o.val) = Behind(i, e, Len(o.items)).taken
        /\ \A k \in 1..Len(o.val) : o.val[k] = e.val[k]
    BY <1>3, Zenon DEF Filled
  <2>2. Len(e.val) = Behind(i, e, Len(e.parts)).taken
    BY <1>3, Facts, CodeParts
  <2>3. Elements(e) = Len(e.parts)
    <3>1. e.type # TYPE_DICT
      BY <1>3, TypesApart
    <3>2. QED
      BY <3>1, Zenon DEF Elements
  <2>4. Len(o.val) = Len(e.val)
    BY <1>1, <2>1, <2>2, <2>3, Zenon
  <2>5. o.val = e.val
    <3> DEFINE s == o.val
               t == e.val
    <3>1. s \in Seq(Int) /\ t \in Seq(Int) /\ Len(s) = Len(t) /\ \A k \in 1..Len(s) : s[k] = t[k]
      BY <1>2, <2>1, <2>4
    <3> HIDE DEF s, t
    <3>2. s = t
      BY <3>1, SeqEqual
    <3>3. QED
      BY <3>2 DEF s, t
  <2>6. QED
    BY <1>1, <2>5, Zenon
<1>4. CASE e.type \notin CodeTypes
  <2>1. o.val = e.val
    BY <1>4, Zenon DEF Filled
  <2>2. QED
    BY <1>1, <2>1, Zenon
<1>5. QED
  BY <1>3, <1>4

(* A file that CPython wrote, of any length and nesting, is read as what was   *)
(* written: the fields of its version, each text, number and string reference, *)
(* each sequence and each dict to its end; and reading does not fail.          *)
THEOREM ReadsWhatWasWritten == Spec => []ReadBack
<1>1. FInv => ReadBack
  <2> SUFFICES ASSUME FInv, IsListed(file) PROVE ReadBack
    BY Zenon DEF ReadBack
  <2>1. file.whole => pc # "failed"
    BY DEF FInv, Follows
  <2>2. ASSUME pc = "done", NEW i \in 1..Len(file.pieces), Creates(file.pieces[i])
        PROVE  LET e == file.pieces[i]
               IN /\ heap[e.obj].type = e.is /\ heap[e.obj].val = e.val
                  /\ Len(heap[e.obj].items) = Elements(e)
                  /\ \A k \in 1..Elements(e) : heap[e.obj].items[k] = Item(file, e, k)
    <3>1. Filled(file, heap, i) /\ Ended(file, heap, i) /\ i \in Indices(file)
      BY <2>2, AtEnd DEF Indices
    <3>2. QED
      BY <3>1, AsWritten
  <2>3. pc = "done" => ver = file.ver /\ ret = file.pieces[1].obj
    BY AtEnd
  <2>4. QED
    BY <2>1, <2>2, <2>3, Zenon DEF ReadBack
<1>2. QED
  BY <1>1, InitFInv, FollowsInductive, PTL DEF Spec

(* What was one object when it was written is one object when it is read: a    *)
(* reference is the object itself, also one that was still being loaded.       *)
THEOREM KeepsSharing == Spec => []SharingKept
<1>1. FInv => SharingKept
  <2> SUFFICES ASSUME FInv, IsListed(file), pc = "done",
                      NEW i \in 1..Len(file.pieces), Creates(file.pieces[i]),
                      NEW k \in 1..Elements(file.pieces[i])
               PROVE  heap[file.pieces[i].obj].items[k] = Item(file, file.pieces[i], k)
    BY Zenon DEF SharingKept
  <2>1. Filled(file, heap, i) /\ Ended(file, heap, i) /\ i \in Indices(file)
    BY AtEnd DEF Indices
  <2>2. QED
    BY <2>1, AsWritten
<1>2. QED
  BY <1>1, InitFInv, FollowsInductive, PTL DEF Spec

(* No file cut short, wherever it is cut, is read as a whole one.              *)
THEOREM CutNeverLoaded == Spec => []CutNeverLoads
<1>1. FInv => CutNeverLoads
  <2> SUFFICES ASSUME FInv, IsListed(file), ~file.whole, pc = "done" PROVE FALSE
    BY Zenon DEF CutNeverLoads
  <2>1. Listed(file) /\ pos = file.pieces[1].next /\ pos <= Len(file.bytes)
    BY AtEnd
  <2>2. Len(file.bytes) < file.pieces[1].next
    BY <2>1, ListingFacts
  <2>3. Len(file.bytes) \in Nat /\ pos \in Nat
    BY Facts
  <2>4. QED
    BY <2>1, <2>2, <2>3
<1>2. QED
  BY <1>1, InitFInv, FollowsInductive, PTL DEF Spec

----------------------------------------------------------------------------
(* Reading makes headway.                                                      *)

\* The place of pc on the way to the next byte.
Rank == CASE pc = "open" -> 4 [] pc = "return" -> 3 [] pc = "field" -> 2
          [] pc = "object" -> 1 [] OTHER -> 0

\* What is left to do: the bytes not read and the calls that wait.
Calls == Len(frames) + Rank
Ahead == 5 * (Len(file.bytes) - pos) + Calls

InFile == pos <= Len(file.bytes) /\ (pc = "open" => pos = 0)

\* Bytes weigh more than the calls and places that come with them.
LEMMA Lighter ==
  ASSUME NEW n \in Nat, NEW p \in Nat, NEW q \in Nat, NEW a \in Nat, NEW b \in Nat,
         p + 1 <= q, b < a + 5
  PROVE  5 * (n - q) + b < 5 * (n - p) + a
OBVIOUS

LEMMA NotBehindAll ==
  ASSUME NEW n \in Nat, NEW p \in Nat, NEW w \in Nat, p + 1 + (w + (n + 1)) <= n
  PROVE  FALSE
OBVIOUS

LEMMA RankOf ==
  /\ pc = "open" => Rank = 4
  /\ pc = "return" => Rank = 3
  /\ pc = "field" => Rank = 2
  /\ pc = "object" => Rank = 1
  /\ pc \in {"done", "failed"} => Rank = 0
  /\ Rank \in 0..4
BY DEF Rank

LEMMA RankNext ==
  /\ pc' = "return" => Rank' = 3
  /\ pc' = "field" => Rank' = 2
  /\ pc' = "object" => Rank' = 1
  /\ pc' \in {"done", "failed"} => Rank' = 0
BY DEF Rank

\* An object that is read takes bytes that are there, and a call may begin.
LEMMA LoadsAdvance ==
  ASSUME IInv, LoadObject
  PROVE  /\ pos' \in Nat /\ pos + 1 <= pos' /\ pos' <= Len(file.bytes) /\ file' = file /\ pc = "object"
         /\ \/ pc' = "return" /\ frames' = frames
            \/ pc' \in {"object", "field"} /\ Len(frames') = Len(frames) + 1
<1>1. pos \in Nat /\ pos + 1 \in Nat /\ file \in Files /\ Len(file.bytes) \in Nat
  BY Typed, FileFacts
<1>2. pos + 1 <= Len(file.bytes) /\ Readable /\ file' = file /\ pc = "object"
  BY DEF LoadObject, LoadReference, LoadNothing, LoadSingleton, LoadNumber, LoadText, LoadStringRef,
         LoadSeries, LoadDict, LoadCode, Loading, Readable, Has
<1>3. \A S : \A s \in Seq(S) : \A x : Len(Append(s, x)) = Len(s) + 1
  BY AppendAny, Zenon
<1>4. \A x : Len(Append(frames, x)) = Len(frames) + 1
  BY <1>3, Typed DEF Stack
<1>5. CASE LoadReference
  BY <1>1, <1>2, <1>5 DEF LoadReference, Return, Readable, IndexIsGood, Has
<1>6. CASE LoadNothing
  BY <1>1, <1>2, <1>6 DEF LoadNothing, Return
<1>7. CASE LoadSingleton
  BY <1>1, <1>2, <1>7 DEF LoadSingleton, Return
<1>8. CASE LoadNumber
  <2>1. TypeByte \in Numbers /\ UNCHANGED frames /\ pc' = "return"
        /\ pos' = pos + (1 + Extent(TypeByte, pos + 1))
    BY <1>8 DEF LoadNumber, Return
  <2>2. Extent(TypeByte, pos + 1) \in Nat
    BY <1>1, <2>1, ExtentIsNat
  <2>3. pos + 1 + Extent(TypeByte, pos + 1) <= Len(file.bytes)
    BY <1>2, <2>1 DEF Readable, Has
  <2> QED
    BY <1>1, <1>2, <2>1, <2>2, <2>3
<1>9. CASE LoadText
  <2> DEFINE w == LengthWidth(TypeByte)
             n == LengthAt(TypeByte, pos + 1)
  <2>1. TypeByte \in Texts /\ UNCHANGED frames /\ pc' = "return"
        /\ pos' = pos + (1 + w + Len(TextAt(TypeByte, pos + 1)))
    BY <1>9 DEF LoadText, Return
  <2>2. n >= 0 /\ pos + 1 + (w + Count(n)) <= Len(file.bytes)
    BY <1>2, <2>1 DEF Readable, TextIsGood, Has
  <2>3. n \in Int /\ w \in {1, 4}
    BY <1>1, <2>1, LengthIsInt DEF LengthWidth
  <2> HIDE DEF w, n
  <2>4. Count(n) = n
    <3>1. CASE n <= Len(file.bytes) + 1
      <4>1. ~(n > Len(file.bytes) + 1) /\ ~(n < -(Len(file.bytes) + 1)) /\ ~(n < 0)
        BY <1>1, <2>2, <2>3, <3>1
      <4> QED
        BY <4>1, Zenon DEF Count
    <3>2. CASE n > Len(file.bytes) + 1
      <4>1. Count(n) = Len(file.bytes) + 1
        BY <3>2, Zenon DEF Count
      <4>2. w \in Nat /\ pos + 1 + (w + (Len(file.bytes) + 1)) <= Len(file.bytes)
        BY <2>2, <2>3, <4>1
      <4> QED
        BY <1>1, <4>2, NotBehindAll
    <3> QED
      BY <1>1, <2>3, <3>1, <3>2
  <2>5. Len(TextAt(TypeByte, pos + 1)) = n
    <3>1. n \in Nat /\ TextAt(TypeByte, pos + 1) = [i \in 1..n |-> At(pos + 1 + w + i - 1)]
      BY <2>2, <2>3 DEF TextAt, Slice, w, n
    <3> QED
      BY <3>1
  <2> QED
    BY <1>1, <1>2, <2>1, <2>2, <2>3, <2>4, <2>5
<1>10. CASE LoadStringRef
  BY <1>1, <1>2, <1>10 DEF LoadStringRef, Return, Readable, IndexIsGood, Has
<1>11. CASE LoadSeries
  <2> DEFINE w == LengthWidth(TypeByte)
  <2>1. TypeByte \in Series /\ w \in {1, 4}
    BY <1>11 DEF LoadSeries, LengthWidth
  <2>2. /\ pos' = pos + (1 + w)
        /\ \/ pc' = "return" /\ frames' = frames
           \/ pc' = "object" /\ \E x : frames' = Append(frames, x)
    BY <1>11 DEF LoadSeries, Return, Wait
  <2>3. pos + 1 + w <= Len(file.bytes)
    BY <1>2, <2>1 DEF Readable, Has
  <2> HIDE DEF w
  <2> QED
    BY <1>1, <1>2, <1>4, <2>1, <2>2, <2>3
<1>12. CASE LoadDict
  BY <1>1, <1>2, <1>4, <1>12 DEF LoadDict, Wait
<1>13. CASE LoadCode
  BY <1>1, <1>2, <1>4, <1>13 DEF LoadCode, Wait
<1> QED
  BY <1>5, <1>6, <1>7, <1>8, <1>9, <1>10, <1>11, <1>12, <1>13 DEF LoadObject

\* A part that comes back ends a call or sends it on.
LEMMA AwaitAdvances ==
  ASSUME IInv, frames # <<>>, NEW left, NEW next, Await(left, next)
  PROVE  \/ pc' = "return" /\ Len(frames') = Len(frames) - 1
         \/ pc' = next /\ Len(frames') = Len(frames)
<1>1. Stack(heap, frames) /\ Len(frames) \in Nat
  BY Typed
<1>2. Len(Callers) = Len(frames) - 1
  BY <1>1, FrontOf DEF Stack, Callers
<1>3. Len([frames EXCEPT ![Len(frames)].left = left]) = Len(frames)
  BY <1>1 DEF Stack
<1> QED
  BY <1>2, <1>3 DEF Await

LEMMA TakesAdvance ==
  ASSUME IInv, TakeElement \/ TakeKey \/ TakeValue \/ TakeField
  PROVE  /\ UNCHANGED <<file, pos>> /\ pc = "return"
         /\ \/ pc' = "return" /\ Len(frames') = Len(frames) - 1
            \/ pc' \in {"object", "field"} /\ Len(frames') = Len(frames)
<1>1. /\ UNCHANGED <<file, pos>> /\ pc = "return" /\ frames # <<>>
      /\ \E left : \E next \in {"object", "field"} : Await(left, next)
  BY DEF TakeElement, TakeKey, TakeValue, TakeField, Returned
<1> QED
  BY <1>1, AwaitAdvances

LEMMA OpenAdvances ==
  ASSUME IInv, loadFromFile \/ loadFromMarshalledFile
  PROVE  /\ pc = "open" /\ pc' = "object" /\ pos' \in Nat /\ pos' <= Len(file.bytes)
         /\ UNCHANGED <<file, frames>>
<1>1. file \in Files /\ Len(file.bytes) \in Nat
  BY Typed, FileFacts
<1>2. CASE loadFromFile
  <2>1. pc = "open" /\ HeaderIsGood /\ Open(HeaderVersion, HeaderSize(HeaderVersion))
    BY <1>2 DEF loadFromFile
  <2>2. HeaderVersion.maj \in Int /\ HeaderVersion.min \in Int
    BY <1>1, Get32IsInt, VersionIsTyped DEF HeaderVersion, Versions
  <2>3. HeaderSize(HeaderVersion) \in Nat
    BY <2>2, HeaderSizes
  <2>4. HeaderSize(HeaderVersion) <= Len(file.bytes)
    BY <2>1, <2>3 DEF HeaderIsGood, Has
  <2> QED
    BY <2>1, <2>3, <2>4 DEF Open
<1>3. CASE loadFromMarshalledFile
  BY <1>1, <1>3 DEF loadFromMarshalledFile, Open
<1> QED
  BY <1>2, <1>3

LEMMA ReadNumberAdvances ==
  ASSUME IInv, ReadNumber
  PROVE  /\ pos' \in Nat /\ pos + 2 <= pos' /\ pos' <= Len(file.bytes) /\ file' = file /\ pc = "field"
         /\ \/ pc' = "return" /\ Len(frames') = Len(frames) - 1
            \/ pc' = "field" /\ Len(frames') = Len(frames)
<1>1. /\ pc = "field" /\ NumberIsGood(NextField, pos) /\ pos' = pos + Width(NextField)
      /\ Await(Top.left - 1, "field") /\ file' = file
  BY DEF ReadNumber
<1>2. frames # <<>> /\ pos \in Nat
  BY <1>1, Typed DEF IInv, AtPc
<1>3. Width(NextField) \in {2, 4} /\ pos + Width(NextField) <= Len(file.bytes)
  BY <1>1 DEF Width, NumberIsGood, Has
<1> QED
  BY <1>1, <1>2, <1>3, AwaitAdvances

LEMMA StepsAdvance ==
  ASSUME IInv, InFile, Next
  PROVE  InFile' /\ Ahead' < Ahead
<1>1. pos \in Nat /\ Len(file.bytes) \in Nat /\ Len(frames) \in Nat /\ Calls \in Nat
  BY Typed, FileFacts, RankOf DEF Calls
<1>2. pos <= Len(file.bytes) /\ (pc = "open" => pos = 0)
  BY DEF InFile
<1>3. ASSUME file' = file, pos' \in Nat, pos' = pos \/ (pos <= pos' /\ pos' <= Len(file.bytes)),
             pc' # "open", Calls' \in Nat, Calls' < Calls
      PROVE  InFile' /\ Ahead' < Ahead
  <2>1. pos' <= Len(file.bytes)
    BY <1>1, <1>2, <1>3
  <2>2. 5 * (Len(file.bytes) - pos') + Calls' < 5 * (Len(file.bytes) - pos) + Calls
    BY <1>1, <1>3
  <2> QED
    BY <1>3, <2>1, <2>2 DEF InFile, Ahead
<1>4. ASSUME file' = file, pos' \in Nat, pos + 1 <= pos', pos' <= Len(file.bytes),
             pc' # "open", Calls' \in Nat, Calls' < Calls + 5
      PROVE  InFile' /\ Ahead' < Ahead
  <2>1. 5 * (Len(file.bytes) - pos') + Calls' < 5 * (Len(file.bytes) - pos) + Calls
    BY <1>1, <1>4, Lighter
  <2> QED
    BY <1>4, <2>1 DEF InFile, Ahead
<1>5. CASE loadFromFile \/ loadFromMarshalledFile
  <2>1. Calls = Len(frames) + 4 /\ Calls' = Len(frames) + 1 /\ pos = 0
        /\ pos' \in Nat /\ pos' <= Len(file.bytes) /\ file' = file /\ pc' # "open"
    BY <1>2, <1>5, OpenAdvances, RankOf, RankNext DEF Calls
  <2> QED
    BY <1>1, <1>3, <2>1
<1>6. CASE LoadObject
  <2>1. /\ pos' \in Nat /\ pos + 1 <= pos' /\ pos' <= Len(file.bytes) /\ file' = file
        /\ Calls = Len(frames) + 1 /\ Calls' \in {Len(frames) + 3, Len(frames) + 2}
        /\ pc' # "open"
    <3>1. Calls = Len(frames) + 1
      BY <1>6, LoadsAdvance, RankOf DEF Calls
    <3>2. CASE pc' = "return" /\ frames' = frames
      BY <1>1, <1>6, <3>1, <3>2, LoadsAdvance, RankNext DEF Calls
    <3>3. CASE pc' \in {"object", "field"} /\ Len(frames') = Len(frames) + 1
      <4>1. Calls' \in {Len(frames) + 3, Len(frames) + 2}
        BY <1>1, <3>3, RankNext DEF Calls
      <4> QED
        BY <1>6, <3>1, <3>3, <4>1, LoadsAdvance
    <3> QED
      BY <1>6, <3>2, <3>3, LoadsAdvance
  <2> QED
    BY <1>1, <1>4, <2>1
<1>7. CASE TakeElement \/ TakeKey \/ TakeValue \/ TakeField
  <2>1. /\ UNCHANGED <<file, pos>> /\ Calls = Len(frames) + 3 /\ pc' # "open"
        /\ Calls' \in {Len(frames) + 2, Len(frames) + 1}
    <3>1. UNCHANGED <<file, pos>> /\ Calls = Len(frames) + 3 /\ pc' # "open"
      BY <1>7, TakesAdvance, RankOf DEF Calls
    <3>2. CASE pc' = "return" /\ Len(frames') = Len(frames) - 1
      BY <1>1, <3>1, <3>2, RankNext DEF Calls
    <3>3. CASE pc' \in {"object", "field"} /\ Len(frames') = Len(frames)
      BY <1>1, <3>1, <3>3, RankNext DEF Calls
    <3> QED
      BY <1>7, <3>2, <3>3, TakesAdvance
  <2> QED
    BY <1>1, <1>3, <2>1
<1>8. CASE ReadNumber
  <2>1. /\ pos' \in Nat /\ pos + 1 <= pos' /\ pos' <= Len(file.bytes) /\ file' = file
        /\ pc' # "open" /\ Calls = Len(frames) + 2
    BY <1>1, <1>8, ReadNumberAdvances, RankOf DEF Calls
  <2>2. Calls' = Len(frames) + 2
    <3>1. CASE pc' = "return" /\ Len(frames') = Len(frames) - 1
      BY <1>1, <3>1, RankNext DEF Calls
    <3>2. CASE pc' = "field" /\ Len(frames') = Len(frames)
      BY <1>1, <3>2, RankNext DEF Calls
    <3> QED
      BY <1>8, <3>1, <3>2, ReadNumberAdvances
  <2> QED
    BY <1>1, <1>4, <2>1, <2>2
<1>9. CASE AskField
  <2>1. pc = "field" /\ pc' = "object" /\ UNCHANGED <<file, pos, frames>>
    BY <1>9 DEF AskField
  <2>2. Calls = Len(frames) + 2 /\ Calls' = Len(frames) + 1
    BY <1>1, <2>1, RankOf, RankNext DEF Calls
  <2> QED
    BY <1>1, <1>3, <2>1, <2>2
<1>10. CASE Finish \/ Fail
  <2>1. pc \in {"open", "object", "field", "return"} /\ pc' \in {"done", "failed"}
        /\ UNCHANGED <<file, pos, frames>>
    BY <1>10 DEF Finish, Fail, Fails, Returned
  <2>2. Calls >= Len(frames) + 1 /\ Calls' = Len(frames)
    BY <1>1, <2>1, RankOf, RankNext DEF Calls
  <2> QED
    BY <1>1, <1>3, <2>1, <2>2
<1> QED
  BY <1>5, <1>6, <1>7, <1>8, <1>9, <1>10 DEF Next

\* Whatever the bytes, no step of the reader goes round: each takes bytes of the
\* file, which are never more than there are, or brings a load() that waits nearer
\* to its end (LoadObject and the loops of load()), also where a reference makes
\* an object part of itself.
THEOREM EveryStepAdvances == Spec => [](Ahead \in Nat) /\ [][Ahead' < Ahead]_vars
<1>1. Init => InFile
  <2> SUFFICES ASSUME Init PROVE InFile
    OBVIOUS
  <2>1. file \in Files /\ pos = 0
    BY DEF Init
  <2> QED
    BY <2>1, FileFacts DEF InFile
<1>2. IInv /\ InFile => Ahead \in Nat
  <2> SUFFICES ASSUME IInv, InFile PROVE Ahead \in Nat
    OBVIOUS
  <2>1. pos \in Nat /\ Len(file.bytes) \in Nat /\ Calls \in Nat
    BY Typed, FileFacts, RankOf DEF Calls
  <2> QED
    BY <2>1 DEF InFile, Ahead
<1>3. IInv /\ InFile /\ [Next]_vars => InFile' /\ [Ahead' < Ahead]_vars
  <2> SUFFICES ASSUME IInv, InFile, [Next]_vars PROVE InFile' /\ [Ahead' < Ahead]_vars
    OBVIOUS
  <2>1. CASE Next
    BY <2>1, StepsAdvance
  <2>2. CASE UNCHANGED vars
    BY <2>2 DEF InFile, vars
  <2> QED
    BY <2>1, <2>2
<1> QED
  BY <1>1, <1>2, <1>3, InitIInv, Inductive, PTL DEF Spec

=============================================================================
