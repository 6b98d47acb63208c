-------------------------- MODULE LineTable_proofs --------------------------
(***************************************************************************)
(* What holds of the span cache and of the searches over it for every      *)
(* table, every first line and every offset asked for.                     *)
(***************************************************************************)
EXTENDS LocationListing, FiniteSetTheorems, WellFoundedInduction, TLAPS

(* The part of the inductive invariant about the cache while it is filled:   *)
(* it is a sequence, still empty until the first lookup, and the next span   *)
(* starts after every span already stored.                                   *)
Filling ==
  /\ \E S : cache \in Seq(S)
  /\ pc \in {"build", "search"} => built
  /\ ~built => cache = <<>>
  /\ \A i \in 1..Len(cache) : cache[i].end <= cu * 2

IInv == TypeOK /\ Filling /\ SpansOrdered /\ SearchNarrows /\ LookupExact

\* The code units of an entry are between one and eight.
LEMMA UnitsBounds ==
  ASSUME NEW c \in Codes, NEW p, p + 1 \in 1..Len(c.lnTable)
  PROVE  UnitsAt(c.lnTable, p) \in 1..8
<1>1. c.lnTable[p + 1] \in Byte
  BY CodesAssumption
<1>2. \A x \in 0..255 : (x % 8) + 1 \in 1..8
  OBVIOUS
<1>3. QED
  BY <1>1, <1>2 DEF Byte, UnitsAt

\* A sequence stays one when a span is appended, and keeps what it held.
LEMMA AppendSpan ==
  ASSUME NEW S, NEW s \in Seq(S), NEW e
  PROVE  /\ Append(s, e) \in Seq(S \cup {e})
         /\ Len(Append(s, e)) = Len(s) + 1
         /\ Len(s) \in Nat
         /\ \A i \in 1..Len(s) : Append(s, e)[i] = s[i]
         /\ Append(s, e)[Len(s) + 1] = e
<1>1. s \in Seq(S \cup {e})
  OBVIOUS
<1>2. Append(s, e) \in Seq(S \cup {e})
  BY <1>1
<1>3. QED
  BY <1>1, <1>2

\* An entry that fits ends inside the table or right behind it.
LEMMA EntryAdvances ==
  ASSUME NEW c \in Codes, NEW p \in Nat, NEW l, p + 1 \in 1..Len(c.lnTable),
         EntryFits(c.lnTable, p)
  PROVE  EntryAt(c.lnTable, p, l).next \in Nat
<1> DEFINE T == c.lnTable
<1>1. ASSUME NEW k \in {1, 4}, HasVarints(T, p + 1, k)
      PROVE  AfterVarint(T, p + 1, k) \in Nat
  <2>1. PICK q \in VarintStops(T, p + 1) : EndsVarint(T, p + 1, k, q)
    BY <1>1 DEF HasVarints
  <2>2. (CHOOSE r \in VarintStops(T, p + 1) : EndsVarint(T, p + 1, k, r))
          \in VarintStops(T, p + 1)
    BY <2>1
  <2>3. VarintStops(T, p + 1) \subseteq Nat
    <3>1. Len(T) \in Nat
      BY CodesAssumption
    <3>2. QED
      BY <3>1 DEF VarintStops
  <2>4. QED
    BY <1>1, <2>2, <2>3 DEF AfterVarint
<1>2. CASE Form(T, p) = 14
  BY <1>1, <1>2 DEF EntryFits, EntryAt, LongEntry, Entry
<1>3. CASE Form(T, p) = 13
  BY <1>1, <1>3 DEF EntryFits, EntryAt, NoColumnEntry, Entry
<1>4. CASE Form(T, p) \notin {13, 14}
  BY <1>4 DEF EntryAt, OneLineEntry, ShortEntry, Entry
<1>5. QED
  BY <1>2, <1>3, <1>4

LEMMA InitIInv == Init => IInv
<1>1. SUFFICES ASSUME Init PROVE IInv
  OBVIOUS
<1>2. Len(cache) = 0
  BY <1>1 DEF Init
<1>3. \E S : cache \in Seq(S)
  <2>1. <<>> \in Seq({})
    OBVIOUS
  <2>2. QED
    BY <1>1, <2>1 DEF Init
<1>4. 1..0 = {}
  OBVIOUS
<1>5. TypeOK
  <2>1. built \in BOOLEAN
    BY <1>1 DEF Init
  <2>2. \A i \in 1..Len(cache) : cache[i].start \in Nat /\ cache[i].end \in Nat
    BY <1>2, <1>4
  <2>3. QED
    BY <1>1, <2>1, <2>2 DEF Init, TypeOK
<1>6. Filling
  BY <1>1, <1>2, <1>3, <1>4 DEF Init, Filling
<1>7. SpansOrdered
  BY <1>2, <1>4 DEF SpansOrdered
<1>8. SearchNarrows /\ LookupExact
  BY <1>1 DEF Init, SearchNarrows, LookupExact
<1>9. QED
  BY <1>5, <1>6, <1>7, <1>8 DEF IInv

(* The step of the loop of buildLineCache that stores a span: the only one     *)
(* that changes the cache.                                                     *)
LEMMA ReadSpanStep == ASSUME IInv, ReadSpan PROVE IInv'
<1> DEFINE n == UnitsAt(code.lnTable, at)
           e == EntryAt(code.lnTable, at, line)
           s == [start |-> cu * 2, end |-> (cu + n) * 2, loc |-> e.loc]
<1>1. /\ pc = "build" /\ pc' = pc /\ built' = built /\ ret' = ret /\ code' = code
      /\ off' = off /\ lo' = lo /\ hi' = hi
      /\ cache' = Append(cache, s) /\ cu' = cu + n /\ at' = e.next
  BY DEF ReadSpan
<1>2. n \in 1..8
  BY UnitsBounds DEF ReadSpan, HasEntry, IInv, TypeOK
<1>3. s.start = cu * 2 /\ s.end = (cu + n) * 2
  OBVIOUS
<1> HIDE DEF s, n, e
<1>4. /\ Len(cache) \in Nat /\ Len(cache') = Len(cache) + 1
      /\ \A i \in 1..Len(cache) : cache'[i] = cache[i]
      /\ cache'[Len(cache) + 1] = s
      /\ \E S : cache' \in Seq(S)
  <2>1. PICK S : cache \in Seq(S)
    BY DEF IInv, Filling
  <2>2. Append(cache, s) \in Seq(S \cup {s})
    BY <2>1, AppendSpan
  <2>3. QED
    BY <1>1, <2>1, <2>2, AppendSpan
<1>5. TypeOK'
  <2>1. cu' \in Nat
    BY <1>1, <1>2 DEF IInv, TypeOK
  <2>2. \A i \in 1..Len(cache') : cache'[i].start \in Nat /\ cache'[i].end \in Nat
    <3>1. s.start \in Nat /\ s.end \in Nat
      BY <1>2, <1>3 DEF IInv, TypeOK
    <3>2. \A i \in 1..Len(cache') : i \in 1..Len(cache) \/ i = Len(cache) + 1
      BY <1>4
    <3>3. QED
      BY <1>4, <3>1, <3>2 DEF IInv, TypeOK
  <2>3. at' \in Nat
    BY <1>1, EntryAdvances DEF ReadSpan, HasEntry, IInv, TypeOK, e
  <2>4. QED
    BY <1>1, <2>1, <2>2, <2>3 DEF IInv, TypeOK
<1>6. Filling'
  <2>1. built' /\ (pc' \in {"build", "search"} => built')
    BY <1>1 DEF IInv, Filling
  <2>2. ASSUME NEW i \in 1..Len(cache') PROVE cache'[i].end <= cu' * 2
    <3>1. cu \in Nat /\ cu' * 2 = (cu + n) * 2 /\ cu * 2 <= (cu + n) * 2
      BY <1>1, <1>2 DEF IInv, TypeOK
    <3>2. CASE i \in 1..Len(cache)
      <4>1. cache'[i] = cache[i] /\ cache[i].end <= cu * 2 /\ cache[i].end \in Nat
        BY <1>4, <3>2 DEF IInv, TypeOK, Filling
      <4>2. QED
        BY <1>2, <3>1, <4>1
    <3>3. CASE i = Len(cache) + 1
      <4>1. cache'[i].end = cu' * 2 /\ cu' * 2 \in Int
        BY <1>2, <1>3, <1>4, <3>1, <3>3
      <4>2. \A x, y \in Int : x = y => x <= y
        OBVIOUS
      <4>3. QED
        BY <4>1, <4>2
    <3>4. QED
      BY <1>4, <3>2, <3>3
  <2>3. QED
    BY <1>4, <2>1, <2>2 DEF Filling
<1>7. SpansOrdered'
  BY <1>1, <1>2, <1>3, <1>4 DEF IInv, TypeOK, Filling, SpansOrdered
<1>8. SearchNarrows' /\ LookupExact'
  <2>1. pc' = "build"
    BY <1>1
  <2>2. QED
    BY <2>1 DEF SearchNarrows, LookupExact
<1>9. QED
  BY <1>5, <1>6, <1>7, <1>8 DEF IInv

\* The midpoint of a nonempty interval lies in it.
LEMMA MidBounds ==
  ASSUME NEW a \in Nat, NEW b \in Int, a <= b
  PROVE  (a + b) \div 2 \in a..b
OBVIOUS

\* A probe of a running search looks at a span of the cache.
LEMMA ProbeInCache ==
  ASSUME IInv, pc = "search", lo <= hi
  PROVE  Mid \in lo..hi /\ Mid + 1 \in 1..Len(cache) /\ Len(cache) \in Nat
<1>1. Mid \in lo..hi
  BY MidBounds DEF Mid, IInv, TypeOK
<1>2. Len(cache) \in Nat
  BY DEF IInv, Filling
<1>3. QED
  BY <1>1, <1>2 DEF IInv, TypeOK, SearchNarrows

LEMMA LookupStep == ASSUME IInv, NEW o \in Offsets, Lookup(o) PROVE IInv'
<1>1. /\ pc = "idle" /\ off' = o /\ ret' = "none" /\ code' = code /\ cache' = cache
      /\ o \in Int
  BY OffsetsAssumption DEF Lookup
<1>2. CASE built
  <2>1. /\ built' = built /\ at' = at /\ cu' = cu
        /\ pc' = "search" /\ lo' = 0 /\ hi' = Len(cache) - 1
    BY <1>2 DEF Lookup, StartSearch
  <2>2. Len(cache) \in Nat
    BY DEF IInv, Filling
  <2>3. TypeOK'
    BY <1>1, <2>1, <2>2 DEF IInv, TypeOK
  <2>4. Filling'
    BY <1>1, <1>2, <2>1 DEF IInv, Filling
  <2>5. SearchNarrows'
    BY <1>1, <2>1, <2>2 DEF SearchNarrows
  <2>6. SpansOrdered' /\ LookupExact'
    BY <1>1, <2>1 DEF IInv, SpansOrdered, LookupExact
  <2>7. QED
    BY <2>3, <2>4, <2>5, <2>6 DEF IInv
<1>3. CASE ~built
  <2>1. /\ built' /\ at' = 0 /\ cu' = 0 /\ pc' = "build" /\ lo' = lo /\ hi' = hi
    BY <1>3 DEF Lookup
  <2>2. cache = <<>> /\ Len(cache) = 0 /\ 1..0 = {}
    BY <1>3 DEF IInv, Filling
  <2>3. built' \in BOOLEAN
    BY <1>3 DEF Lookup
  <2>4. TypeOK'
    BY <1>1, <2>1, <2>3 DEF IInv, TypeOK
  <2>5. \A i \in 1..Len(cache') : cache'[i].end <= cu' * 2
    BY <1>1, <2>2
  <2>6. Filling'
    BY <1>1, <2>1, <2>5 DEF IInv, Filling
  <2>7. SpansOrdered' /\ SearchNarrows' /\ LookupExact'
    BY <1>1, <2>1 DEF IInv, SpansOrdered, SearchNarrows, LookupExact
  <2>8. QED
    BY <2>4, <2>6, <2>7 DEF IInv
<1>4. QED
  BY <1>2, <1>3

LEMMA EndBuildStep == ASSUME IInv, EndBuild PROVE IInv'
<1>1. /\ code' = code /\ built' = built /\ cache' = cache /\ at' = at /\ cu' = cu
      /\ off' = off /\ ret' = ret /\ pc = "build"
      /\ pc' = "search" /\ lo' = 0 /\ hi' = Len(cache) - 1
  BY DEF EndBuild, StartSearch
<1>2. Len(cache) \in Nat
  BY DEF IInv, Filling
<1>3. TypeOK'
  BY <1>1, <1>2 DEF IInv, TypeOK
<1>4. Filling'
  BY <1>1 DEF IInv, Filling
<1>5. SearchNarrows'
  BY <1>1, <1>2 DEF SearchNarrows
<1>6. SpansOrdered' /\ LookupExact'
  BY <1>1 DEF IInv, SpansOrdered, LookupExact
<1>7. QED
  BY <1>3, <1>4, <1>5, <1>6 DEF IInv

LEMMA BuildThrowsStep == ASSUME IInv, BuildThrows PROVE IInv'
<1>1. /\ code' = code /\ built' = built /\ cache' = cache /\ at' = at /\ cu' = cu
      /\ off' = off /\ lo' = lo /\ hi' = hi /\ pc' = "idle" /\ ret' = "threw"
  BY DEF BuildThrows
<1>2. TypeOK'
  BY <1>1 DEF IInv, TypeOK
<1>3. Filling'
  BY <1>1 DEF IInv, Filling
<1>4. SpansOrdered' /\ SearchNarrows' /\ LookupExact'
  BY <1>1 DEF IInv, SpansOrdered, SearchNarrows, LookupExact
<1>5. QED
  BY <1>2, <1>3, <1>4 DEF IInv

(* The probe discards its own half: the spans right of it start at or after    *)
(* its end, those left of it end at or before its start.                       *)
LEMMA SearchLeftStep == ASSUME IInv, SearchLeft PROVE IInv'
<1>1. /\ pc = "search" /\ lo <= hi /\ off < cache[Mid + 1].start
      /\ hi' = Mid - 1 /\ lo' = lo
      /\ code' = code /\ built' = built /\ cache' = cache /\ at' = at /\ cu' = cu
      /\ off' = off /\ pc' = pc /\ ret' = ret
  BY DEF SearchLeft, Probe
<1>2. Mid \in lo..hi /\ Mid + 1 \in 1..Len(cache) /\ Len(cache) \in Nat
  BY <1>1, ProbeInCache
<1>3. TypeOK'
  BY <1>1, <1>2 DEF IInv, TypeOK
<1>4. SearchNarrows'
  <2>1. hi' < Len(cache)
    BY <1>1, <1>2
  <2>2. ASSUME NEW i \in 1..Len(cache), i > hi' + 1 PROVE off < cache[i].start
    <3>1. Mid \in Int /\ (i = Mid + 1 \/ Mid + 1 < i)
      BY <1>1, <1>2, <2>2 DEF IInv, TypeOK
    <3>2. CASE Mid + 1 < i
      <4>1. cache[Mid + 1].start < cache[Mid + 1].end /\ cache[Mid + 1].end <= cache[i].start
        BY <1>2, <3>2 DEF IInv, SpansOrdered
      <4>2. QED
        BY <1>1, <1>2, <4>1 DEF IInv, TypeOK
    <3>3. QED
      BY <1>1, <3>1, <3>2
  <2>3. ASSUME NEW i \in 1..Len(cache), i <= lo PROVE cache[i].end <= off
    BY <1>1, <2>3 DEF IInv, SearchNarrows
  <2>4. QED
    BY <1>1, <2>1, <2>2, <2>3 DEF SearchNarrows
<1>5. Filling' /\ SpansOrdered'
  BY <1>1 DEF IInv, Filling, SpansOrdered
<1>6. LookupExact'
  BY <1>1 DEF LookupExact
<1>7. QED
  BY <1>3, <1>4, <1>5, <1>6 DEF IInv

LEMMA SearchRightStep == ASSUME IInv, SearchRight PROVE IInv'
<1>1. /\ pc = "search" /\ lo <= hi /\ off >= cache[Mid + 1].end
      /\ lo' = Mid + 1 /\ hi' = hi
      /\ code' = code /\ built' = built /\ cache' = cache /\ at' = at /\ cu' = cu
      /\ off' = off /\ pc' = pc /\ ret' = ret
  BY DEF SearchRight, Probe
<1>2. Mid \in lo..hi /\ Mid + 1 \in 1..Len(cache) /\ Len(cache) \in Nat
  BY <1>1, ProbeInCache
<1>3. TypeOK'
  BY <1>1, <1>2 DEF IInv, TypeOK
<1>4. SearchNarrows'
  <2>1. ASSUME NEW i \in 1..Len(cache), i <= lo' PROVE cache[i].end <= off
    <3>1. i = Mid + 1 \/ i < Mid + 1
      BY <1>1, <1>2, <2>1 DEF IInv, TypeOK
    <3>2. CASE i < Mid + 1
      <4>1. cache[i].end <= cache[Mid + 1].start
            /\ cache[Mid + 1].start < cache[Mid + 1].end
        BY <1>2, <3>2 DEF IInv, SpansOrdered
      <4>2. QED
        BY <1>1, <1>2, <4>1 DEF IInv, TypeOK
    <3>3. CASE i = Mid + 1
      BY <1>1, <1>2, <3>3 DEF IInv, TypeOK
    <3>4. QED
      BY <3>1, <3>2, <3>3
  <2>2. ASSUME NEW i \in 1..Len(cache), i > hi + 1 PROVE off < cache[i].start
    BY <1>1, <2>2 DEF IInv, SearchNarrows
  <2>3. hi < Len(cache)
    BY <1>1 DEF IInv, SearchNarrows
  <2>4. QED
    BY <1>1, <2>1, <2>2, <2>3 DEF SearchNarrows
<1>5. Filling' /\ SpansOrdered'
  BY <1>1 DEF IInv, Filling, SpansOrdered
<1>6. LookupExact'
  BY <1>1 DEF LookupExact
<1>7. QED
  BY <1>3, <1>4, <1>5, <1>6 DEF IInv

LEMMA FoundStep == ASSUME IInv, Found PROVE IInv'
<1>1. /\ pc = "search" /\ lo <= hi
      /\ off >= cache[Mid + 1].start /\ off < cache[Mid + 1].end
      /\ lo' = lo /\ hi' = hi
      /\ code' = code /\ built' = built /\ cache' = cache /\ at' = at /\ cu' = cu
      /\ off' = off /\ pc' = "idle" /\ ret' = "hit"
  BY DEF Found, Probe
<1>2. Mid + 1 \in 1..Len(cache)
  BY <1>1, ProbeInCache
<1>3. LookupExact'
  <2>1. Mid' = Mid
    BY <1>1 DEF Mid
  <2>2. Mid + 1 \in Holding(cache, off)
    BY <1>1, <1>2 DEF Holding, IInv, TypeOK
  <2>3. QED
    BY <1>1, <2>1, <2>2 DEF LookupExact
<1>4. TypeOK'
  BY <1>1 DEF IInv, TypeOK
<1>5. Filling' /\ SpansOrdered' /\ SearchNarrows'
  BY <1>1 DEF IInv, Filling, SpansOrdered, SearchNarrows
<1>6. QED
  BY <1>3, <1>4, <1>5 DEF IInv

LEMMA NotFoundStep == ASSUME IInv, NotFound PROVE IInv'
<1>1. /\ pc = "search" /\ lo > hi
      /\ lo' = lo /\ hi' = hi
      /\ code' = code /\ built' = built /\ cache' = cache /\ at' = at /\ cu' = cu
      /\ off' = off /\ pc' = "idle" /\ ret' = "miss"
  BY DEF NotFound
<1>2. Len(cache) \in Nat
  BY DEF IInv, Filling
<1>3. LookupExact'
  <2>1. ASSUME NEW i \in Holding(cache, off) PROVE FALSE
    <3>1. /\ i \in 1..Len(cache) /\ cache[i].start <= off /\ off < cache[i].end
      BY <2>1 DEF Holding
    <3>2. i <= lo \/ i > hi + 1
      BY <1>1, <1>2, <3>1 DEF IInv, TypeOK
    <3>3. cache[i].end <= off \/ off < cache[i].start
      BY <1>1, <3>1, <3>2 DEF IInv, SearchNarrows
    <3>4. QED
      BY <3>1, <3>3 DEF IInv, TypeOK
  <2>2. QED
    BY <1>1, <2>1 DEF LookupExact
<1>4. TypeOK'
  BY <1>1 DEF IInv, TypeOK
<1>5. Filling' /\ SpansOrdered' /\ SearchNarrows'
  BY <1>1 DEF IInv, Filling, SpansOrdered, SearchNarrows
<1>6. QED
  BY <1>3, <1>4, <1>5 DEF IInv

LEMMA StutterStep == ASSUME IInv, UNCHANGED vars PROVE IInv'
<1>1. TypeOK'
  BY DEF vars, IInv, TypeOK
<1>2. Filling' /\ SpansOrdered' /\ SearchNarrows'
  BY DEF vars, IInv, Filling, SpansOrdered, SearchNarrows
<1>3. LookupExact'
  BY DEF vars, IInv, LookupExact, Holding, Mid
<1>4. QED
  BY <1>1, <1>2, <1>3 DEF IInv

LEMMA NextIInv == IInv /\ [Next]_vars => IInv'
<1>1. SUFFICES ASSUME IInv, [Next]_vars PROVE IInv'
  OBVIOUS
<1>2. CASE UNCHANGED vars
  BY <1>1, <1>2, StutterStep
<1>3. CASE \E o \in Offsets : Lookup(o)
  BY <1>1, <1>3, LookupStep
<1>4. CASE Build
  BY <1>1, <1>4, ReadSpanStep, EndBuildStep, BuildThrowsStep DEF Build
<1>5. CASE Search
  BY <1>1, <1>5, SearchLeftStep, SearchRightStep, FoundStep, NotFoundStep DEF Search
<1>6. QED
  BY <1>1, <1>2, <1>3, <1>4, <1>5 DEF Next

LEMMA Invariance == Spec => []IInv
BY InitIInv, NextIInv, PTL DEF Spec

----------------------------------------------------------------------------
(* Reading an entry that the compiler wrote.                                 *)

\* The bytes of a varint: the groups, and which of them say it goes on.
LEMMA Sixes ==
  ASSUME NEW u \in Nat
  PROVE  /\ \A i \in 0..3 : Group(u, i) \in 0..63
         /\ \A m \in 1..5 : u < Room(m) => \A i \in 0..(m - 1) : Group(u, i) \in 0..63
<1>1. u % 64 \in 0..63 /\ (u \div 64) % 64 \in 0..63 /\ (u \div 4096) % 64 \in 0..63
      /\ (u \div 262144) % 64 \in 0..63
  OBVIOUS
<1>2. \A i \in 0..3 : Group(u, i) \in 0..63
  <2>1. \A i \in 0..3 : i = 0 \/ i = 1 \/ i = 2 \/ i = 3
    OBVIOUS
  <2> QED
    BY <1>1, <2>1 DEF Group
<1>3. u < 1073741824 => u \div 16777216 \in 0..63
  OBVIOUS
<1>4. ASSUME NEW m \in 1..5, u < Room(m), NEW i \in 0..(m - 1)
      PROVE  Group(u, i) \in 0..63
  <2>1. i \in 0..3 \/ (i = 4 /\ m = 5)
    BY <1>4
  <2>2. CASE i = 4 /\ m = 5
    <3>1. u < 1073741824
      BY <1>4, <2>2 DEF Room
    <3> QED
      BY <1>3, <2>2, <3>1 DEF Group
  <2> QED
    BY <1>2, <2>1, <2>2
<1> QED
  BY <1>2, <1>4

\* The groups make up the number again, those it has no room for being zero.
LEMMA SixesJoin ==
  ASSUME NEW u \in Nat, NEW m \in 1..5, u < Room(m)
  PROVE  LET g(i) == IF i < m THEN Group(u, i) ELSE 0
         IN g(0) + 64 * g(1) + 4096 * g(2) + 262144 * g(3) + 16777216 * g(4) = u
<1> DEFINE a == u % 64
           b == (u \div 64) % 64
           c == (u \div 4096) % 64
           d == (u \div 262144) % 64
           f == u \div 16777216
<1>1. a \in Int /\ b \in Int /\ c \in Int /\ d \in Int /\ f \in Int
  OBVIOUS
<1>2. a + 64 * b + 4096 * c + 262144 * d + 16777216 * f = u
  <2>1. u = 64 * (u \div 64) + a
    OBVIOUS
  <2>2. u \div 64 = 64 * (u \div 4096) + b
    OBVIOUS
  <2>3. u \div 4096 = 64 * (u \div 262144) + c
    OBVIOUS
  <2>4. u \div 262144 = 64 * (u \div 16777216) + d
    OBVIOUS
  <2>5. u \div 64 \in Int /\ u \div 4096 \in Int /\ u \div 262144 \in Int
    OBVIOUS
  <2> HIDE DEF a, b, c, d
  <2> QED
    BY <1>1, <2>1, <2>2, <2>3, <2>4, <2>5
<1>3. /\ u < 64 => b = 0
      /\ u < 4096 => c = 0
      /\ u < 262144 => d = 0
      /\ u < 16777216 => f = 0
  OBVIOUS
<1>4. Group(u, 0) = a /\ Group(u, 1) = b /\ Group(u, 2) = c /\ Group(u, 3) = d /\ Group(u, 4) = f
  BY DEF Group
<1> HIDE DEF a, b, c, d, f
<1>5. m = 1 \/ m = 2 \/ m = 3 \/ m = 4 \/ m = 5
  OBVIOUS
<1>6. CASE m = 1
  <2>1. u < 64
    BY <1>6 DEF Room
  <2> QED
    BY <1>1, <1>2, <1>3, <1>4, <1>6, <2>1
<1>7. CASE m = 2
  <2>1. u < 4096
    BY <1>7 DEF Room
  <2> QED
    BY <1>1, <1>2, <1>3, <1>4, <1>7, <2>1
<1>8. CASE m = 3
  <2>1. u < 262144
    BY <1>8 DEF Room
  <2> QED
    BY <1>1, <1>2, <1>3, <1>4, <1>8, <2>1
<1>9. CASE m = 4
  <2>1. u < 16777216
    BY <1>9 DEF Room
  <2> QED
    BY <1>1, <1>2, <1>3, <1>4, <1>9, <2>1
<1>10. CASE m = 5
  BY <1>1, <1>2, <1>4, <1>10
<1> QED
  BY <1>5, <1>6, <1>7, <1>8, <1>9, <1>10

\* What the bit 64 says of a byte.
LEMMA GoesOn ==
  ASSUME NEW g \in 0..63
  PROVE  ~Continues(g) /\ Continues(g + 64) /\ g % 64 = g /\ (g + 64) % 64 = g
BY DEF Continues

\* The bytes of a varint of m groups, as far as the table has them.
Groups(T, p, u, m) ==
  \A i \in 0..(m - 1) :
    p + i < Len(T) =>
      /\ T[p + i + 1] % 64 = Group(u, i)
      /\ Continues(T[p + i + 1]) <=> i < m - 1

LEMMA VarintBytes ==
  ASSUME NEW T, NEW p \in Nat, NEW q, NEW u, IsVarint(T, p, q, u)
  PROVE  \E m \in 1..5 : q = p + m /\ u \in Nat /\ u < Room(m) /\ Groups(T, p, u, m)
<1>1. PICK m \in 1..5 :
        /\ q = p + m /\ u \in Nat /\ u < Room(m)
        /\ \A i \in 0..(m - 1) :
             HasByte(T, p + i, Group(u, i) + (IF i < m - 1 THEN 64 ELSE 0))
  BY DEF IsVarint
<1>2. ASSUME NEW i \in 0..(m - 1), p + i < Len(T)
      PROVE  /\ T[p + i + 1] % 64 = Group(u, i)
             /\ Continues(T[p + i + 1]) <=> i < m - 1
  <2>1. Group(u, i) \in 0..63
    BY <1>1, Sixes
  <2>2. T[p + i + 1] = Group(u, i) + (IF i < m - 1 THEN 64 ELSE 0)
    BY <1>1, <1>2 DEF HasByte
  <2>3. CASE i < m - 1
    <3>1. T[p + i + 1] = Group(u, i) + 64
      BY <2>2, <2>3
    <3> QED
      BY <2>1, <2>3, <3>1, GoesOn
  <2>4. CASE ~(i < m - 1)
    <3>1. T[p + i + 1] = Group(u, i)
      <4>1. Group(u, i) + 0 = Group(u, i)
        BY <2>1
      <4> QED
        BY <2>2, <2>4, <4>1
    <3> QED
      BY <2>1, <2>4, <3>1, GoesOn
  <2> QED
    BY <2>3, <2>4
<1>3. Groups(T, p, u, m)
  BY <1>2 DEF Groups
<1> QED
  BY <1>1, <1>3

\* The ends of varints before q.
Stops(T, p, q) == {r \in VarintStops(T, p) : r < q}

\* The table has n varints from p up to q, or is cut off before it has them.
Walked(T, p, n, q) ==
  /\ q \in Nat /\ p <= q
  /\ q <= Len(T) => Cardinality(Stops(T, p, q)) = n
  /\ q > Len(T)  => Cardinality(VarintStops(T, p)) < n

LEMMA StopsFinite ==
  ASSUME NEW T \in Seq(Byte), NEW p \in Nat
  PROVE  /\ IsFiniteSet(VarintStops(T, p)) /\ VarintStops(T, p) \subseteq Nat
         /\ Cardinality(VarintStops(T, p)) \in Nat
         /\ \A S \in SUBSET VarintStops(T, p) :
              /\ IsFiniteSet(S) /\ Cardinality(S) \in Nat
              /\ Cardinality(S) <= Cardinality(VarintStops(T, p))
<1>1. Len(T) \in Nat /\ Len(T) - 1 \in Int
  OBVIOUS
<1>2. VarintStops(T, p) \in SUBSET (p..(Len(T) - 1)) /\ VarintStops(T, p) \subseteq Nat
  BY <1>1 DEF VarintStops
<1>3. IsFiniteSet(VarintStops(T, p))
  <2>1. IsFiniteSet(p..(Len(T) - 1))
    <3>1. p \in Int
      OBVIOUS
    <3> QED
      BY <1>1, <3>1, FS_Interval
  <2> QED
    BY <1>2, <2>1, FS_Subset
<1> QED
  BY <1>2, <1>3, FS_Subset, FS_CardinalityType

LEMMA WalkedNone ==
  ASSUME NEW T \in Seq(Byte), NEW p \in Nat, p <= Len(T)
  PROVE  Walked(T, p, 0, p)
<1>1. Stops(T, p, p) = {}
  BY DEF Stops, VarintStops
<1>2. p <= Len(T) /\ Len(T) \in Nat
  OBVIOUS
<1> QED
  BY <1>1, <1>2, FS_EmptySet DEF Walked

\* Behind n varints comes one more.
LEMMA WalkedOn ==
  ASSUME NEW T \in Seq(Byte), NEW p \in Nat, NEW n \in Nat, NEW f, NEW t, NEW u,
         Walked(T, p, n, f), IsVarint(T, f, t, u)
  PROVE  /\ Walked(T, p, n + 1, t)
         /\ t <= Len(T) => /\ f <= Len(T)
                           /\ t - 1 \in VarintStops(T, p)
                           /\ EndsVarint(T, p, n + 1, t - 1)
<1>1. f \in Nat /\ p <= f /\ Len(T) \in Nat
  BY DEF Walked
<1>2. PICK m \in 1..5 : t = f + m /\ Groups(T, f, u, m)
  BY <1>1, VarintBytes
<1>3. t \in Nat /\ f < t /\ p <= t /\ t - 1 \in Int
  BY <1>1, <1>2
<1>4. ASSUME NEW r \in f..(t - 1), r < Len(T)
      PROVE  Continues(T[r + 1]) <=> r < t - 1
  <2>1. r - f \in 0..(m - 1) /\ f + (r - f) = r /\ (r - f < m - 1 <=> r < t - 1)
    BY <1>1, <1>2, <1>3
  <2> QED
    BY <1>2, <1>4, <2>1 DEF Groups
<1>5. CASE t <= Len(T)
  <2>1. f <= Len(T) /\ t - 1 < Len(T) /\ t - 1 \in f..(t - 1) /\ f < Len(T)
    BY <1>1, <1>3, <1>5
  <2>2. t - 1 \in VarintStops(T, p)
    <3>1. ~Continues(T[(t - 1) + 1])
      BY <1>3, <1>4, <2>1
    <3>2. t - 1 \in p..(Len(T) - 1)
      BY <1>1, <1>3, <2>1
    <3> QED
      BY <3>1, <3>2 DEF VarintStops
  <2>3. Stops(T, p, t) = Stops(T, p, f) \cup {t - 1}
    <3>1. ASSUME NEW r \in VarintStops(T, p), r < t, ~(r < f)
          PROVE  r = t - 1
      <4>1. r \in p..(Len(T) - 1) /\ ~Continues(T[r + 1])
        BY DEF VarintStops
      <4>2. r \in f..(t - 1) /\ r < Len(T)
        BY <1>1, <1>3, <3>1, <4>1
      <4>3. ~(r < t - 1)
        BY <1>4, <4>1, <4>2
      <4> QED
        BY <1>3, <4>2, <4>3
    <3>2. ASSUME NEW r \in VarintStops(T, p)
          PROVE  (r < f => r < t) /\ t - 1 < t
      <4>1. r \in Nat
        BY StopsFinite
      <4> QED
        BY <1>1, <1>3, <4>1
    <3> QED
      BY <2>2, <3>1, <3>2 DEF Stops
  <2>4. t - 1 \notin Stops(T, p, f)
    BY <1>1, <1>3 DEF Stops
  <2>5. Stops(T, p, f) \in SUBSET VarintStops(T, p)
    BY DEF Stops
  <2>6. Cardinality(Stops(T, p, t)) = Cardinality(Stops(T, p, f)) + 1
    BY <2>3, <2>4, <2>5, StopsFinite, FS_AddElement
  <2>7. Cardinality(Stops(T, p, t)) = n + 1
    BY <2>1, <2>6 DEF Walked
  <2>8. {r \in VarintStops(T, p) : r <= t - 1} = Stops(T, p, t)
    <3>1. ASSUME NEW r \in VarintStops(T, p)
          PROVE  r <= t - 1 <=> r < t
      <4>1. r \in Nat
        BY StopsFinite
      <4> QED
        BY <1>3, <4>1
    <3> QED
      BY <3>1 DEF Stops
  <2>9. EndsVarint(T, p, n + 1, t - 1)
    BY <2>7, <2>8 DEF EndsVarint
  <2>10. ~(t > Len(T))
    BY <1>1, <1>3, <1>5
  <2>11. Walked(T, p, n + 1, t)
    BY <1>3, <2>7, <2>10 DEF Walked
  <2> QED
    BY <2>1, <2>2, <2>9, <2>11
<1>6. CASE ~(t <= Len(T))
  <2>1. Cardinality(VarintStops(T, p)) < n + 1
    <3>1. CASE f <= Len(T)
      <4>1. VarintStops(T, p) = Stops(T, p, f)
        <5>1. ASSUME NEW r \in VarintStops(T, p)
              PROVE  r < f
          <6>1. r \in p..(Len(T) - 1) /\ ~Continues(T[r + 1])
            BY DEF VarintStops
          <6>2. r < Len(T) /\ r < t - 1 /\ r \in Int
            BY <1>1, <1>3, <1>6, <6>1
          <6>3. ~(r \in f..(t - 1))
            BY <1>4, <6>1, <6>2
          <6> QED
            BY <1>1, <1>3, <6>2, <6>3
        <5> QED
          BY <5>1 DEF Stops
      <4>2. Cardinality(VarintStops(T, p)) = n
        BY <3>1, <4>1 DEF Walked
      <4> QED
        BY <4>2
    <3>2. CASE f > Len(T)
      <4>1. Cardinality(VarintStops(T, p)) < n /\ Cardinality(VarintStops(T, p)) \in Nat
        BY <3>2, StopsFinite DEF Walked
      <4> QED
        BY <4>1
    <3> QED
      BY <1>1, <3>1, <3>2
  <2> QED
    BY <1>1, <1>3, <1>6, <2>1 DEF Walked
<1> QED
  BY <1>1, <1>3, <1>5, <1>6

\* Only one byte ends the nth varint.
LEMMA OneEnd ==
  ASSUME NEW T \in Seq(Byte), NEW p \in Nat, NEW n \in Nat,
         NEW q \in VarintStops(T, p), NEW r \in VarintStops(T, p),
         EndsVarint(T, p, n, q), EndsVarint(T, p, n, r)
  PROVE  q = r
<1> DEFINE Upto(x) == {y \in VarintStops(T, p) : y <= x}
<1>1. ASSUME NEW x \in VarintStops(T, p), NEW z \in VarintStops(T, p), x < z,
             EndsVarint(T, p, n, x), EndsVarint(T, p, n, z)
      PROVE  FALSE
  <2>1. VarintStops(T, p) \subseteq Nat
    BY StopsFinite
  <2>2. Upto(x) \subseteq Upto(z) /\ z \in Upto(z) /\ z \notin Upto(x)
    BY <1>1, <2>1
  <2>3. Cardinality(Upto(x)) = n /\ Cardinality(Upto(z)) = n
    BY <1>1 DEF EndsVarint
  <2>4. IsFiniteSet(Upto(z))
    BY StopsFinite
  <2>5. Upto(z) = Upto(x)
    BY <2>2, <2>3, <2>4, FS_Subset
  <2> QED
    BY <2>2, <2>5
<1>2. q \in Nat /\ r \in Nat
  BY StopsFinite
<1>3. ~(q < r) /\ ~(r < q)
  BY <1>1
<1> QED
  BY <1>2, <1>3

\* Where the code finds the end of the nth varint, and that it finds none
\* in a table that is cut off before it.
LEMMA After ==
  ASSUME NEW T \in Seq(Byte), NEW p \in Nat, NEW n \in Nat, NEW f, NEW t, NEW u,
         Walked(T, p, n, f), IsVarint(T, f, t, u)
  PROVE  /\ t <= Len(T) => AfterVarint(T, p, n + 1) = t /\ HasVarints(T, p, n + 1)
         /\ t > Len(T) => ~HasVarints(T, p, n + 1)
<1>1. t \in Nat
  BY WalkedOn DEF Walked
<1>2. CASE t <= Len(T)
  <2>1. t - 1 \in VarintStops(T, p) /\ EndsVarint(T, p, n + 1, t - 1)
    BY <1>2, WalkedOn
  <2>2. n + 1 \in Nat /\ n + 1 # 0
    OBVIOUS
  <2>3. (CHOOSE q \in VarintStops(T, p) : EndsVarint(T, p, n + 1, q)) = t - 1
    BY <2>1, <2>2, OneEnd
  <2>4. AfterVarint(T, p, n + 1) = t
    <3>1. AfterVarint(T, p, n + 1) = 1 + (t - 1)
      BY <2>2, <2>3, Zenon DEF AfterVarint
    <3> QED
      BY <1>1, <3>1
  <2>5. HasVarints(T, p, n + 1)
    BY <2>1 DEF HasVarints
  <2>6. ~(t > Len(T))
    BY <1>1, <1>2
  <2> QED
    BY <2>4, <2>5, <2>6
<1>3. CASE t > Len(T)
  <2>1. Cardinality(VarintStops(T, p)) < n + 1
    BY <1>3, WalkedOn DEF Walked
  <2>2. ASSUME NEW q \in VarintStops(T, p), EndsVarint(T, p, n + 1, q)
        PROVE  FALSE
    <3>1. {r \in VarintStops(T, p) : r <= q} \in SUBSET VarintStops(T, p)
      OBVIOUS
    <3>2. n + 1 <= Cardinality(VarintStops(T, p)) /\ Cardinality(VarintStops(T, p)) \in Nat
      BY <2>2, <3>1, StopsFinite DEF EndsVarint
    <3> QED
      BY <2>1, <3>2
  <2> QED
    BY <1>1, <1>3, <2>2 DEF HasVarints
<1> QED
  BY <1>1, <1>2, <1>3

\* A varint is not empty.
LEMMA VarintLength ==
  ASSUME NEW T, NEW p \in Nat, NEW q, NEW u, IsVarint(T, p, q, u)
  PROVE  q \in Nat /\ p < q /\ u \in Nat
BY DEF IsVarint

\* The number the code reads between two ends.
LEMMA ValueIs ==
  ASSUME NEW T \in Seq(Byte), NEW p \in Nat, NEW n \in Nat, NEW f \in Nat, NEW t, NEW u,
         AfterVarint(T, p, n - 1) = f, AfterVarint(T, p, n) = t,
         IsVarint(T, f, t, u), t <= Len(T)
  PROVE  Varint(T, p, n) = u
<1>1. PICK m \in 1..5 : t = f + m /\ u \in Nat /\ u < Room(m) /\ Groups(T, f, u, m)
  BY VarintBytes
<1> DEFINE g(i) == IF i < m THEN Group(u, i) ELSE 0
           h(i) == IF f + i < t THEN T[f + i + 1] % 64 ELSE 0
<1>2. g(0) + 64 * g(1) + 4096 * g(2) + 262144 * g(3) + 16777216 * g(4) = u
  BY <1>1, SixesJoin
<1>3. ASSUME NEW i \in 0..4
      PROVE  h(i) = g(i)
  <2>1. t = f + m /\ (f + i < t <=> i < m)
    BY <1>1
  <2>2. i < m => i \in 0..(m - 1) /\ f + i < Len(T)
    <3>1. Len(T) \in Nat
      OBVIOUS
    <3> QED
      BY <2>1, <3>1
  <2>3. i < m => T[f + i + 1] % 64 = Group(u, i)
    BY <1>1, <2>2, Zenon DEF Groups
  <2> QED
    BY <2>1, <2>3, Zenon
<1>4. Varint(T, p, n) = h(0) + 64 * h(1) + 4096 * h(2) + 262144 * h(3) + 16777216 * h(4)
  <2> DEFINE k(x, y, i) == IF x + i < y THEN T[x + i + 1] % 64 ELSE 0
             a == AfterVarint(T, p, n - 1)
             b == AfterVarint(T, p, n)
  <2>1. Varint(T, p, n) = k(a, b, 0) + 64 * k(a, b, 1) + 4096 * k(a, b, 2) + 262144 * k(a, b, 3)
                          + 16777216 * k(a, b, 4)
    BY SMT DEF Varint
  <2>2. \A i : k(a, b, i) = h(i)
    BY Zenon
  <2> HIDE DEF k, a, b, h
  <2> QED
    BY <2>1, <2>2, SMT
<1> HIDE DEF g, h
<1>5. h(0) = g(0) /\ h(1) = g(1) /\ h(2) = g(2) /\ h(3) = g(3) /\ h(4) = g(4)
  BY <1>3
<1> QED
  BY <1>2, <1>4, <1>5

\* Reading one varint.
LEMMA OneVarint ==
  ASSUME NEW T \in Seq(Byte), NEW p \in Nat, NEW t, NEW u, p <= Len(T),
         IsVarint(T, p, t, u)
  PROVE  /\ t \in Nat /\ p < t /\ u \in Nat
         /\ t <= Len(T) => AfterVarint(T, p, 1) = t /\ HasVarints(T, p, 1) /\ Varint(T, p, 1) = u
         /\ ~(t <= Len(T)) => ~HasVarints(T, p, 1)
<1>1. Walked(T, p, 0, p)
  BY WalkedNone
<1>2. /\ t <= Len(T) => AfterVarint(T, p, 0 + 1) = t /\ HasVarints(T, p, 0 + 1)
      /\ t > Len(T) => ~HasVarints(T, p, 0 + 1)
  BY <1>1, After
<1>3. t \in Nat /\ p < t /\ u \in Nat /\ Len(T) \in Nat
  BY DEF IsVarint
<1>4. AfterVarint(T, p, 1 - 1) = p /\ 0 + 1 = 1
  BY DEF AfterVarint
<1>5. t <= Len(T) => Varint(T, p, 1) = u
  BY <1>2, <1>4, ValueIs
<1> QED
  BY <1>2, <1>3, <1>4, <1>5

\* Reading four.
LEMMA FourVarints ==
  ASSUME NEW T \in Seq(Byte), NEW p \in Nat, p <= Len(T),
         NEW t1, NEW t2, NEW t3, NEW t4, NEW u1, NEW u2, NEW u3, NEW u4,
         IsVarint(T, p, t1, u1), IsVarint(T, t1, t2, u2), IsVarint(T, t2, t3, u3),
         IsVarint(T, t3, t4, u4)
  PROVE  /\ t4 \in Nat /\ p < t4 /\ u1 \in Nat /\ u2 \in Nat /\ u3 \in Nat /\ u4 \in Nat
         /\ t4 <= Len(T) =>
              /\ AfterVarint(T, p, 4) = t4 /\ HasVarints(T, p, 4)
              /\ Varint(T, p, 1) = u1 /\ Varint(T, p, 2) = u2
              /\ Varint(T, p, 3) = u3 /\ Varint(T, p, 4) = u4
         /\ ~(t4 <= Len(T)) => ~HasVarints(T, p, 4)
<1>1. /\ t1 \in Nat /\ t2 \in Nat /\ t3 \in Nat /\ t4 \in Nat /\ Len(T) \in Nat
      /\ p < t1 /\ t1 < t2 /\ t2 < t3 /\ t3 < t4
      /\ u1 \in Nat /\ u2 \in Nat /\ u3 \in Nat /\ u4 \in Nat
  <2>1. t1 \in Nat /\ p < t1 /\ u1 \in Nat
    BY VarintLength
  <2>2. t2 \in Nat /\ t1 < t2 /\ u2 \in Nat
    BY <2>1, VarintLength
  <2>3. t3 \in Nat /\ t2 < t3 /\ u3 \in Nat
    BY <2>2, VarintLength
  <2>4. t4 \in Nat /\ t3 < t4 /\ u4 \in Nat
    BY <2>3, VarintLength
  <2> QED
    BY <2>1, <2>2, <2>3, <2>4
<1>2. Walked(T, p, 1, t1)
  <2>1. Walked(T, p, 0, p)
    BY WalkedNone
  <2>2. Walked(T, p, 0 + 1, t1)
    BY <2>1, WalkedOn
  <2> QED
    BY <2>2
<1>3. Walked(T, p, 2, t2)
  <2>1. Walked(T, p, 1 + 1, t2)
    BY <1>2, WalkedOn
  <2> QED
    BY <2>1
<1>4. Walked(T, p, 3, t3)
  <2>1. Walked(T, p, 2 + 1, t3)
    BY <1>3, WalkedOn
  <2> QED
    BY <2>1
<1>5. t1 <= Len(T) => AfterVarint(T, p, 1) = t1 /\ Varint(T, p, 1) = u1
  BY OneVarint
<1>6. t2 <= Len(T) => AfterVarint(T, p, 2) = t2
  <2>1. t2 <= Len(T) => AfterVarint(T, p, 1 + 1) = t2
    BY <1>2, After
  <2> QED
    BY <2>1
<1>7. t3 <= Len(T) => AfterVarint(T, p, 3) = t3
  <2>1. t3 <= Len(T) => AfterVarint(T, p, 2 + 1) = t3
    BY <1>3, After
  <2> QED
    BY <2>1
<1>8. /\ t4 <= Len(T) => AfterVarint(T, p, 4) = t4 /\ HasVarints(T, p, 4)
      /\ ~(t4 <= Len(T)) => ~HasVarints(T, p, 4)
  <2>1. /\ t4 <= Len(T) => AfterVarint(T, p, 3 + 1) = t4 /\ HasVarints(T, p, 3 + 1)
        /\ t4 > Len(T) => ~HasVarints(T, p, 3 + 1)
    BY <1>4, After
  <2>2. ~(t4 <= Len(T)) <=> t4 > Len(T)
    BY <1>1
  <2>3. 3 + 1 = 4
    OBVIOUS
  <2> QED
    BY <2>1, <2>2, <2>3
<1>9. ASSUME t4 <= Len(T)
      PROVE  /\ Varint(T, p, 2) = u2 /\ Varint(T, p, 3) = u3 /\ Varint(T, p, 4) = u4
  <2>1. t1 <= Len(T) /\ t2 <= Len(T) /\ t3 <= Len(T) /\ 2 - 1 = 1 /\ 3 - 1 = 2 /\ 4 - 1 = 3
    BY <1>1, <1>9
  <2>2. Varint(T, p, 2) = u2
    <3>1. AfterVarint(T, p, 2 - 1) = t1 /\ AfterVarint(T, p, 2) = t2
      BY <1>5, <1>6, <2>1
    <3> QED
      BY <1>1, <2>1, <3>1, ValueIs
  <2>3. Varint(T, p, 3) = u3
    <3>1. AfterVarint(T, p, 3 - 1) = t2 /\ AfterVarint(T, p, 3) = t3
      BY <1>6, <1>7, <2>1
    <3> QED
      BY <1>1, <2>1, <3>1, ValueIs
  <2>4. Varint(T, p, 4) = u4
    <3>1. AfterVarint(T, p, 4 - 1) = t3 /\ AfterVarint(T, p, 4) = t4
      BY <1>7, <1>8, <1>9, <2>1
    <3> QED
      BY <1>1, <1>9, <3>1, ValueIs
  <2> QED
    BY <2>2, <2>3, <2>4
<1>10. p < t4 /\ (t4 <= Len(T) => t1 <= Len(T))
  BY <1>1
<1> QED
  BY <1>1, <1>5, <1>8, <1>9, <1>10

\* The sign comes back.
LEMMA SignedIs ==
  ASSUME NEW d \in Int
  PROVE  Signed(Zigzag(d)) = d
<1>1. CASE d < 0
  <2>1. Zigzag(d) = 2 * (-d) + 1
    BY <1>1 DEF Zigzag
  <2>2. (2 * (-d) + 1) % 2 = 1 /\ (2 * (-d) + 1) \div 2 = -d
    BY <1>1
  <2> QED
    BY <2>1, <2>2 DEF Signed
<1>2. CASE ~(d < 0)
  <2>1. Zigzag(d) = 2 * d
    BY <1>2 DEF Zigzag
  <2>2. (2 * d) % 2 = 0 /\ (2 * d) \div 2 = d
    BY <1>2
  <2> QED
    BY <2>1, <2>2 DEF Signed
<1> QED
  BY <1>1, <1>2

\* What the code makes of the first byte of an entry.
LEMMA FirstByteIs ==
  ASSUME NEW f \in 0..15, NEW n \in 1..8
  PROVE  LET b == 128 + 8 * f + n - 1
         IN b >= 128 /\ (b \div 8) % 16 = f /\ (b % 8) + 1 = n
OBVIOUS

\* The second byte of a short entry.
LEMMA ShortByteIs ==
  ASSUME NEW s \in 0..79, NEW w \in 0..15
  PROVE  LET b == (s % 8) * 16 + w
         IN (b \div 16) % 8 = s % 8 /\ b % 16 = w /\ (s \div 8) * 8 + (s % 8) = s
OBVIOUS

\* What a reader of the entry e finds, if the table has it whole.
Read(T, e, l) ==
  /\ EntryFits(T, e.at) <=> e.next <= Len(T)
  /\ e.next <= Len(T) =>
       EntryAt(T, e.at, e.prev) = Entry(e.next, Loc(l.line, l.eline, l.scol, l.ecol))

LEMMA FirstIs ==
  ASSUME NEW T \in Seq(Byte), NEW e \in Piece, NEW l, IsEntry(T, e, l), e.at < Len(T)
  PROVE  /\ T[e.at + 1] >= 128
         /\ Form(T, e.at) = e.form /\ UnitsAt(T, e.at) = e.units
<1>1. e.form \in 0..15 /\ e.units \in 1..8
  BY DEF Piece
<1>2. T[e.at + 1] = 128 + 8 * e.form + e.units - 1
  BY DEF IsEntry, HasByte
<1> DEFINE f == e.form
           n == e.units
           b == T[e.at + 1]
<1> HIDE DEF f, n, b
<1>3. b >= 128 /\ (b \div 8) % 16 = f /\ (b % 8) + 1 = n
  <2>1. f \in 0..15 /\ n \in 1..8 /\ b = 128 + 8 * f + n - 1
    BY <1>1, <1>2 DEF f, n, b
  <2> QED
    BY <2>1, FirstByteIs
<1> QED
  BY <1>3 DEF Form, UnitsAt, f, n, b

\* The entry of every form.
LEMMA LongIs ==
  ASSUME NEW T \in Seq(Byte), NEW e \in Piece, NEW l \in Location, e.at < Len(T), e.form = 14,
         Form(T, e.at) = 14, IsLong(T, e, l)
  PROVE  Read(T, e, l)
<1> DEFINE p == e.at + 1
           a == l.line - e.prev
<1>1. p \in Nat /\ p <= Len(T) /\ e.at \in Nat
  BY DEF Piece
<1>2. l.line \in Int /\ e.prev \in Int /\ l.eline \in Int /\ l.scol \in Int /\ l.ecol \in Int
  BY DEF Piece, Location
<1>3. /\ IsVarint(T, p, e.ends[1], Zigzag(a))
      /\ IsVarint(T, e.ends[1], e.ends[2], l.eline - l.line)
      /\ IsVarint(T, e.ends[2], e.ends[3], l.scol + 1)
      /\ IsVarint(T, e.ends[3], e.ends[4], l.ecol + 1)
      /\ e.next = e.ends[4] /\ l.eline >= 0
  BY DEF IsLong
<1> HIDE DEF p
<1>4. /\ e.next \in Nat /\ p < e.next
      /\ e.next <= Len(T) =>
           /\ AfterVarint(T, p, 4) = e.next /\ HasVarints(T, p, 4)
           /\ Varint(T, p, 1) = Zigzag(a) /\ Varint(T, p, 2) = l.eline - l.line
           /\ Varint(T, p, 3) = l.scol + 1 /\ Varint(T, p, 4) = l.ecol + 1
      /\ ~(e.next <= Len(T)) => ~HasVarints(T, p, 4)
  BY <1>1, <1>3, FourVarints
<1>5. Signed(Zigzag(a)) = a /\ e.prev + a = l.line
  <2>1. a \in Int
    BY <1>2
  <2> QED
    BY <1>2, <2>1, SignedIs
<1>6. EntryFits(T, e.at) <=> HasVarints(T, p, 4)
  BY DEF EntryFits, p
<1>7. ASSUME e.next <= Len(T)
      PROVE  EntryAt(T, e.at, e.prev) = Entry(e.next, Loc(l.line, l.eline, l.scol, l.ecol))
  <2>1. EntryAt(T, e.at, e.prev) = LongEntry(T, p, e.prev)
    BY DEF EntryAt, p
  <2>2. e.prev + Signed(Varint(T, p, 1)) = l.line
    BY <1>4, <1>5, <1>7
  <2>3. l.line + Varint(T, p, 2) = l.eline /\ ~(l.eline < 0)
    BY <1>2, <1>3, <1>4, <1>7
  <2>4. Varint(T, p, 3) - 1 = l.scol /\ Varint(T, p, 4) - 1 = l.ecol
    BY <1>2, <1>4, <1>7
  <2>5. AfterVarint(T, p, 4) = e.next
    BY <1>4, <1>7
  <2> QED
    BY <2>1, <2>2, <2>3, <2>4, <2>5, Zenon DEF LongEntry
<1> QED
  BY <1>4, <1>6, <1>7 DEF Read

LEMMA NoColumnIs ==
  ASSUME NEW T \in Seq(Byte), NEW e \in Piece, NEW l \in Location, e.at < Len(T), e.form = 13,
         Form(T, e.at) = 13, IsNoColumn(T, e, l)
  PROVE  Read(T, e, l)
<1> DEFINE p == e.at + 1
           a == l.line - e.prev
<1>1. p \in Nat /\ p <= Len(T) /\ e.at \in Nat
  BY DEF Piece
<1>2. l.line \in Int /\ e.prev \in Int
  BY DEF Piece, Location
<1>3. /\ IsVarint(T, p, e.ends[1], Zigzag(a))
      /\ e.next = e.ends[1] /\ l.eline = l.line /\ l.scol = -1 /\ l.ecol = -1
  BY DEF IsNoColumn
<1> HIDE DEF p
<1>4. /\ e.next \in Nat /\ p < e.next
      /\ e.next <= Len(T) =>
           AfterVarint(T, p, 1) = e.next /\ HasVarints(T, p, 1) /\ Varint(T, p, 1) = Zigzag(a)
      /\ ~(e.next <= Len(T)) => ~HasVarints(T, p, 1)
  BY <1>1, <1>3, OneVarint
<1>5. Signed(Zigzag(a)) = a /\ e.prev + a = l.line
  <2>1. a \in Int
    BY <1>2
  <2> QED
    BY <1>2, <2>1, SignedIs
<1>6. EntryFits(T, e.at) <=> HasVarints(T, p, 1)
  BY DEF EntryFits, p
<1>7. ASSUME e.next <= Len(T)
      PROVE  EntryAt(T, e.at, e.prev) = Entry(e.next, Loc(l.line, l.eline, l.scol, l.ecol))
  <2>1. EntryAt(T, e.at, e.prev) = NoColumnEntry(T, p, e.prev)
    BY DEF EntryAt, p
  <2>2. e.prev + Signed(Varint(T, p, 1)) = l.line
    BY <1>4, <1>5, <1>7
  <2>3. AfterVarint(T, p, 1) = e.next
    BY <1>4, <1>7
  <2> QED
    BY <1>3, <2>1, <2>2, <2>3 DEF NoColumnEntry
<1> QED
  BY <1>4, <1>6, <1>7 DEF Read

LEMMA OneLineIs ==
  ASSUME NEW T \in Seq(Byte), NEW e \in Piece, NEW l \in Location, e.at < Len(T),
         e.form \in 10..12, Form(T, e.at) = e.form, IsOneLine(T, e, l)
  PROVE  Read(T, e, l)
<1>1. e.at \in Nat /\ Len(T) \in Nat /\ e.prev \in Int
  BY DEF Piece
<1>2. /\ e.next = e.at + 3
      /\ l.line = e.prev + e.form - 10 /\ l.eline = l.line
      /\ HasByte(T, e.at + 1, l.scol) /\ HasByte(T, e.at + 2, l.ecol)
  BY DEF IsOneLine
<1>3. EntryFits(T, e.at) <=> e.next <= Len(T)
  BY <1>2 DEF EntryFits
<1>4. ASSUME e.next <= Len(T)
      PROVE  EntryAt(T, e.at, e.prev) = Entry(e.next, Loc(l.line, l.eline, l.scol, l.ecol))
  <2>1. EntryAt(T, e.at, e.prev) = OneLineEntry(T, e.at + 1, e.prev + e.form - 10)
    BY DEF EntryAt
  <2>2. T[e.at + 1 + 1] = l.scol /\ T[e.at + 2 + 1] = l.ecol
    BY <1>1, <1>2, <1>4 DEF HasByte
  <2>3. e.at + 1 + 2 = e.next /\ e.at + 1 + 1 = e.at + 2
    BY <1>1, <1>2
  <2>4. T[e.at + 1 + 1] = l.scol /\ T[e.at + 1 + 2] = l.ecol
    <3>1. e.at + 1 + 2 = e.at + 2 + 1
      BY <1>1
    <3> QED
      BY <2>2, <3>1
  <2> QED
    BY <1>2, <2>1, <2>3, <2>4 DEF OneLineEntry
<1> QED
  BY <1>1, <1>2, <1>3, <1>4 DEF Read

LEMMA ShortIs ==
  ASSUME NEW T \in Seq(Byte), NEW e \in Piece, NEW l \in Location, e.at < Len(T),
         e.form \in 0..9, Form(T, e.at) = e.form, IsShort(T, e, l)
  PROVE  Read(T, e, l)
<1>1. e.at \in Nat /\ Len(T) \in Nat
  BY DEF Piece
<1>2. /\ e.next = e.at + 2 /\ l.line = e.prev /\ l.eline = l.line
      /\ l.scol \in 0..79 /\ e.form = l.scol \div 8 /\ l.ecol - l.scol \in 0..15
      /\ HasByte(T, e.at + 1, (l.scol % 8) * 16 + (l.ecol - l.scol))
  BY DEF IsShort
<1>3. EntryFits(T, e.at) <=> e.next <= Len(T)
  BY <1>2 DEF EntryFits
<1>4. ASSUME e.next <= Len(T)
      PROVE  EntryAt(T, e.at, e.prev) = Entry(e.next, Loc(l.line, l.eline, l.scol, l.ecol))
  <2>1. EntryAt(T, e.at, e.prev) = ShortEntry(T, e.at + 1, e.prev, e.form)
    BY DEF EntryAt
  <2> DEFINE b == T[e.at + 1 + 1]
             w == l.ecol - l.scol
             s == l.scol
  <2>2. b = (s % 8) * 16 + w
    BY <1>1, <1>2, <1>4 DEF HasByte
  <2>3. s \in 0..79 /\ w \in 0..15 /\ e.form = s \div 8
    BY <1>2
  <2>4. s + w = l.ecol
    BY DEF Location
  <2> HIDE DEF b, w, s
  <2>5. (b \div 16) % 8 = s % 8 /\ b % 16 = w /\ (s \div 8) * 8 + (s % 8) = s
    BY <2>2, <2>3, ShortByteIs
  <2>6. e.form * 8 + ((b \div 16) % 8) = l.scol /\ s + (b % 16) = l.ecol
    BY <2>3, <2>4, <2>5 DEF s
  <2>7. e.at + 1 + 1 = e.next
    BY <1>1, <1>2
  <2> QED
    BY <1>2, <2>1, <2>6, <2>7 DEF ShortEntry, b, s
<1> QED
  BY <1>1, <1>2, <1>3, <1>4 DEF Read

LEMMA NowhereIs ==
  ASSUME NEW T \in Seq(Byte), NEW e \in Piece, NEW l \in Location, e.at < Len(T), e.form = 15,
         Form(T, e.at) = 15, IsNowhere(e, l)
  PROVE  Read(T, e, l)
<1>1. e.at \in Nat /\ Len(T) \in Nat
  BY DEF Piece
<1>2. e.next = e.at + 1 /\ l.line = -1 /\ l.eline = -1 /\ l.scol = -1 /\ l.ecol = -1
  BY DEF IsNowhere
<1>3. EntryFits(T, e.at) /\ e.next <= Len(T)
  BY <1>1, <1>2 DEF EntryFits
<1>4. EntryAt(T, e.at, e.prev) = Entry(e.next, Loc(l.line, l.eline, l.scol, l.ecol))
  BY <1>2 DEF EntryAt
<1> QED
  BY <1>3, <1>4 DEF Read

\* The entry is read as it was written.
LEMMA EntryIsRead ==
  ASSUME NEW T \in Seq(Byte), NEW e \in Piece, NEW l \in Location, e.at < Len(T),
         IsEntry(T, e, l)
  PROVE  Read(T, e, l)
<1>1. e.form \in 0..15
  BY DEF Piece
<1>2. Form(T, e.at) = e.form
  BY FirstIs
<1>3. CASE e.form = 15
  BY <1>2, <1>3, NowhereIs DEF IsEntry
<1>4. CASE e.form = 14
  BY <1>2, <1>4, LongIs DEF IsEntry
<1>5. CASE e.form = 13
  BY <1>2, <1>5, NoColumnIs DEF IsEntry
<1>6. CASE e.form \in 10..12
  <2>1. IsOneLine(T, e, l)
    BY <1>6 DEF IsEntry
  <2> QED
    BY <1>2, <1>6, <2>1, OneLineIs
<1>7. CASE e.form \in 0..9
  <2>1. IsShort(T, e, l)
    BY <1>7 DEF IsEntry
  <2> QED
    BY <1>2, <1>7, <2>1, ShortIs
<1> QED
  BY <1>1, <1>3, <1>4, <1>5, <1>6, <1>7

\* It has bytes, also where the table is cut off.
LEMMA EntryHasBytes ==
  ASSUME NEW T, NEW e \in Piece, NEW l, IsEntry(T, e, l)
  PROVE  e.at < e.next
<1>1. e.form \in 0..15 /\ e.at \in Nat
  BY DEF Piece
<1>2. CASE e.form = 15
  BY <1>1, <1>2 DEF IsEntry, IsNowhere
<1>3. CASE e.form = 14
  <2>1. /\ IsVarint(T, e.at + 1, e.ends[1], Zigzag(l.line - e.prev))
        /\ IsVarint(T, e.ends[1], e.ends[2], l.eline - l.line)
        /\ IsVarint(T, e.ends[2], e.ends[3], l.scol + 1)
        /\ IsVarint(T, e.ends[3], e.ends[4], l.ecol + 1)
        /\ e.next = e.ends[4]
    BY <1>3 DEF IsEntry, IsLong
  <2>2. e.ends[1] \in Nat /\ e.at < e.ends[1]
    <3>1. e.at + 1 \in Nat
      BY <1>1
    <3>2. e.ends[1] \in Nat /\ e.at + 1 < e.ends[1]
      BY <2>1, <3>1, VarintLength
    <3> QED
      BY <1>1, <3>2
  <2>3. e.ends[2] \in Nat /\ e.ends[1] < e.ends[2]
    BY <2>1, <2>2, VarintLength
  <2>4. e.ends[3] \in Nat /\ e.ends[2] < e.ends[3]
    BY <2>1, <2>3, VarintLength
  <2>5. e.ends[4] \in Nat /\ e.ends[3] < e.ends[4]
    BY <2>1, <2>4, VarintLength
  <2> QED
    BY <1>1, <2>1, <2>2, <2>3, <2>4, <2>5
<1>4. CASE e.form = 13
  <2>1. e.at + 1 \in Nat /\ IsVarint(T, e.at + 1, e.next, Zigzag(l.line - e.prev))
    BY <1>1, <1>4 DEF IsEntry, IsNoColumn
  <2>2. e.at + 1 < e.next /\ e.next \in Nat
    BY <2>1, VarintLength
  <2> QED
    BY <1>1, <2>2
<1>5. CASE e.form \in 10..12
  <2>1. e.next = e.at + 3
    BY <1>5 DEF IsEntry, IsOneLine
  <2> QED
    BY <1>1, <2>1
<1>6. CASE e.form \in 0..9
  <2>1. e.next = e.at + 2
    BY <1>6 DEF IsEntry, IsShort
  <2> QED
    BY <1>1, <2>1
<1> QED
  BY <1>1, <1>2, <1>3, <1>4, <1>5, <1>6

----------------------------------------------------------------------------
(* A table that comes with its listing.                                      *)

LEMMA ByteIsNumber ==
  ASSUME NEW T \in Seq(Byte), NEW i \in 1..Len(T)
  PROVE  T[i] \in Int
<1>1. T[i] \in Byte
  OBVIOUS
<1>2. \A x \in Byte : x \in Int
  BY DEF Byte
<1> QED
  BY <1>1, <1>2

LEMMA PieceNumbers ==
  ASSUME NEW e \in Piece
  PROVE  e.from \in Nat /\ e.units \in Nat /\ e.next \in Nat /\ e.at \in Nat
BY DEF Piece

LEMMA LocationNumbers ==
  ASSUME NEW l \in Location
  PROVE  l.from \in Nat /\ Ends(l) \in Nat
BY DEF Location, Ends

\* What is said of a piece of the listing, in one place.
LEMMA PieceIs ==
  ASSUME NEW c, Written(c), NEW i \in 1..Len(c.pieces)
  PROVE  LET e == c.pieces[i]
         IN /\ e \in Piece
            /\ e.of \in 1..Len(c.locs) /\ c.locs[e.of] \in Location
            /\ e.at = EndOf(c, i - 1) /\ e.from = UnitsOf(c, i - 1) /\ e.prev = LineOf(c, i - 1)
            /\ c.locs[e.of].from <= e.from /\ e.from + e.units <= Ends(c.locs[e.of])
            /\ IsEntry(c.lnTable, e, c.locs[e.of])
            /\ EndOf(c, i) = e.next /\ UnitsOf(c, i) = e.from + e.units
            /\ LineOf(c, i) = IF e.form = 15 THEN e.prev ELSE c.locs[e.of].line
            /\ e.at < e.next
<1> DEFINE e == c.pieces[i]
<1>1. c.pieces \in Seq(Piece) /\ c.locs \in Seq(Location) /\ Pieced(c)
  BY DEF Written
<1>2. e \in Piece
  BY <1>1
<1>3. /\ e.of \in 1..Len(c.locs)
      /\ e.at = EndOf(c, i - 1) /\ e.from = UnitsOf(c, i - 1) /\ e.prev = LineOf(c, i - 1)
      /\ c.locs[e.of].from <= e.from /\ e.from + e.units <= Ends(c.locs[e.of])
      /\ IsEntry(c.lnTable, e, c.locs[e.of])
  BY <1>1 DEF Pieced
<1>4. c.locs[e.of] \in Location
  BY <1>1, <1>3
<1>5. i # 0
  OBVIOUS
<1>6. /\ EndOf(c, i) = e.next /\ UnitsOf(c, i) = e.from + e.units
      /\ LineOf(c, i) = IF e.form = 15 THEN e.prev ELSE c.locs[e.of].line
  BY <1>5, Zenon DEF EndOf, UnitsOf, LineOf
<1>7. e.at < e.next
  BY <1>2, <1>3, EntryHasBytes
<1> QED
  BY <1>2, <1>3, <1>4, <1>6, <1>7

LEMMA LeastExists ==
  ASSUME NEW S, S \subseteq Nat, S # {}
  PROVE  \E q \in S : \A r \in S : q <= r
<1>1. PICK q \in S : \A r \in S : ~(<<r, q>> \in OpToRel(<, Nat))
  BY WFMin, NatLessThanWellFounded
<1>2. \A r \in S : ~(r < q)
  BY <1>1 DEF OpToRel
<1> QED
  BY <1>2

LEMMA EndsAreNumbers ==
  ASSUME NEW c, Written(c), NEW j \in 0..Len(c.pieces)
  PROVE  EndOf(c, j) \in Nat /\ UnitsOf(c, j) \in Nat
<1>1. CASE j = 0
  BY <1>1 DEF EndOf, UnitsOf
<1>2. CASE j # 0
  <2>1. j \in 1..Len(c.pieces)
    BY <1>2 DEF Written
  <2>2. EndOf(c, j) = c.pieces[j].next /\ UnitsOf(c, j) = c.pieces[j].from + c.pieces[j].units
        /\ c.pieces[j] \in Piece
    BY <2>1, PieceIs
  <2> DEFINE e == c.pieces[j]
  <2>3. e \in Piece
    BY <2>2
  <2> HIDE DEF e
  <2>4. e.next \in Nat /\ e.from + e.units \in Nat
    BY <2>3 DEF Piece
  <2> QED
    BY <2>2, <2>4 DEF e
<1> QED
  BY <1>1, <1>2

\* No entry goes on behind the end of the last one.
LEMMA EndsGrow ==
  ASSUME NEW c, Written(c), NEW i \in 0..Len(c.pieces)
  PROVE  EndOf(c, i) <= EndOf(c, Len(c.pieces))
<1> DEFINE n == Len(c.pieces)
           E(j) == EndOf(c, j)
           Over == {d \in 0..n : ~(E(d) <= E(n))}
           Rest == {n - d : d \in Over}
<1>1. n \in Nat
  BY DEF Written
<1>2. \A j \in 0..n : E(j) \in Nat
  BY EndsAreNumbers
<1>3. SUFFICES ASSUME Over # {} PROVE FALSE
  OBVIOUS
<1>4. \A j \in 0..n : j # n => j + 1 \in 0..n /\ E(j) < E(j + 1)
  <2>1. SUFFICES ASSUME NEW j \in 0..n, j # n PROVE j + 1 \in 0..n /\ E(j) < E(j + 1)
    OBVIOUS
  <2>2. j + 1 \in 1..n /\ j + 1 \in 0..n /\ j + 1 - 1 = j
    BY <1>1, <2>1
  <2>3. c.pieces[j + 1].at = EndOf(c, j + 1 - 1) /\ EndOf(c, j + 1) = c.pieces[j + 1].next
        /\ c.pieces[j + 1].at < c.pieces[j + 1].next
    BY <2>2, PieceIs
  <2> QED
    BY <2>2, <2>3
<1> HIDE DEF n, E
<1>5. Rest \subseteq Nat /\ Rest # {}
  <2>1. \A d \in Over : n - d \in Nat
    BY <1>1
  <2> HIDE DEF Over
  <2> QED
    BY <1>3, <2>1
<1>6. PICK q \in Rest : \A r \in Rest : q <= r
  BY <1>5, LeastExists
<1>7. PICK d \in Over : q = n - d
  OBVIOUS
<1>8. d \in 0..n /\ ~(E(d) <= E(n))
  OBVIOUS
<1> HIDE DEF Over, Rest
<1>9. d # n
  BY <1>1, <1>2, <1>8
<1>10. d + 1 \in 0..n /\ E(d) < E(d + 1)
  BY <1>4, <1>8, <1>9
<1>11. n \in 0..n
  BY <1>1
<1>12. d + 1 \in Over
  <2>1. E(d) \in Nat /\ E(d + 1) \in Nat /\ E(n) \in Nat
    BY <1>2, <1>8, <1>10, <1>11
  <2> QED
    BY <1>8, <1>10, <2>1 DEF Over
<1>13. n - (d + 1) \in Rest /\ q <= n - (d + 1)
  BY <1>6, <1>12 DEF Rest
<1> QED
  BY <1>1, <1>7, <1>8, <1>13

(* The cache is the listing as far as it was read: the spans are the pieces,  *)
(* each with the location of its instruction.  A whole table is read to its   *)
(* end.                                                                       *)
Covers(s, l) ==
  s.loc.line = l.line /\ s.loc.eline = l.eline /\ s.loc.scol = l.scol /\ s.loc.ecol = l.ecol

IsSpan(c, i, s) ==
  /\ s.start = 2 * c.pieces[i].from /\ s.end = 2 * UnitsOf(c, i)
  /\ Covers(s, c.locs[c.pieces[i].of])

Spans == Len(cache) <= Len(code.pieces) /\ \A i \in 1..Len(cache) : IsSpan(code, i, cache[i])

InListing ==
  pc = "build" =>
    /\ at = EndOf(code, Len(cache))
    /\ cu = UnitsOf(code, Len(cache))
    /\ line = LineOf(code, Len(cache))

ReadWhole ==
  /\ ~built => pc = "idle" /\ ret = "none"
  /\ code.whole => /\ ret # "threw"
                   /\ built /\ pc # "build" => Len(cache) = Len(code.pieces)

Follows == Spans /\ InListing /\ ReadWhole

Following == IInv /\ (IsWritten(code) => Follows)

\* The entry the loop is at, and that a whole table has it whole.
LEMMA NextPiece ==
  ASSUME IInv, IsWritten(code), Follows, pc = "build",
         HasEntry \/ (code.whole /\ Len(cache) # Len(code.pieces))
  PROVE  /\ Written(code) /\ Len(cache) \in Nat
         /\ Len(cache) + 1 \in 1..Len(code.pieces)
         /\ LET e == code.pieces[Len(cache) + 1]
            IN /\ e.at = at /\ e.from = cu /\ e.prev = line
               /\ at < Len(code.lnTable)
               /\ code.whole => e.next <= Len(code.lnTable)
               /\ code.lnTable[at + 1] >= 128
               /\ Form(code.lnTable, at) = e.form /\ UnitsAt(code.lnTable, at) = e.units
               /\ Read(code.lnTable, e, code.locs[e.of])
<1> DEFINE k == Len(cache)
           n == Len(code.pieces)
           e == code.pieces[k + 1]
           T == code.lnTable
<1>1. code \in Codes /\ T \in Seq(Byte) /\ Written(code) /\ at \in Nat /\ k \in Nat /\ n \in Nat
  <2>1. code \in Codes /\ at \in Nat
    BY DEF IInv, TypeOK
  <2>2. T \in Seq(Byte) /\ Written(code)
    BY <2>1, CodesAssumption, ListingsAssumption
  <2>3. n \in Nat
    BY <2>2 DEF Written
  <2>4. k \in Nat
    BY DEF IInv, Filling
  <2> QED
    BY <2>1, <2>2, <2>3, <2>4
<1>2. k <= n /\ at = EndOf(code, k) /\ cu = UnitsOf(code, k) /\ line = LineOf(code, k)
  BY DEF Follows, Spans, InListing
<1>3. k # n
  <2>1. SUFFICES ASSUME k = n, HasEntry PROVE FALSE
    OBVIOUS
  <2>2. at + 1 \in 1..Len(T) /\ T[at + 1] >= 128
    BY <2>1 DEF HasEntry
  <2>3. Len(T) > at
    BY <1>1, <2>2
  <2>4. T[at + 1] < 128
    <3>1. EndOf(code, n) = at
      BY <1>2, <2>1
    <3>2. Len(T) > EndOf(code, n) => T[EndOf(code, n) + 1] < 128
      BY <1>1, Zenon DEF Written
    <3> QED
      BY <2>3, <3>1, <3>2
  <2>5. T[at + 1] \in Int
    <3>1. T \in Seq(Byte) /\ at + 1 \in 1..Len(T)
      BY <1>1, <2>2
    <3> QED
      BY <3>1, ByteIsNumber
  <2> QED
    BY <2>2, <2>4, <2>5
<1>4. k + 1 \in 1..n /\ k + 1 \in 0..n /\ k + 1 - 1 = k
  BY <1>1, <1>2, <1>3
<1>5. /\ e \in Piece /\ code.locs[e.of] \in Location
      /\ e.at = at /\ e.from = cu /\ e.prev = line
      /\ IsEntry(T, e, code.locs[e.of]) /\ EndOf(code, k + 1) = e.next /\ e.at < e.next
  BY <1>1, <1>2, <1>4, PieceIs
<1>6. code.whole => e.next <= Len(T)
  <2>1. EndOf(code, k + 1) <= EndOf(code, n)
    BY <1>1, <1>4, EndsGrow
  <2> QED
    BY <1>1, <1>5, <2>1 DEF Written
<1>7. at < Len(T)
  <2>1. CASE HasEntry
    BY <1>1, <2>1 DEF HasEntry
  <2>2. CASE code.whole
    <3>1. e.next \in Nat /\ Len(T) \in Nat
      BY <1>1, <1>5 DEF Piece
    <3> QED
      BY <1>1, <1>5, <1>6, <2>2, <3>1
  <2> QED
    BY <2>1, <2>2
<1>8. /\ T[at + 1] >= 128
      /\ Form(T, at) = e.form /\ UnitsAt(T, at) = e.units
      /\ Read(T, e, code.locs[e.of])
  BY <1>1, <1>5, <1>7, FirstIs, EntryIsRead
<1> QED
  BY <1>1, <1>4, <1>5, <1>6, <1>7, <1>8

(* A span is stored: the next piece.                                          *)
LEMMA ReadSpanFollows ==
  ASSUME IInv, IsWritten(code), Follows, ReadSpan
  PROVE  Follows'
<1> DEFINE k == Len(cache)
           T == code.lnTable
           e == code.pieces[k + 1]
           l == code.locs[e.of]
           r == EntryAt(T, at, line)
           n == UnitsAt(T, at)
           s == [start |-> cu * 2, end |-> (cu + n) * 2, loc |-> r.loc]
<1>1. /\ pc = "build" /\ pc' = pc /\ built' = built /\ ret' = ret /\ code' = code
      /\ HasEntry /\ EntryFits(T, at)
      /\ cache' = Append(cache, s) /\ cu' = cu + n /\ at' = r.next
      /\ line' = IF Form(T, at) = 15 THEN line ELSE r.loc.line
  BY DEF ReadSpan
<1>2. /\ Written(code) /\ k \in Nat /\ k + 1 \in 1..Len(code.pieces)
      /\ e.at = at /\ e.from = cu /\ e.prev = line
      /\ Form(T, at) = e.form /\ n = e.units /\ Read(T, e, l)
  BY <1>1, NextPiece
<1>3. r = Entry(e.next, Loc(l.line, l.eline, l.scol, l.ecol))
  BY <1>1, <1>2 DEF Read
<1>4. r.next = e.next /\ r.loc.line = l.line /\ r.loc.eline = l.eline
      /\ r.loc.scol = l.scol /\ r.loc.ecol = l.ecol
  BY <1>3 DEF Entry, Loc
<1>5. /\ EndOf(code, k + 1) = e.next /\ UnitsOf(code, k + 1) = cu + n
      /\ LineOf(code, k + 1) = IF e.form = 15 THEN line ELSE l.line
  BY <1>2, PieceIs
<1>6. cu \in Nat /\ n \in 1..8 /\ built
  <2>1. n \in 1..8
    <3>1. e \in Piece
      BY <1>2, PieceIs
    <3> QED
      BY <1>2, <3>1 DEF Piece
  <2> QED
    BY <1>1, <2>1 DEF IInv, TypeOK, Filling
<1>7. s.start = 2 * e.from /\ s.end = 2 * UnitsOf(code, k + 1) /\ s.loc = r.loc
  BY <1>2, <1>5, <1>6
<1>8. IsSpan(code, k + 1, s)
  BY <1>4, <1>7 DEF IsSpan, Covers
<1> HIDE DEF s, n, r, e, l, T
<1>9. /\ Len(cache') = k + 1
      /\ \A i \in 1..k : cache'[i] = cache[i]
      /\ cache'[k + 1] = s
  <2>1. PICK S : cache \in Seq(S)
    BY DEF IInv, Filling
  <2> QED
    BY <1>1, <2>1, AppendSpan
<1>10. Spans'
  <2>1. ASSUME NEW i \in 1..(k + 1)
        PROVE  IsSpan(code, i, cache'[i])
    <3>1. i \in 1..k \/ i = k + 1
      BY <1>2
    <3> QED
      BY <1>8, <1>9, <3>1 DEF Follows, Spans
  <2> QED
    BY <1>1, <1>2, <1>9, <2>1 DEF Spans
<1>11. InListing'
  <2>1. at' = EndOf(code, k + 1) /\ cu' = UnitsOf(code, k + 1) /\ line' = LineOf(code, k + 1)
    BY <1>1, <1>2, <1>4, <1>5
  <2> QED
    BY <1>1, <1>9, <2>1 DEF InListing
<1>12. ReadWhole'
  BY <1>1, <1>6 DEF Follows, ReadWhole
<1> QED
  BY <1>10, <1>11, <1>12 DEF Follows

(* The loop ends: the whole table was read, or the end of what there is.      *)
LEMMA EndBuildFollows ==
  ASSUME IInv, IsWritten(code), Follows, EndBuild
  PROVE  Follows'
<1>1. /\ code' = code /\ built' = built /\ cache' = cache /\ ret' = ret
      /\ pc = "build" /\ pc' = "search" /\ ~HasEntry
  BY DEF EndBuild, StartSearch
<1>2. code.whole => Len(cache) = Len(code.pieces)
  <2>1. SUFFICES ASSUME code.whole, Len(cache) # Len(code.pieces) PROVE FALSE
    OBVIOUS
  <2>2. at < Len(code.lnTable) /\ code.lnTable[at + 1] >= 128
    BY <1>1, <2>1, NextPiece
  <2>3. at \in Nat /\ Len(code.lnTable) \in Nat
    BY CodesAssumption DEF IInv, TypeOK
  <2>4. at + 1 \in 1..Len(code.lnTable)
    BY <2>2, <2>3
  <2> QED
    BY <1>1, <2>2, <2>4 DEF HasEntry
<1>3. Spans' /\ InListing'
  BY <1>1 DEF Follows, Spans, InListing, IsSpan, Covers
<1>4. built
  BY <1>1 DEF IInv, Filling
<1>5. ReadWhole'
  BY <1>1, <1>2, <1>4 DEF Follows, ReadWhole
<1> QED
  BY <1>3, <1>5 DEF Follows

(* An exception in the middle of an entry: the table was cut off.             *)
LEMMA BuildThrowsFollows ==
  ASSUME IInv, IsWritten(code), Follows, BuildThrows
  PROVE  Follows'
<1>1. /\ code' = code /\ built' = built /\ cache' = cache /\ ret' = "threw"
      /\ pc = "build" /\ pc' = "idle" /\ HasEntry /\ ~EntryFits(code.lnTable, at)
  BY DEF BuildThrows
<1>2. ~code.whole
  BY <1>1, NextPiece DEF Read
<1>3. Spans' /\ InListing'
  BY <1>1 DEF Follows, Spans, InListing, IsSpan, Covers
<1>4. built
  BY <1>1 DEF IInv, Filling
<1>5. ReadWhole'
  BY <1>1, <1>2, <1>4 DEF ReadWhole
<1> QED
  BY <1>3, <1>5 DEF Follows

LEMMA LookupFollows ==
  ASSUME IInv, IsWritten(code), Follows, NEW o \in Offsets, Lookup(o)
  PROVE  Follows'
<1>1. pc = "idle" /\ code' = code /\ cache' = cache /\ ret' = "none" /\ built'
  BY DEF Lookup
<1>2. Spans'
  BY <1>1 DEF Follows, Spans, IsSpan, Covers
<1>3. CASE built
  <2>1. pc' = "search"
    BY <1>3 DEF Lookup, StartSearch
  <2> QED
    BY <1>1, <1>2, <1>3, <2>1 DEF Follows, InListing, ReadWhole
<1>4. CASE ~built
  <2>1. pc' = "build" /\ at' = 0 /\ cu' = 0 /\ line' = code.firstLine
    BY <1>4 DEF Lookup
  <2>2. Len(cache) = 0
    BY <1>4 DEF IInv, Filling
  <2>3. InListing'
    BY <1>1, <2>1, <2>2 DEF InListing, EndOf, UnitsOf, LineOf
  <2>4. ReadWhole'
    BY <1>1, <2>1 DEF ReadWhole
  <2> QED
    BY <1>2, <2>3, <2>4 DEF Follows
<1> QED
  BY <1>3, <1>4

LEMMA SearchFollows ==
  ASSUME IInv, IsWritten(code), Follows, Search
  PROVE  Follows'
<1>1. /\ code' = code /\ built' = built /\ cache' = cache
      /\ pc = "search" /\ pc' \in {"search", "idle"} /\ (ret' = ret \/ ret' \in {"hit", "miss"})
  BY DEF Search, SearchLeft, SearchRight, Found, NotFound
<1>2. built
  BY <1>1 DEF IInv, Filling
<1> QED
  BY <1>1, <1>2 DEF Follows, Spans, InListing, ReadWhole, IsSpan, Covers

LEMMA FollowingInit == Init => Following
<1>1. SUFFICES ASSUME Init, IsWritten(code) PROVE Follows
  BY InitIInv DEF Following
<1>2. Len(cache) = 0 /\ pc = "idle" /\ ret = "none" /\ built = FALSE /\ code \in Codes
  BY <1>1 DEF Init
<1>3. Written(code)
  BY <1>1, <1>2, ListingsAssumption
<1>4. Len(code.pieces) \in Nat
  BY <1>3 DEF Written
<1>5. Spans
  BY <1>2, <1>4 DEF Spans
<1>6. InListing /\ ReadWhole
  BY <1>2 DEF InListing, ReadWhole
<1> QED
  BY <1>5, <1>6 DEF Follows

LEMMA FollowingNext == Following /\ [Next]_vars => Following'
<1>1. SUFFICES ASSUME Following, [Next]_vars PROVE Following'
  OBVIOUS
<1>2. IInv /\ IInv' /\ code' = code
  <2>1. IInv /\ IInv'
    BY <1>1, NextIInv DEF Following
  <2>2. code' = code
    BY <1>1 DEF vars, Next, Lookup, Build, ReadSpan, EndBuild, BuildThrows, Search, SearchLeft,
                SearchRight, Found, NotFound
  <2> QED
    BY <2>1, <2>2
<1>3. SUFFICES ASSUME IsWritten(code) PROVE Follows'
  BY <1>2 DEF Following
<1>4. Follows
  BY <1>1, <1>3 DEF Following
<1>5. CASE UNCHANGED vars
  BY <1>4, <1>5 DEF vars, Follows, Spans, InListing, ReadWhole, IsSpan, Covers
<1>6. CASE \E o \in Offsets : Lookup(o)
  BY <1>2, <1>3, <1>4, <1>6, LookupFollows
<1>7. CASE Build
  BY <1>2, <1>3, <1>4, <1>7, ReadSpanFollows, EndBuildFollows, BuildThrowsFollows DEF Build
<1>8. CASE Search
  BY <1>2, <1>3, <1>4, <1>8, SearchFollows
<1> QED
  BY <1>1, <1>5, <1>6, <1>7, <1>8 DEF Next

LEMMA FollowingAlways == Spec => []Following
BY FollowingInit, FollowingNext, PTL DEF Spec

\* A hit answers with the location of the instruction at the offset.
LEMMA HitIs ==
  ASSUME Following, IsWritten(code), pc = "idle", ret = "hit"
  PROVE  \E k \in Covering(code.locs, off) : Answers(code.locs[k])
<1> DEFINE i == Mid + 1
           e == code.pieces[i]
           l == code.locs[e.of]
<1>1. i \in 1..Len(cache) /\ cache[i].start <= off /\ off < cache[i].end
  BY DEF Following, IInv, LookupExact, Holding
<1>2. Written(code) /\ Len(code.pieces) \in Nat /\ Len(cache) \in Nat /\ off \in Int
  <2>1. code \in Codes /\ off \in Int
    BY DEF Following, IInv, TypeOK
  <2>2. Written(code)
    BY <2>1, ListingsAssumption
  <2>3. Len(cache) \in Nat
    BY DEF Following, IInv, Filling
  <2> QED
    BY <2>1, <2>2, <2>3 DEF Written
<1>3. i \in 1..Len(code.pieces) /\ IsSpan(code, i, cache[i])
  BY <1>1, <1>2 DEF Following, Follows, Spans
<1>4. /\ e \in Piece /\ e.of \in 1..Len(code.locs) /\ l \in Location
      /\ l.from <= e.from /\ e.from + e.units <= Ends(l) /\ UnitsOf(code, i) = e.from + e.units
  BY <1>2, <1>3, PieceIs
<1>5. cache[i].start = 2 * e.from /\ cache[i].end = 2 * (e.from + e.units) /\ Covers(cache[i], l)
  BY <1>3, <1>4 DEF IsSpan
<1> HIDE DEF e, l
<1>6. e.from \in Nat /\ e.units \in Nat /\ l.from \in Nat /\ Ends(l) \in Nat
  BY <1>4, PieceNumbers, LocationNumbers
<1>7. 2 * l.from <= off /\ off < 2 * Ends(l)
  <2>1. 2 * e.from <= off /\ off < 2 * (e.from + e.units)
    BY <1>1, <1>5
  <2> DEFINE x == l.from
             y == Ends(l)
             z == e.from
             w == e.units
  <2>2. x \in Nat /\ y \in Nat /\ z \in Nat /\ w \in Nat /\ off \in Int
        /\ x <= z /\ z + w <= y /\ 2 * z <= off /\ off < 2 * (z + w)
    BY <1>2, <1>4, <1>6, <2>1
  <2> HIDE DEF x, y, z, w
  <2>3. 2 * x <= off /\ off < 2 * y
    BY <2>2
  <2> QED
    BY <2>3 DEF x, y
<1>8. e.of \in Covering(code.locs, off)
  BY <1>4, <1>7 DEF Covering, l
<1>9. Answers(l)
  BY <1>5 DEF Answers, Covers, lineForOffset, colForOffset, elineForOffset, ecolForOffset, Probe
<1> QED
  BY <1>8, <1>9 DEF l

\* The pieces leave no gap: an instruction's offset is in one of them.
LEMMA PieceAt ==
  ASSUME NEW c, Written(c), NEW o \in Int, NEW k \in Covering(c.locs, o)
  PROVE  \E i \in 1..Len(c.pieces) : 2 * c.pieces[i].from <= o /\ o < 2 * UnitsOf(c, i)
<1> DEFINE n == Len(c.pieces)
           U(j) == UnitsOf(c, j)
           Later == {j \in 0..n : o < 2 * U(j)}
<1>1. n \in Nat /\ n \in 0..n /\ Later \subseteq Nat
  BY DEF Written
<1>2. \A j \in 0..n : U(j) \in Nat
  BY EndsAreNumbers
<1>3. 0 <= o /\ o < 2 * U(n)
  <2>1. k \in 1..Len(c.locs) /\ 2 * c.locs[k].from <= o /\ o < 2 * Ends(c.locs[k])
    BY DEF Covering
  <2>2. c.locs[k] \in Location /\ Ends(c.locs[k]) <= U(n)
    BY <2>1 DEF Written
  <2>3. c.locs[k].from \in Nat /\ Ends(c.locs[k]) \in Nat
    BY <2>2 DEF Location, Ends
  <2>4. U(n) \in Nat
    BY <1>1, <1>2
  <2> HIDE DEF n, U
  <2> QED
    BY <2>1, <2>2, <2>3, <2>4
<1>4. n \in Later
  BY <1>1, <1>3
<1>5. PICK i \in Later : \A j \in Later : i <= j
  BY <1>1, <1>4, LeastExists
<1>6. i \in 0..n /\ o < 2 * U(i)
  OBVIOUS
<1>7. U(0) = 0
  BY DEF UnitsOf
<1>8. i # 0
  BY <1>3, <1>6, <1>7
<1>9. i \in 1..n /\ i - 1 \in 0..n /\ ~(i <= i - 1)
  BY <1>1, <1>6, <1>8
<1>10. i - 1 \notin Later
  BY <1>5, <1>9
<1>11. 2 * U(i - 1) <= o
  <2>1. U(i - 1) \in Nat /\ ~(o < 2 * U(i - 1))
    BY <1>2, <1>9, <1>10
  <2> HIDE DEF U
  <2> QED
    BY <2>1
<1>12. c.pieces[i].from = U(i - 1)
  BY <1>9, PieceIs
<1> QED
  BY <1>6, <1>9, <1>11, <1>12

\* A miss on a whole table: no instruction is at the offset.
LEMMA MissIs ==
  ASSUME Following, code.whole, IsWritten(code), pc = "idle", ret = "miss"
  PROVE  Covering(code.locs, off) = {}
<1>1. SUFFICES ASSUME NEW k \in Covering(code.locs, off) PROVE FALSE
  OBVIOUS
<1>2. Written(code) /\ off \in Int
  <2>1. code \in Codes /\ off \in Int
    BY DEF Following, IInv, TypeOK
  <2> QED
    BY <2>1, ListingsAssumption
<1>3. PICK i \in 1..Len(code.pieces) :
        2 * code.pieces[i].from <= off /\ off < 2 * UnitsOf(code, i)
  BY <1>1, <1>2, PieceAt
<1>4. Len(cache) = Len(code.pieces)
  BY DEF Following, Follows, ReadWhole
<1>5. IsSpan(code, i, cache[i])
  BY <1>3, <1>4 DEF Following, Follows, Spans
<1>6. i \in Holding(cache, off)
  BY <1>3, <1>4, <1>5 DEF Holding, IsSpan
<1> QED
  BY <1>6 DEF Following, IInv, LookupExact

----------------------------------------------------------------------------
(* Results                                                                   *)

(* For every table, however malformed, the variables keep their types: a     *)
(* lookup never probes the cache with an index that is not a number.         *)
THEOREM TypeCorrect == Spec => []TypeOK
<1>1. IInv => TypeOK
  BY DEF IInv
<1>2. QED
  BY <1>1, Invariance, PTL

(* The comment of lineForOffset, "spans are non-overlapping and              *)
(* offset-ordered", is true of what buildLineCache stores for every table.   *)
THEOREM CacheIsOrdered == Spec => []SpansOrdered
<1>1. IInv => SpansOrdered
  BY DEF IInv
<1>2. QED
  BY <1>1, Invariance, PTL

(* The four lookups of pyc_code.cpp search right: for every table and offset *)
(* a hit is a span that holds the offset, and a miss means none does.        *)
THEOREM LookupIsExact == Spec => []LookupExact
<1>1. IInv => LookupExact
  BY DEF IInv
<1>2. QED
  BY <1>1, Invariance, PTL

(* A running search never excludes the span that holds the offset.           *)
THEOREM SearchIsSound == Spec => []SearchNarrows
<1>1. IInv => SearchNarrows
  BY DEF IInv
<1>2. QED
  BY <1>1, Invariance, PTL

(* buildLineCache undoes what the compiler wrote, for every program: on a     *)
(* whole table of any length, lines and columns of any size, the four lookups *)
(* answer with the location of the instruction at the offset, and with -1     *)
(* exactly where there is none; none throws.                                  *)
THEOREM LooksUpSource == Spec => []LookupMatchesSource
<1>1. Following => LookupMatchesSource
  <2>1. SUFFICES ASSUME Following, pc = "idle", code.whole, ret # "none"
                 PROVE  LET ks == Covering(code.locs, off)
                        IN IF ks = {} THEN ret = "miss"
                           ELSE ret = "hit" /\ \E k \in ks : Answers(code.locs[k])
    BY DEF LookupMatchesSource
  <2>2. IsWritten(code)
    BY <2>1 DEF IsWritten
  <2>3. ret \in {"hit", "miss"}
    BY <2>1, <2>2 DEF Following, IInv, TypeOK, Follows, ReadWhole
  <2>4. CASE ret = "hit"
    BY <2>1, <2>2, <2>4, HitIs
  <2>5. CASE ret = "miss"
    BY <2>1, <2>2, <2>5, MissIs
  <2> QED
    BY <2>3, <2>4, <2>5
<1> QED
  BY <1>1, FollowingAlways, PTL

(* A table cut short, at any byte, or with a stray byte behind it, never makes *)
(* a lookup answer with another instruction's location.                       *)
THEOREM CutTablesNeverLie == Spec => []CutTableNeverLies
<1>1. Following => CutTableNeverLies
  BY HitIs DEF CutTableNeverLies
<1> QED
  BY <1>1, FollowingAlways, PTL

----------------------------------------------------------------------------
(* Lookups come to an end.                                                   *)

\* What a lookup has left to do: bytes to read and, at most one for each byte,
\* spans to search; then the interval that is searched.
Left == CASE pc = "build"  -> 2 * Len(code.lnTable) - at + 2
          [] pc = "search" -> hi - lo + 2
          [] OTHER         -> 0

\* The cache has at most one span for each byte read, and the bounds of the
\* interval never pass each other by more than one.
Shrinking ==
  /\ pc = "build"  => at <= Len(code.lnTable) /\ Len(cache) <= at
  /\ pc = "search" => lo <= hi + 1

\* An entry that fits takes bytes that are there, and at least one.
LEMMA EntryEndsInside ==
  ASSUME NEW c \in Codes, NEW p \in Nat, NEW l, p + 1 \in 1..Len(c.lnTable),
         EntryFits(c.lnTable, p)
  PROVE  EntryAt(c.lnTable, p, l).next \in (p + 1)..Len(c.lnTable)
<1> DEFINE T == c.lnTable
<1>1. Len(T) \in Nat
  BY CodesAssumption
<1>2. ASSUME NEW k \in {1, 4}, HasVarints(T, p + 1, k)
      PROVE  AfterVarint(T, p + 1, k) \in (p + 1)..Len(T)
  <2>1. PICK q \in VarintStops(T, p + 1) : EndsVarint(T, p + 1, k, q)
    BY <1>2 DEF HasVarints
  <2> DEFINE r == CHOOSE x \in VarintStops(T, p + 1) : EndsVarint(T, p + 1, k, x)
  <2>2. r \in VarintStops(T, p + 1)
    BY <2>1
  <2>3. AfterVarint(T, p + 1, k) = 1 + r
    BY DEF AfterVarint
  <2> HIDE DEF r
  <2>4. r \in (p + 1)..(Len(T) - 1)
    BY <2>2 DEF VarintStops
  <2> QED
    BY <1>1, <2>3, <2>4
<1>3. CASE Form(T, p) = 14
  BY <1>2, <1>3 DEF EntryFits, EntryAt, LongEntry, Entry
<1>4. CASE Form(T, p) = 13
  BY <1>2, <1>4 DEF EntryFits, EntryAt, NoColumnEntry, Entry
<1>5. CASE Form(T, p) = 15
  BY <1>1, <1>5 DEF EntryAt, Entry
<1>6. CASE Form(T, p) \in 10..12
  <2>1. p + 3 <= Len(T)
    BY <1>6 DEF EntryFits
  <2>2. EntryAt(T, p, l).next = p + 1 + 2
    BY <1>6 DEF EntryAt, OneLineEntry, Entry
  <2> QED
    BY <1>1, <2>1, <2>2
<1>7. CASE Form(T, p) \notin 10..15
  <2>1. p + 2 <= Len(T)
    BY <1>7 DEF EntryFits
  <2>2. EntryAt(T, p, l).next = p + 1 + 1
    BY <1>7 DEF EntryAt, ShortEntry, Entry
  <2> QED
    BY <1>1, <2>1, <2>2
<1> QED
  BY <1>3, <1>4, <1>5, <1>6, <1>7

LEMMA LeftIs ==
  /\ pc = "build"  => Left = 2 * Len(code.lnTable) - at + 2
  /\ pc = "search" => Left = hi - lo + 2
  /\ pc = "idle"   => Left = 0
BY DEF Left

LEMMA LeftThen ==
  /\ pc' = "build"  => Left' = 2 * Len(code'.lnTable) - at' + 2
  /\ pc' = "search" => Left' = hi' - lo' + 2
  /\ pc' = "idle"   => Left' = 0
BY DEF Left

LEMMA Bounded ==
  ASSUME IInv, Shrinking
  PROVE  /\ code \in Codes /\ Len(code.lnTable) \in Nat /\ Len(cache) \in Nat
         /\ at \in Nat /\ lo \in Nat /\ hi \in Int /\ pc \in {"idle", "build", "search"}
         /\ Left \in Nat
<1>1. /\ code \in Codes /\ Len(code.lnTable) \in Nat /\ Len(cache) \in Nat
      /\ at \in Nat /\ lo \in Nat /\ hi \in Int /\ pc \in {"idle", "build", "search"}
  BY CodesAssumption DEF IInv, TypeOK, Filling
<1> QED
  BY <1>1, LeftIs DEF Shrinking

LEMMA BuildShrinks ==
  ASSUME IInv, Shrinking, Build
  PROVE  Shrinking' /\ Left' < Left
<1>1. /\ code \in Codes /\ Len(code.lnTable) \in Nat /\ Len(cache) \in Nat /\ at \in Nat
      /\ code' = code /\ pc = "build" /\ at <= Len(code.lnTable) /\ Len(cache) <= at
  BY Bounded DEF Shrinking, Build, ReadSpan, EndBuild, BuildThrows
<1>2. CASE ReadSpan
  <2>1. at' \in (at + 1)..Len(code.lnTable)
    BY <1>1, <1>2, EntryEndsInside DEF ReadSpan, HasEntry
  <2>2. Len(cache') = Len(cache) + 1 /\ pc' = "build"
    <3>1. pc' = "build" /\ \E e : cache' = Append(cache, e)
      BY <1>2 DEF ReadSpan
    <3>2. PICK S : cache \in Seq(S)
      BY DEF IInv, Filling
    <3> QED
      BY <3>1, <3>2, AppendSpan
  <2> QED
    BY <1>1, <2>1, <2>2, LeftIs, LeftThen DEF Shrinking
<1>3. CASE EndBuild
  <2>1. pc' = "search" /\ lo' = 0 /\ hi' = Len(cache) - 1
    BY <1>3 DEF EndBuild, StartSearch
  <2> QED
    BY <1>1, <2>1, LeftIs, LeftThen DEF Shrinking
<1>4. CASE BuildThrows
  <2>1. pc' = "idle"
    BY <1>4 DEF BuildThrows
  <2> QED
    BY <1>1, <2>1, LeftIs, LeftThen DEF Shrinking
<1> QED
  BY <1>2, <1>3, <1>4 DEF Build

LEMMA SearchShrinks ==
  ASSUME IInv, Shrinking, Search
  PROVE  Shrinking' /\ Left' < Left
<1>1. pc = "search" /\ lo \in Nat /\ hi \in Int /\ lo <= hi + 1
  BY Bounded DEF Shrinking, Search, SearchLeft, SearchRight, Found, NotFound
<1>2. CASE SearchLeft
  <2>1. lo <= hi /\ pc' = "search" /\ lo' = lo /\ hi' = Mid - 1
    BY <1>1, <1>2 DEF SearchLeft
  <2>2. Mid \in lo..hi
    BY <1>1, <2>1, ProbeInCache
  <2> QED
    BY <1>1, <2>1, <2>2, LeftIs, LeftThen DEF Shrinking
<1>3. CASE SearchRight
  <2>1. lo <= hi /\ pc' = "search" /\ hi' = hi /\ lo' = Mid + 1
    BY <1>1, <1>3 DEF SearchRight
  <2>2. Mid \in lo..hi
    BY <1>1, <2>1, ProbeInCache
  <2> QED
    BY <1>1, <2>1, <2>2, LeftIs, LeftThen DEF Shrinking
<1>4. CASE Found \/ NotFound
  <2>1. pc' = "idle"
    BY <1>4 DEF Found, NotFound
  <2> QED
    BY <1>1, <2>1, LeftIs, LeftThen, Bounded DEF Shrinking
<1> QED
  BY <1>2, <1>3, <1>4 DEF Search

\* Each iteration of buildLineCache and of the search leaves less to do, so that
\* a lookup has at most two for each byte of the table, and two more: buildLineCache
\* never reads on without moving, also where an entry is cut, and an interval of
\* one or two spans gets shorter too.
THEOREM EveryStepAdvances ==
  Spec => [](Left \in Nat) /\ [][pc # "idle" => Left' < Left]_vars
<1>1. Init => Shrinking
  BY DEF Init, Shrinking
<1>2. IInv /\ Shrinking => Left \in Nat
  BY Bounded
<1>3. IInv /\ Shrinking /\ [Next]_vars => Shrinking' /\ [pc # "idle" => Left' < Left]_vars
  <2> SUFFICES ASSUME IInv, Shrinking, [Next]_vars
               PROVE  Shrinking' /\ [pc # "idle" => Left' < Left]_vars
    OBVIOUS
  <2>1. CASE \E o \in Offsets : Lookup(o)
    <3>1. PICK o \in Offsets : Lookup(o)
      BY <2>1
    <3>2. pc = "idle" /\ code' = code /\ cache' = cache
      BY <3>1 DEF Lookup
    <3>3. Len(cache) \in Nat /\ Len(code.lnTable) \in Nat /\ (~built => Len(cache) = 0)
      BY Bounded DEF IInv, Filling
    <3>4. CASE built
      <4>1. pc' = "search" /\ lo' = 0 /\ hi' = Len(cache) - 1
        BY <3>1, <3>4 DEF Lookup, StartSearch
      <4> QED
        BY <3>2, <3>3, <4>1 DEF Shrinking
    <3>5. CASE ~built
      <4>1. pc' = "build" /\ at' = 0
        BY <3>1, <3>5 DEF Lookup
      <4> QED
        BY <3>2, <3>3, <3>5, <4>1 DEF Shrinking
    <3> QED
      BY <3>4, <3>5
  <2>2. CASE Build
    BY <2>2, BuildShrinks
  <2>3. CASE Search
    BY <2>3, SearchShrinks
  <2>4. CASE UNCHANGED vars
    BY <2>4 DEF vars, Shrinking
  <2> QED
    BY <2>1, <2>2, <2>3, <2>4 DEF Next
<1> QED
  BY <1>1, <1>2, <1>3, Invariance, PTL DEF Spec
=============================================================================
