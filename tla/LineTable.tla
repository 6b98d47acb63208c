----------------------------- MODULE LineTable -----------------------------
(***************************************************************************)
(* The location table of a 3.11 code object (pyc_code.cpp): the lazily     *)
(* built span cache (buildLineCache) and the four binary searches over it  *)
(* (lineForOffset, colForOffset, elineForOffset, ecolForOffset).           *)
(*                                                                         *)
(* The table is a byte string.  One action is one iteration of a loop of   *)
(* the code; an exception of PycBuffer::getByte leaves the cache marked as *)
(* built with the spans read so far, and later lookups search those.       *)
(***************************************************************************)
EXTENDS Integers, Sequences, FiniteSets

CONSTANTS
  Codes,     \* code objects: records with at least lnTable and firstLine
  Offsets    \* the byte offsets callers ask for

Byte == 0..255

Continues(b) == (b \div 64) % 2 = 1      \* read & 0x40

ASSUME CodesAssumption ==
  \A c \in Codes : c.lnTable \in Seq(Byte) /\ c.firstLine \in Int

ASSUME OffsetsAssumption == Offsets \subseteq Int

VARIABLES
  code,      \* the code object asked about
  built,     \* m_lineCacheBuilt
  cache,     \* m_lineCache
  at,        \* data.pos(), in buildLineCache
  cu,        \* code units read so far
  line,      \* running line number
  pc,        \* "idle" | "build" | "search"
  off,       \* argument of the lookup
  lo, hi,    \* bounds of the binary search
  ret        \* how the last lookup ended: "none" (not yet), "hit", "miss", "threw"

vars == <<code, built, cache, at, cu, line, pc, off, lo, hi, ret>>

----------------------------------------------------------------------------
(* Reading the table T from position p (0-based).                            *)

\* The last bytes of the varints that follow one another from p on.
VarintStops(T, p) == {q \in p..(Len(T) - 1) : ~Continues(T[q + 1])}

EndsVarint(T, p, n, q) == Cardinality({r \in VarintStops(T, p) : r <= q}) = n

HasVarints(T, p, n) == \E q \in VarintStops(T, p) : EndsVarint(T, p, n, q)

\* Position after the n-th varint from p.
AfterVarint(T, p, n) ==
  IF n = 0 THEN p
           ELSE 1 + CHOOSE q \in VarintStops(T, p) : EndsVarint(T, p, n, q)

\* Value of the n-th varint from p: groups of six bits, the lowest first.  An
\* unsigned int of the code holds five whole groups; what a longer varint
\* shifts past its width is dropped here.
Varint(T, p, n) ==
  LET from == AfterVarint(T, p, n - 1)
      to   == AfterVarint(T, p, n)
      Group(i) == IF from + i < to THEN T[from + i + 1] % 64 ELSE 0
  IN Group(0) + 64 * Group(1) + 4096 * Group(2) + 262144 * Group(3)
     + 16777216 * Group(4)

\* Mutant: the sign bit is dropped.
Signed_Unsigned(u) == u \div 2

Signed(u) == IF u % 2 = 1 THEN -(u \div 2) ELSE u \div 2

Loc(l, e, s, t) == [line |-> l, eline |-> e, scol |-> s, ecol |-> t]

Entry(next, loc) == [next |-> next, loc |-> loc]

LongEntry(T, p, l) ==
  LET l1 == l + Signed(Varint(T, p, 1))
      l2 == l1 + Varint(T, p, 2)
  IN Entry(AfterVarint(T, p, 4),
           Loc(l1, IF l2 < 0 THEN l1 ELSE l2, Varint(T, p, 3) - 1, Varint(T, p, 4) - 1))

\* Mutant: the line delta is skipped.
NoColumnEntry_NoDelta(T, p, l) ==
  Entry(AfterVarint(T, p, 1), Loc(l, l, -1, -1))

NoColumnEntry(T, p, l) ==
  LET l1 == l + Signed(Varint(T, p, 1))
  IN Entry(AfterVarint(T, p, 1), Loc(l1, l1, -1, -1))

OneLineEntry(T, p, l) ==
  Entry(p + 2, Loc(l, l, T[p + 1], T[p + 2]))

ShortEntry(T, p, l, group) ==
  LET b == T[p + 1]
      s == group * 8 + ((b \div 16) % 8)
  IN Entry(p + 1, Loc(l, l, s, s + (b % 16)))

Form(T, p)    == (T[p + 1] \div 8) % 16
\* Mutant: the length field counts from zero.
UnitsAt_NoPlusOne(T, p) == T[p + 1] % 8
UnitsAt(T, p) == (T[p + 1] % 8) + 1

\* The table holds every byte the entry at p is made of.
EntryFits(T, p) ==
  LET form == Form(T, p)
  IN CASE form = 15       -> TRUE
       [] form = 14       -> HasVarints(T, p + 1, 4)
       [] form = 13       -> HasVarints(T, p + 1, 1)
       [] form \in 10..12 -> p + 3 <= Len(T)
       [] OTHER           -> p + 2 <= Len(T)

\* The entry whose first byte is at p, l being the line of the one before.
EntryAt(T, p, l) ==
  LET form == Form(T, p)
  IN CASE form = 15       -> Entry(p + 1, Loc(-1, -1, -1, -1))
       [] form = 14       -> LongEntry(T, p + 1, l)
       [] form = 13       -> NoColumnEntry(T, p + 1, l)
       [] form \in 10..12 -> OneLineEntry(T, p + 1, l + form - 10)
       [] OTHER           -> ShortEntry(T, p + 1, l, form)

----------------------------------------------------------------------------
Init ==
  /\ code \in Codes
  /\ built = FALSE
  /\ cache = <<>>
  /\ at = 0 /\ cu = 0 /\ line = 0
  /\ pc = "idle"
  /\ off = 0 /\ lo = 0 /\ hi = -1
  /\ ret = "none"

\* Mutants: the interval is too long, too short.
StartSearch_Low(c) ==
  /\ pc' = "search"
  /\ lo' = -1
  /\ hi' = Len(c) - 1
StartSearch_Short(c) ==
  /\ pc' = "search"
  /\ lo' = 0
  /\ hi' = Len(c) - 2

\* The search of an interval covering the whole cache c.
StartSearch(c) ==
  /\ pc' = "search"
  /\ lo' = 0
  /\ hi' = Len(c) - 1

\* A caller asks for the location of offset o.
Lookup(o) ==
  /\ pc = "idle"
  /\ off' = o
  /\ ret' = "none"
  /\ IF built
       THEN /\ StartSearch(cache)
            /\ UNCHANGED <<built, at, cu, line>>
       ELSE /\ built' = TRUE
            /\ pc' = "build"
            /\ at' = 0 /\ cu' = 0 /\ line' = code.firstLine
            /\ UNCHANGED <<lo, hi>>
  /\ UNCHANGED <<code, cache>>

HasEntry == at + 1 \in 1..Len(code.lnTable) /\ code.lnTable[at + 1] >= 128

\* One iteration of buildLineCache's loop.
ReadSpan ==
  /\ pc = "build" /\ HasEntry /\ EntryFits(code.lnTable, at)
  /\ LET e == EntryAt(code.lnTable, at, line)
         n == UnitsAt(code.lnTable, at)
     IN /\ cache' = Append(cache, [start |-> cu * 2, end |-> (cu + n) * 2, loc |-> e.loc])
        /\ cu' = cu + n
        /\ at' = e.next
        /\ line' = IF Form(code.lnTable, at) = 15 THEN line ELSE e.loc.line
  /\ UNCHANGED <<code, built, pc, off, lo, hi, ret>>

\* End of the table, or a byte that starts no entry.
EndBuild ==
  /\ pc = "build" /\ ~HasEntry
  /\ StartSearch(cache)
  /\ UNCHANGED <<code, built, cache, at, cu, line, off, ret>>

\* getByte throws in the middle of an entry: the span is not stored, the cache
\* stays marked as built.
BuildThrows ==
  /\ pc = "build" /\ HasEntry
  /\ ~EntryFits(code.lnTable, at)
  /\ pc' = "idle"
  /\ ret' = "threw"
  /\ UNCHANGED <<code, built, cache, at, cu, line, off, lo, hi>>

Mid == (lo + hi) \div 2
Probe == cache[Mid + 1]

SearchLeft ==
  /\ pc = "search" /\ lo <= hi
  /\ off < Probe.start
  /\ hi' = Mid - 1
  /\ UNCHANGED <<code, built, cache, at, cu, line, pc, off, lo, ret>>

\* Mutant: the probed span stays in the interval.
SearchRight_KeepMid ==
  /\ pc = "search" /\ lo <= hi
  /\ off >= Probe.end
  /\ lo' = Mid
  /\ UNCHANGED <<code, built, cache, at, cu, line, pc, off, hi, ret>>

SearchRight ==
  /\ pc = "search" /\ lo <= hi
  /\ off >= Probe.end
  /\ lo' = Mid + 1
  /\ UNCHANGED <<code, built, cache, at, cu, line, pc, off, hi, ret>>

Found ==
  /\ pc = "search" /\ lo <= hi
  /\ off >= Probe.start /\ off < Probe.end
  /\ pc' = "idle"
  /\ ret' = "hit"
  /\ UNCHANGED <<code, built, cache, at, cu, line, off, lo, hi>>

\* Mutant: the loop ends while one span is left.
NotFound_Early ==
  /\ pc = "search" /\ lo >= hi
  /\ pc' = "idle"
  /\ ret' = "miss"
  /\ UNCHANGED <<code, built, cache, at, cu, line, off, lo, hi>>

NotFound ==
  /\ pc = "search" /\ lo > hi
  /\ pc' = "idle"
  /\ ret' = "miss"
  /\ UNCHANGED <<code, built, cache, at, cu, line, off, lo, hi>>

\* What each of the four functions returns once the search ended: its part of
\* the span it stopped at, or -1.
lineForOffset  == IF ret = "hit" THEN Probe.loc.line  ELSE -1
colForOffset   == IF ret = "hit" THEN Probe.loc.scol  ELSE -1
elineForOffset == IF ret = "hit" THEN Probe.loc.eline ELSE -1
ecolForOffset  == IF ret = "hit" THEN Probe.loc.ecol  ELSE -1

Build  == ReadSpan \/ EndBuild \/ BuildThrows
Search == SearchLeft \/ SearchRight \/ Found \/ NotFound

Next == (\E o \in Offsets : Lookup(o)) \/ Build \/ Search

Spec == Init /\ [][Next]_vars

\* A lookup is a plain call: once entered it runs on.
FairSpec == Spec /\ WF_vars(Build \/ Search)

----------------------------------------------------------------------------
\* What a cache holds for an offset: the spans that contain it.
Holding(c, o) == {i \in 1..Len(c) : c[i].start <= o /\ o < c[i].end}

(* The state of PycCode's line cache and of a search in it keeps its types:   *)
(* the bounds of buildLineCache and lineForOffset never leave the integers   *)
(* the code reads them as, lo never falls below 0.                           *)
TypeOK ==
  /\ code \in Codes
  /\ built \in BOOLEAN
  /\ pc \in {"idle", "build", "search"}
  /\ cu \in Nat /\ at \in Nat
  /\ ret \in {"none", "hit", "miss", "threw"}
  /\ off \in Int /\ lo \in Nat /\ hi \in Int
  /\ \A i \in 1..Len(cache) : cache[i].start \in Nat /\ cache[i].end \in Nat

(* "spans are non-overlapping and offset-ordered" (lineForOffset): whatever  *)
(* the table's bytes, and wherever reading it stopped, the spans follow one  *)
(* another without overlap and none is empty.                                *)
SpansOrdered ==
  /\ \A i \in 1..Len(cache) : cache[i].start < cache[i].end
  /\ \A i, j \in 1..Len(cache) : i < j => cache[i].end <= cache[j].start

(* While it runs, the search has excluded no span that holds the offset:     *)
(* everything below lo ends before it, everything above hi starts after it.  *)
SearchNarrows ==
  pc = "search" =>
    /\ hi < Len(cache)
    /\ \A i \in 1..Len(cache) :
         /\ i <= lo     => cache[i].end <= off
         /\ i > hi + 1  => off < cache[i].start

(* A lookup that returns a span returns the one that holds the offset; one   *)
(* that returns -1 leaves no span of the cache holding it.                   *)
LookupExact ==
  /\ pc = "idle" /\ ret = "hit"  => Mid + 1 \in Holding(cache, off)
  /\ pc = "idle" /\ ret = "miss" => Holding(cache, off) = {}

(* Every lookup returns or throws.                                           *)
LookupReturns == pc # "idle" ~> pc = "idle"
=============================================================================
