----------------------- MODULE ExceptionTable_proofs -----------------------
(***************************************************************************)
(* For any table and any code: the prepared entries stay in order, and     *)
(* merging moves no instruction from one handler to another.  Of a table   *)
(* that comes with its listing, the entries listed are read; in compiled   *)
(* code each empty body before an empty handler is found.                  *)
(***************************************************************************)
EXTENDS TableListing, SequenceTheorems, FiniteSetTheorems, TLAPS

\* What holds while the table is read and after.
Prepared == code \in Codes /\ TypeOK /\ InOrder /\ CoverageKept

----------------------------------------------------------------------------
(* Reading                                                                   *)

LEMMA CurrentByte ==
  ASSUME code \in Codes, TypeOK, ~atEof
  PROVE  /\ Current \in Byte
         /\ at + 1 \in 0..Len(code.table)
<1>1. code.table \in Seq(Byte) /\ Len(code.table) \in Nat
  BY CodesAssumption, LenProperties
<1>2. at + 1 \in 1..Len(code.table)
  BY <1>1 DEF TypeOK, atEof
<1> QED
  BY <1>1, <1>2, ElementOfSeq DEF Current

LEMMA BitsNat ==
  ASSUME number \in Nat, NEW byte \in Byte
  PROVE  Bits(byte) \in Nat
<1>1. byte % 64 \in Nat
  BY DEF Byte
<1>2. number * 64 \in Nat
  OBVIOUS
<1> QED
  BY <1>1, <1>2 DEF Bits

LEMMA EntryTyped ==
  ASSUME NEW n \in Seq(Nat), Len(n) = 4
  PROVE  Entry(n) \in Entries
<1>1. 1 \in 1..Len(n) /\ 2 \in 1..Len(n) /\ 3 \in 1..Len(n) /\ 4 \in 1..Len(n)
  OBVIOUS
<1>2. n[1] \in Nat /\ n[2] \in Nat /\ n[3] \in Nat /\ n[4] \in Nat
  BY <1>1, ElementOfSeq
<1>3. 2 * n[1] \in Nat /\ 2 * n[2] \in Nat /\ 2 * n[3] \in Nat
  BY <1>2
<1>4. 2 * n[1] + 2 * n[2] \in Nat
  BY <1>3
<1>5. n[4] \div 2 \in Nat
  BY <1>2
<1> QED
  BY <1>3, <1>4, <1>5 DEF Entry, Entries

----------------------------------------------------------------------------
(* Merging, inserting and erasing                                            *)

LEMMA Lengths ==
  ASSUME NEW es \in Seq(Entries)
  PROVE  /\ Len(es) \in Nat
         /\ DOMAIN es = 1..Len(es)
         /\ \A j \in 1..Len(es) : es[j] \in Entries
BY LenProperties, ElementOfSeq

\* A sequence of so many entries.
LEMMA SeqOfEntries ==
  ASSUME NEW n \in Nat, NEW f \in [1..n -> Entries]
  PROVE  f \in Seq(Entries) /\ Len(f) = n /\ DOMAIN f = 1..n
BY IsASeq

LEMMA MergedTyped ==
  ASSUME entries \in Seq(Entries), NEW i \in 1..(Len(entries) - 1)
  PROVE  /\ Merged(i) \in [1..(Len(entries) - 1) -> Entries]
         /\ Len(entries) - 1 \in Nat
         /\ i + 1 \in 1..Len(entries)
         /\ i \in 1..Len(entries)
<1>1. Len(entries) \in Nat
  BY Lengths
<1>2. Len(entries) - 1 \in Nat /\ i + 1 \in 1..Len(entries) /\ i \in 1..Len(entries)
  BY <1>1
<1>3. Joined(entries[i], entries[i + 1]) \in Entries
  <2>1. entries[i] \in Entries /\ entries[i + 1] \in Entries
    BY <1>2, Lengths
  <2> QED
    BY <2>1 DEF Joined, Larger, Entries
<1>4. \A k \in 1..(Len(entries) - 1) : k \in 1..Len(entries) /\ k + 1 \in 1..Len(entries)
  BY <1>1
<1>5. \A k \in 1..(Len(entries) - 1) :
        (CASE k < i -> entries[k]
           [] k = i -> Joined(entries[i], entries[i + 1])
           [] k > i -> entries[k + 1]) \in Entries
  BY <1>1, <1>3, <1>4, Lengths
<1> QED
  BY <1>2, <1>5 DEF Merged

LEMMA MergedAt ==
  ASSUME NEW i \in Nat, NEW k \in 1..(Len(entries) - 1)
  PROVE  /\ k < i => Merged(i)[k] = entries[k]
         /\ k = i => Merged(i)[k] = Joined(entries[i], entries[i + 1])
         /\ k > i => Merged(i)[k] = entries[k + 1]
BY DEF Merged

\* Two ranges that are apart, and one with a third behind it put on.
LEMMA MergedApart ==
  ASSUME entries \in Seq(Entries), Apart(entries), NEW i \in 1..(Len(entries) - 1)
  PROVE  Apart(Merged(i))
<1> DEFINE n == Len(entries) - 1
           M == Merged(i)
<1>1. /\ n \in Nat
      /\ i + 1 \in 1..Len(entries)
      /\ M \in [1..n -> Entries]
      /\ Len(entries) \in Nat
      /\ DOMAIN entries = 1..Len(entries)
  BY MergedTyped, Lengths
<1>2. \A k \in 1..Len(entries) : entries[k].start \in Nat /\ entries[k].end \in Nat
  BY Lengths DEF Entries
<1>3. \A k \in 1..n : /\ k < i => M[k] = entries[k]
                      /\ k = i => M[k] = Joined(entries[i], entries[i + 1])
                      /\ k > i => M[k] = entries[k + 1]
  BY <1>1, MergedAt
<1>4. entries[i].start <= entries[i].end /\ entries[i].end <= entries[i + 1].start
  BY <1>1 DEF Apart
<1>5. /\ M[i].start = entries[i].start
      /\ M[i].end \in {entries[i].end, entries[i + 1].end}
      /\ M[i].end >= entries[i].end
  <2>1. M[i] = Joined(entries[i], entries[i + 1])
    BY <1>1, <1>3
  <2>2. entries[i] \in Entries
    BY <1>1, Lengths
  <2>3. /\ M[i].start = entries[i].start
        /\ M[i].end = Larger(entries[i].end, entries[i + 1].end)
    BY <2>1, <2>2 DEF Joined, Entries
  <2>4. entries[i].end \in Nat /\ entries[i + 1].end \in Nat
    BY <1>1, <1>2
  <2> QED
    BY <2>3, <2>4 DEF Larger
<1>6. SUFFICES ASSUME NEW k \in 1..n, NEW l \in 1..n, k < l
               PROVE  M[k].start <= M[k].end /\ M[k].end <= M[l].start
  BY <1>1 DEF Apart
<1>7. CASE k < i /\ l <= i
  <2>1. M[k] = entries[k] /\ M[l].start = entries[l].start
    BY <1>1, <1>3, <1>5, <1>7
  <2>2. k \in 1..Len(entries) /\ l \in 1..Len(entries)
    BY <1>1
  <2> QED
    BY <1>1, <1>6, <2>1, <2>2 DEF Apart
<1>8. CASE k < i /\ l > i
  <2>1. M[k] = entries[k] /\ M[l] = entries[l + 1]
    BY <1>3, <1>8
  <2>2. k \in 1..Len(entries) /\ l + 1 \in 1..Len(entries) /\ k < l + 1
    BY <1>1, <1>6
  <2> QED
    BY <1>1, <2>1, <2>2 DEF Apart
<1>9. CASE k = i
  <2>1. M[l] = entries[l + 1] /\ l + 1 \in 1..Len(entries) /\ i < l + 1 /\ i + 1 < l + 1
    BY <1>1, <1>3, <1>6, <1>9
  <2>2. /\ entries[i].end <= entries[l + 1].start
        /\ entries[i + 1].end <= entries[l + 1].start
    <3>1. i \in DOMAIN entries /\ i + 1 \in DOMAIN entries /\ l + 1 \in DOMAIN entries
      BY <1>1, <2>1
    <3> QED
      BY <2>1, <3>1 DEF Apart
  <2> QED
    BY <1>1, <1>2, <1>4, <1>5, <1>9, <2>1, <2>2
<1>10. CASE k > i
  <2>1. M[k] = entries[k + 1] /\ M[l] = entries[l + 1]
    BY <1>1, <1>3, <1>6, <1>10
  <2>2. k + 1 \in 1..Len(entries) /\ l + 1 \in 1..Len(entries) /\ k + 1 < l + 1
    BY <1>1, <1>6
  <2> QED
    BY <1>1, <2>1, <2>2 DEF Apart
<1> QED
  BY <1>1, <1>7, <1>8, <1>9, <1>10

LEMMA ApartIsSorted ==
  ASSUME entries \in Seq(Entries), Apart(entries)
  PROVE  Sorted(entries)
<1>1. \A k \in DOMAIN entries : entries[k].start \in Nat /\ entries[k].end \in Nat
  BY Lengths DEF Entries
<1> QED
  BY <1>1 DEF Apart, Sorted

----------------------------------------------------------------------------
(* Handlers                                                                  *)

HandlerOf(e) == <<e.target, e.depth, e.lasti>>

Protects(e, k) == e.start <= Off(k) /\ Off(k) < e.end

LEMMA HandlersAre ==
  ASSUME NEW es, NEW k
  PROVE  Handlers(es, k) = {HandlerOf(es[j]) : j \in {i \in DOMAIN es : Protects(es[i], k)}}
BY DEF Handlers, HandlerOf, Protects

LEMMA OffNat ==
  ASSUME code \in Codes, NEW k \in DOMAIN code.words
  PROVE  Off(k) \in Nat
<1>1. code.words \in Seq(Word)
  BY CodesAssumption
<1>2. k \in 1..Len(code.words) /\ Len(code.words) \in Nat
  BY <1>1, LenProperties
<1> QED
  BY <1>2 DEF Off, SW

\* In the gap nothing protects.
LEMMA GapUnprotected ==
  ASSUME code \in Codes, entries \in Seq(Entries), Apart(entries),
         NEW i \in 1..(Len(entries) - 1), Mergeable(i) \/ ReadsBeyond(i),
         NEW k \in DOMAIN code.words,
         entries[i].end <= Off(k), Off(k) < entries[i + 1].start
  PROVE  Handlers(entries, k) = {} /\ code.words[k].op \in Inert
<1>1. code.words[k].op \in Inert
  <2>1. CASE Mergeable(i)
    BY <2>1 DEF Mergeable, gapIsReturnOnly, Gap
  <2>2. CASE ReadsBeyond(i)
    <3>1. k \in 1..Len(code.words) /\ Len(code.words) \in Nat
      BY CodesAssumption, LenProperties
    <3>2. Off(k) < Off(Len(code.words) + 1)
      BY <3>1 DEF Off, SW
    <3>3. Off(k) \in Nat /\ Off(Len(code.words) + 1) \in Nat
      BY <3>1 DEF Off, SW
    <3>4. entries[i].end > Off(Len(code.words) + 1)
      BY <2>2 DEF ReadsBeyond
    <3>5. i \in 1..Len(entries)
      BY Lengths
    <3>6. entries[i].end \in Nat
      BY <3>5, Lengths DEF Entries
    <3> QED
      BY <3>2, <3>3, <3>4, <3>6
  <2> QED
    BY <2>1, <2>2
<1>2. SUFFICES ASSUME NEW j \in DOMAIN entries, Protects(entries[j], k)
               PROVE  FALSE
  BY <1>1, HandlersAre
<1>3. Off(k) \in Nat /\ entries[j].start <= Off(k) /\ Off(k) < entries[j].end
  BY <1>2, OffNat DEF Protects
<1>4. /\ DOMAIN entries = 1..Len(entries)
      /\ Len(entries) \in Nat
      /\ \A m \in 1..Len(entries) : entries[m].start \in Nat /\ entries[m].end \in Nat
  BY Lengths DEF Entries
<1>5. i \in DOMAIN entries /\ i + 1 \in DOMAIN entries /\ i < i + 1
  BY <1>4
<1>6. entries[i].start <= entries[i].end
  BY <1>5 DEF Apart
<1>7. CASE j < i
  <2>1. entries[j].end <= entries[i].start
    BY <1>5, <1>7 DEF Apart
  <2> QED
    BY <1>3, <1>4, <1>5, <1>6, <2>1
<1>8. CASE j = i \/ j = i + 1
  BY <1>3, <1>4, <1>5, <1>8
<1>9. CASE j > i + 1
  <2>1. entries[i + 1].start <= entries[i + 1].end /\ entries[i + 1].end <= entries[j].start
    BY <1>4, <1>5, <1>9 DEF Apart
  <2> QED
    BY <1>3, <1>4, <1>5, <2>1
<1> QED
  BY <1>4, <1>7, <1>8, <1>9

\* Elsewhere the one range protects what the two did.
LEMMA JoinedProtects ==
  ASSUME code \in Codes, entries \in Seq(Entries), Apart(entries),
         NEW i \in 1..(Len(entries) - 1), Mergeable(i) \/ ReadsBeyond(i),
         NEW k \in DOMAIN code.words,
         ~(entries[i].end <= Off(k) /\ Off(k) < entries[i + 1].start)
  PROVE  /\ Protects(Joined(entries[i], entries[i + 1]), k)
               <=> Protects(entries[i], k) \/ Protects(entries[i + 1], k)
         /\ HandlerOf(Joined(entries[i], entries[i + 1])) = HandlerOf(entries[i])
         /\ HandlerOf(entries[i + 1]) = HandlerOf(entries[i])
<1> DEFINE a == entries[i]
           b == entries[i + 1]
<1>1. i \in DOMAIN entries /\ i + 1 \in DOMAIN entries /\ i < i + 1
  BY Lengths
<1>2. a \in Entries /\ b \in Entries
  BY <1>1, Lengths
<1>3. a.start <= a.end /\ a.end <= b.start
  BY <1>1 DEF Apart
<1>4. a.target = b.target /\ a.depth = b.depth /\ ~a.lasti /\ ~b.lasti
  BY DEF Mergeable, ReadsBeyond, Alike
<1>5. a.lasti = b.lasti
  BY <1>2, <1>4 DEF Entries
<1>6. /\ Joined(a, b).start = a.start
      /\ Joined(a, b).end = Larger(a.end, b.end)
      /\ Joined(a, b).target = a.target
      /\ Joined(a, b).depth = a.depth
      /\ Joined(a, b).lasti = a.lasti
  BY <1>2 DEF Joined, Entries
<1>7. a.start \in Nat /\ a.end \in Nat /\ b.start \in Nat /\ b.end \in Nat /\ Off(k) \in Nat
  BY <1>2, OffNat DEF Entries
<1>8. ~(a.end <= Off(k) /\ Off(k) < b.start)
  OBVIOUS
<1>9. HandlerOf(Joined(a, b)) = HandlerOf(a) /\ HandlerOf(b) = HandlerOf(a)
  BY <1>4, <1>5, <1>6 DEF HandlerOf
<1> HIDE DEF a, b
<1>10. Protects(Joined(a, b), k) <=> a.start <= Off(k) /\ (Off(k) < a.end \/ Off(k) < b.end)
  BY <1>6, <1>7 DEF Protects, Larger
<1>11. Protects(Joined(a, b), k) <=> Protects(a, k) \/ Protects(b, k)
  BY <1>3, <1>7, <1>8, <1>10 DEF Protects
<1> QED
  BY <1>9, <1>11 DEF a, b

LEMMA MergedHandlers ==
  ASSUME code \in Codes, entries \in Seq(Entries), Apart(entries),
         NEW i \in 1..(Len(entries) - 1), Mergeable(i) \/ ReadsBeyond(i),
         NEW k \in DOMAIN code.words
  PROVE  \/ Handlers(Merged(i), k) = Handlers(entries, k)
         \/ Handlers(entries, k) = {} /\ code.words[k].op \in Inert
<1> DEFINE n == Len(entries) - 1
           M == Merged(i)
<1>1. SUFFICES ASSUME ~(entries[i].end <= Off(k) /\ Off(k) < entries[i + 1].start)
               PROVE  Handlers(M, k) = Handlers(entries, k)
  BY GapUnprotected
<1>2. /\ n \in Nat
      /\ DOMAIN M = 1..n
      /\ DOMAIN entries = 1..(n + 1)
  BY MergedTyped, Lengths
<1>3. \A j \in 1..n : /\ j < i => M[j] = entries[j]
                      /\ j = i => M[j] = Joined(entries[i], entries[i + 1])
                      /\ j > i => M[j] = entries[j + 1]
  BY MergedAt
<1>4. /\ Protects(M[i], k) <=> Protects(entries[i], k) \/ Protects(entries[i + 1], k)
      /\ HandlerOf(M[i]) = HandlerOf(entries[i])
      /\ HandlerOf(entries[i + 1]) = HandlerOf(entries[i])
  BY <1>1, <1>3, JoinedProtects
<1> HIDE DEF M, n
<1>5. ASSUME NEW j \in DOMAIN M, Protects(M[j], k)
      PROVE  \E l \in DOMAIN entries : Protects(entries[l], k) /\ HandlerOf(entries[l]) = HandlerOf(M[j])
  <2>1. CASE j < i
    BY <1>2, <1>3, <1>5, <2>1
  <2>2. CASE j = i
    <3>1. i \in DOMAIN entries /\ i + 1 \in DOMAIN entries
      BY <1>2, <1>5, <2>2
    <3> QED
      BY <1>4, <1>5, <2>2, <3>1
  <2>3. CASE j > i
    <3>1. M[j] = entries[j + 1] /\ j + 1 \in DOMAIN entries
      BY <1>2, <1>3, <1>5, <2>3
    <3> QED
      BY <1>5, <3>1
  <2> QED
    BY <1>2, <2>1, <2>2, <2>3
<1>6. ASSUME NEW l \in DOMAIN entries, Protects(entries[l], k)
      PROVE  \E j \in DOMAIN M : Protects(M[j], k) /\ HandlerOf(M[j]) = HandlerOf(entries[l])
  <2>1. i \in 1..n
    BY DEF n
  <2>2. CASE l < i
    <3>1. l \in 1..n
      BY <1>2, <1>6, <2>1, <2>2
    <3> QED
      BY <1>2, <1>3, <1>6, <2>2, <3>1
  <2>3. CASE l = i \/ l = i + 1
    BY <1>2, <1>4, <1>6, <2>1, <2>3
  <2>4. CASE l > i + 1
    <3>1. l - 1 \in 1..n /\ l - 1 > i /\ (l - 1) + 1 = l
      BY <1>2, <1>6, <2>1, <2>4
    <3>2. M[l - 1] = entries[l]
      BY <1>3, <3>1
    <3> QED
      BY <1>2, <1>6, <3>1, <3>2
  <2> QED
    BY <1>2, <1>6, <2>1, <2>2, <2>3, <2>4
<1>7. Handlers(M, k) \subseteq Handlers(entries, k)
  BY <1>5, HandlersAre
<1>8. Handlers(entries, k) \subseteq Handlers(M, k)
  BY <1>6, HandlersAre
<1> QED
  BY <1>7, <1>8

----------------------------------------------------------------------------
(* Inserting and erasing                                                     *)

LEMMA InsertedTyped ==
  ASSUME entries \in Seq(Entries), NEW p \in 1..(Len(entries) + 1), NEW s \in Entries
  PROVE  /\ Inserted(p, s) \in Seq(Entries)
         /\ DOMAIN Inserted(p, s) = 1..(Len(entries) + 1)
<1>1. Len(entries) + 1 \in Nat
  BY Lengths
<1>2. \A k \in 1..(Len(entries) + 1) : /\ k < p => k \in 1..Len(entries)
                                       /\ k > p => k - 1 \in 1..Len(entries)
  BY <1>1
<1>3. \A k \in 1..(Len(entries) + 1) :
        (CASE k < p -> entries[k] [] k = p -> s [] k > p -> entries[k - 1]) \in Entries
  BY <1>1, <1>2, Lengths
<1>4. Inserted(p, s) \in [1..(Len(entries) + 1) -> Entries]
  BY <1>3 DEF Inserted
<1> QED
  BY <1>1, <1>4, SeqOfEntries

LEMMA InsertedSorted ==
  ASSUME entries \in Seq(Entries), Sorted(entries),
         NEW p \in 1..(Len(entries) + 1), NEW s \in Entries, IsPlace(p, s)
  PROVE  Sorted(Inserted(p, s))
<1> DEFINE n == Len(entries)
           I == Inserted(p, s)
<1>1. /\ n \in Nat
      /\ DOMAIN entries = 1..n
      /\ DOMAIN I = 1..(n + 1)
      /\ p \in 1..(n + 1)
  BY Lengths, InsertedTyped
<1>2. \A k \in 1..n : entries[k].start \in Nat /\ entries[k].end \in Nat
  BY Lengths DEF Entries
<1>3. s.start \in Nat /\ s.end \in Nat
  BY DEF Entries
<1>4. \A k \in 1..(n + 1) : /\ k < p => I[k] = entries[k]
                            /\ k = p => I[k] = s
                            /\ k > p => I[k] = entries[k - 1]
  BY DEF Inserted
<1>5. \A k, l \in 1..n : k < l => entries[k].start <= entries[l].start
  BY <1>1 DEF Sorted
<1>6. \A k \in 1..n : k < p => entries[k].start <= s.start
  <2>1. ASSUME NEW k \in 1..n, k < p
        PROVE  entries[k].start <= s.start
    <3>1. k \in 1..(p - 1)
      BY <1>1, <2>1
    <3>2. Before(entries[k], s)
      BY <3>1 DEF IsPlace
    <3> QED
      BY <1>2, <1>3, <3>2 DEF Before
  <2> QED
    BY <2>1
<1>7. \A k \in 1..n : k >= p => s.start <= entries[k].start
  <2>1. ASSUME NEW k \in 1..n, k >= p
        PROVE  s.start <= entries[k].start
    <3>1. p <= n /\ p \in 1..n
      BY <1>1, <2>1
    <3>2. ~Before(entries[p], s)
      BY <3>1 DEF IsPlace
    <3>3. s.start <= entries[p].start
      BY <1>2, <1>3, <3>1, <3>2 DEF Before
    <3> QED
      BY <1>1, <1>2, <1>3, <1>5, <2>1, <3>1, <3>3
  <2> QED
    BY <2>1
<1> HIDE DEF I, n
<1>8. SUFFICES ASSUME NEW k \in 1..(n + 1), NEW l \in 1..(n + 1), k < l
               PROVE  I[k].start <= I[l].start
  BY <1>1 DEF Sorted, I
<1>9. CASE l < p
  BY <1>1, <1>4, <1>5, <1>8, <1>9
<1>10. CASE l = p
  BY <1>1, <1>4, <1>6, <1>8, <1>10
<1>11. CASE k < p /\ p < l
  <2>1. I[k] = entries[k] /\ I[l] = entries[l - 1] /\ k \in 1..n /\ l - 1 \in 1..n /\ k < l - 1
    BY <1>1, <1>4, <1>8, <1>11
  <2> QED
    BY <1>5, <2>1
<1>12. CASE k = p
  <2>1. I[k] = s /\ I[l] = entries[l - 1] /\ l - 1 \in 1..n /\ l - 1 >= p
    BY <1>1, <1>4, <1>8, <1>12
  <2> QED
    BY <1>7, <2>1
<1>13. CASE k > p
  <2>1. /\ I[k] = entries[k - 1] /\ I[l] = entries[l - 1]
        /\ k - 1 \in 1..n /\ l - 1 \in 1..n /\ k - 1 < l - 1
    BY <1>1, <1>4, <1>8, <1>13
  <2> QED
    BY <1>5, <2>1
<1> QED
  BY <1>1, <1>8, <1>9, <1>10, <1>11, <1>12, <1>13

LEMMA RemovedKept ==
  ASSUME entries \in Seq(Entries), NEW i \in 1..Len(entries)
  PROVE  /\ Removed(i) \in Seq(Entries)
         /\ Sorted(entries) => Sorted(Removed(i))
<1> DEFINE n == Len(entries)
           R == Removed(i)
<1>1. n \in Nat /\ n - 1 \in Nat /\ DOMAIN entries = 1..n
  BY Lengths
<1>2. \A k \in 1..(n - 1) : k \in 1..n /\ k + 1 \in 1..n
  BY <1>1
<1>3. \A k \in 1..(n - 1) : /\ k < i => R[k] = entries[k]
                            /\ ~(k < i) => R[k] = entries[k + 1]
  BY DEF Removed
<1>4. \A k \in 1..(n - 1) : (IF k < i THEN entries[k] ELSE entries[k + 1]) \in Entries
  BY <1>2, Lengths
<1>5. R \in [1..(n - 1) -> Entries]
  BY <1>4 DEF Removed
<1>6. R \in Seq(Entries) /\ DOMAIN R = 1..(n - 1)
  BY <1>1, <1>5, SeqOfEntries
<1>7. ASSUME Sorted(entries)
      PROVE  Sorted(R)
  <2> HIDE DEF R, n
  <2>1. \A k, l \in 1..n : k < l => entries[k].start <= entries[l].start
    BY <1>1, <1>7 DEF Sorted
  <2>2. SUFFICES ASSUME NEW k \in 1..(n - 1), NEW l \in 1..(n - 1), k < l
                 PROVE  R[k].start <= R[l].start
    BY <1>6 DEF Sorted
  <2>3. CASE l < i
    BY <1>1, <1>2, <1>3, <2>1, <2>2, <2>3
  <2>4. CASE k < i /\ ~(l < i)
    <3>1. R[k] = entries[k] /\ R[l] = entries[l + 1] /\ k < l + 1
      BY <1>1, <1>3, <2>2, <2>4
    <3> QED
      BY <1>2, <2>1, <3>1
  <2>5. CASE ~(k < i)
    <3>1. R[k] = entries[k + 1] /\ R[l] = entries[l + 1] /\ k + 1 < l + 1
      BY <1>1, <1>3, <2>2, <2>5
    <3> QED
      BY <1>2, <2>1, <3>1
  <2> QED
    BY <1>1, <2>2, <2>3, <2>4, <2>5
<1> QED
  BY <1>6, <1>7

LEMMA BodyTyped ==
  ASSUME NEW e \in Entries, BehindEmptyBody(e)
  PROVE  Body(e) \in Entries
<1>1. e.start \in Nat /\ e.depth \in Nat /\ e.start >= 4
  BY DEF Entries, BehindEmptyBody, SW
<1>2. e.start - 2 * SW \in Nat /\ e.start - SW \in Nat
  BY <1>1 DEF SW
<1>3. (IF e.depth > 0 THEN e.depth - 1 ELSE 0) \in Nat
  BY <1>1
<1> QED
  BY <1>1, <1>2, <1>3 DEF Body, Entries

----------------------------------------------------------------------------
(* The steps                                                                 *)

LEMMA PreparedInit == Init => Prepared
<1> SUFFICES ASSUME Init PROVE Prepared
  OBVIOUS
<1>1. code \in Codes /\ code.table \in Seq(Byte)
  BY CodesAssumption DEF Init
<1>2. at \in 0..Len(code.table)
  BY <1>1, LenProperties DEF Init
<1>3. <<>> \in Seq(Nat) /\ Len(<<>>) = 0 /\ <<>> \in Seq(Entries)
  BY EmptySeq
<1>4. TypeOK
  <2>1. /\ numbers \in Seq(Nat) /\ Len(numbers) < 4
        /\ entries \in Seq(Entries)
        /\ original \in Seq(Entries)
    BY <1>3 DEF Init
  <2>2. number \in Nat /\ more \in BOOLEAN /\ synth \subseteq Entries
    BY DEF Init
  <2>3. pc \in {"read", "merge", "insert", "done", "thrown"}
    BY DEF Init
  <2> QED
    BY <1>2, <2>1, <2>2, <2>3 DEF TypeOK
<1>5. InOrder /\ CoverageKept
  BY DEF Init, InOrder, CoverageKept
<1> QED
  BY <1>1, <1>4, <1>5 DEF Prepared

\* While the table is read, only the types are at stake.
LEMMA ReadingOn ==
  ASSUME Prepared, ReadByte, number' \in Nat, more' \in BOOLEAN,
         numbers' \in Seq(Nat), Len(numbers') < 4, entries' \in Seq(Entries)
  PROVE  Prepared'
<1>1. at' \in 0..Len(code.table)
  BY CurrentByte DEF Prepared, ReadByte
<1>2. TypeOK'
  BY <1>1 DEF Prepared, ReadByte, TypeOK
<1>3. pc' = "read"
  BY DEF ReadByte
<1>4. InOrder' /\ CoverageKept'
  BY <1>3 DEF InOrder, CoverageKept
<1> QED
  BY <1>2, <1>4 DEF Prepared, ReadByte

LEMMA ReadPrepared ==
  ASSUME Prepared, MoreBits \/ EndNumber \/ EndEntry
  PROVE  Prepared'
<1>1. ReadByte
  BY DEF MoreBits, EndNumber, EndEntry
<1>2. Bits(Current) \in Nat
  BY <1>1, CurrentByte, BitsNat DEF Prepared, ReadByte, TypeOK
<1>3. /\ numbers \in Seq(Nat) /\ Len(numbers) \in Nat /\ Len(numbers) < 4
      /\ entries \in Seq(Entries)
      /\ number \in Nat
  BY LenProperties DEF Prepared, TypeOK
<1>4. /\ Append(numbers, Bits(Current)) \in Seq(Nat)
      /\ Len(Append(numbers, Bits(Current))) = Len(numbers) + 1
  BY <1>2, <1>3, AppendProperties
<1>5. CASE MoreBits
  BY <1>1, <1>2, <1>3, <1>5, ReadingOn DEF MoreBits
<1>6. CASE EndNumber
  <2>1. Len(numbers') < 4
    BY <1>3, <1>4, <1>6 DEF EndNumber
  <2> QED
    BY <1>1, <1>3, <1>4, <1>6, <2>1, ReadingOn DEF EndNumber
<1>7. CASE EndEntry
  <2>1. Entry(Append(numbers, Bits(Current))) \in Entries
    <3>1. Len(Append(numbers, Bits(Current))) = 4
      BY <1>3, <1>4, <1>7 DEF EndEntry
    <3> QED
      BY <1>4, <3>1, EntryTyped
  <2>2. entries' \in Seq(Entries)
    BY <1>3, <1>7, <2>1, AppendProperties DEF EndEntry
  <2>3. numbers' \in Seq(Nat) /\ Len(numbers') < 4
    BY <1>7, EmptySeq DEF EndEntry
  <2> QED
    BY <1>1, <1>7, <2>2, <2>3, ReadingOn DEF EndEntry
<1> QED
  BY <1>5, <1>6, <1>7

LEMMA EndTablePrepared == ASSUME Prepared, EndTable PROVE Prepared'
<1>1. TypeOK'
  BY DEF Prepared, EndTable, TypeOK
<1>2. entries' = original' /\ entries' \in Seq(Entries)
  BY DEF Prepared, EndTable, TypeOK
<1>3. InOrder'
  <2>1. Apart(entries) => Sorted(entries)
    BY ApartIsSorted DEF Prepared, TypeOK
  <2> QED
    BY <2>1 DEF EndTable, InOrder
<1>4. CoverageKept'
  BY <1>2 DEF CoverageKept
<1> QED
  BY <1>1, <1>3, <1>4 DEF Prepared, EndTable

LEMMA MergePrepared == ASSUME Prepared, Merge PROVE Prepared'
<1>1. PICK i \in MayMerge : entries' = Merged(i)
  BY DEF Merge
<1>2. i \in 1..(Len(entries) - 1) /\ (Mergeable(i) \/ ReadsBeyond(i))
  BY DEF MayMerge
<1>3. code \in Codes /\ entries \in Seq(Entries) /\ pc = "merge" /\ pc' = "merge"
  BY DEF Prepared, TypeOK, Merge
<1>4. entries' \in Seq(Entries)
  BY <1>1, <1>2, <1>3, MergedTyped, SeqOfEntries
<1>5. TypeOK'
  BY <1>4 DEF Prepared, TypeOK, Merge
<1>6. ASSUME Apart(original)
      PROVE  /\ Apart(entries') /\ Sorted(entries')
             /\ \A k \in DOMAIN code.words :
                  \/ Handlers(entries', k) = Handlers(original, k)
                  \/ Handlers(original, k) = {} /\ code.words[k].op \in Inert
  <2>1. Apart(entries)
    BY <1>3, <1>6 DEF Prepared, InOrder
  <2>2. Apart(entries')
    BY <1>1, <1>2, <1>3, <2>1, MergedApart
  <2>3. Sorted(entries')
    <3>1. \A k \in DOMAIN entries' : entries'[k].start \in Nat /\ entries'[k].end \in Nat
      BY <1>4, Lengths DEF Entries
    <3> QED
      BY <2>2, <3>1 DEF Apart, Sorted
  <2>4. \A k \in DOMAIN code.words :
          \/ Handlers(entries', k) = Handlers(entries, k)
          \/ Handlers(entries, k) = {} /\ code.words[k].op \in Inert
    BY <1>1, <1>2, <1>3, <2>1, MergedHandlers
  <2>5. \A k \in DOMAIN code.words :
          \/ Handlers(entries, k) = Handlers(original, k)
          \/ Handlers(original, k) = {} /\ code.words[k].op \in Inert
    BY <1>3, <1>6 DEF Prepared, CoverageKept
  <2> QED
    BY <2>2, <2>3, <2>4, <2>5
<1>7. InOrder' /\ CoverageKept'
  BY <1>6 DEF InOrder, CoverageKept, Merge
<1> QED
  BY <1>3, <1>5, <1>7 DEF Prepared, Merge

\* Behind the merging only the order is left to keep.
LEMMA Ordered ==
  ASSUME Prepared, pc \in {"merge", "insert"}, pc' \in {"insert", "done"},
         UNCHANGED <<code, at, number, more, numbers, original>>,
         entries' \in Seq(Entries), synth' \subseteq Entries,
         Sorted(entries) => Sorted(entries')
  PROVE  Prepared'
<1>1. TypeOK'
  BY DEF Prepared, TypeOK
<1>2. InOrder' /\ CoverageKept'
  BY DEF Prepared, InOrder, CoverageKept
<1> QED
  BY <1>1, <1>2 DEF Prepared

LEMMA SynthesizePrepared == ASSUME Prepared, Synthesize PROVE Prepared'
<1>1. entries \in Seq(Entries)
  BY DEF Prepared, TypeOK
<1>2. \A j \in Orphans : Body(entries[j]) \in Entries
  BY <1>1, Lengths, BodyTyped DEF Orphans, IsOrphan
<1>3. synth' \subseteq Entries
  BY <1>2 DEF Synthesize
<1> QED
  BY <1>1, <1>3, Ordered DEF Synthesize

LEMMA InsertPrepared == ASSUME Prepared, Insert PROVE Prepared'
<1>1. PICK s \in synth, p \in 1..(Len(entries) + 1) :
        IsPlace(p, s) /\ entries' = Inserted(p, s) /\ synth' = synth \ {s}
  BY DEF Insert
<1>2. entries \in Seq(Entries) /\ synth \subseteq Entries /\ s \in Entries
  BY DEF Prepared, TypeOK
<1>3. entries' \in Seq(Entries)
  BY <1>1, <1>2, InsertedTyped
<1>4. Sorted(entries) => Sorted(entries')
  BY <1>1, <1>2, InsertedSorted
<1> QED
  BY <1>1, <1>2, <1>3, <1>4, Ordered DEF Insert

LEMMA ErasePrepared == ASSUME Prepared, EraseAsyncFor PROVE Prepared'
<1>1. PICK i \in AsyncFors : entries' = Removed(i)
  BY DEF EraseAsyncFor
<1>2. i \in 1..Len(entries) /\ entries \in Seq(Entries) /\ synth \subseteq Entries
  BY DEF AsyncFors, Prepared, TypeOK
<1>3. entries' \in Seq(Entries) /\ (Sorted(entries) => Sorted(entries'))
  BY <1>1, <1>2, RemovedKept
<1> QED
  BY <1>2, <1>3, Ordered DEF EraseAsyncFor

LEMMA DonePrepared == ASSUME Prepared, Done PROVE Prepared'
BY Ordered DEF Done, Prepared, TypeOK

LEMMA EndsPrepared == ASSUME Prepared, Throw \/ OrphanThrows \/ UNCHANGED vars PROVE Prepared'
<1>1. CASE Throw \/ OrphanThrows
  BY <1>1 DEF Throw, OrphanThrows, Prepared, TypeOK, InOrder, CoverageKept
<1>2. CASE UNCHANGED vars
  BY <1>2 DEF vars, Prepared, TypeOK, InOrder, CoverageKept
<1> QED
  BY <1>1, <1>2

LEMMA PreparedNext == Prepared /\ [Next]_vars => Prepared'
BY ReadPrepared, EndTablePrepared, MergePrepared, SynthesizePrepared, InsertPrepared,
   ErasePrepared, DonePrepared, EndsPrepared, Zenon DEF Next

LEMMA PreparedAlways == Spec => []Prepared
BY PreparedInit, PreparedNext, PTL DEF Spec

----------------------------------------------------------------------------
(* A table with its listing                                                  *)

\* What has been read behind the byte that l is for.
Behind(l) ==
  IF l.last
  THEN /\ ~more /\ number = 0
       /\ \/ l.field = 4 /\ numbers = <<>> /\ Len(entries) = l.entry
          \/ l.field < 4 /\ Len(numbers) = l.field /\ Len(entries) = l.entry - 1
  ELSE /\ more /\ number = l.value
       /\ Len(numbers) = l.field - 1 /\ Len(entries) = l.entry - 1

Midway ==
  /\ AreFirst(entries)
  /\ \A f \in 1..Len(numbers) : numbers[f] = Number(code.listing[Len(entries) + 1], f)
  /\ IF at = 0 THEN ~more /\ number = 0 /\ numbers = <<>> /\ entries = <<>>
     ELSE Behind(code.layout[at])

\* The listing is followed.
Following ==
  /\ Prepared
  /\ IsWritten(code) =>
       IF pc = "read" THEN Midway
       ELSE /\ pc # "thrown" => AreFirst(original) /\ EndsWith(Len(original))
            /\ code.whole => original = code.listing

\* The byte of a number: its digit, and whether another one follows.
LEMMA ByteIs ==
  ASSUME NEW n \in Nat, NEW m \in {0, 64}, NEW k \in {0, 128}
  PROVE  /\ ((n % 64) + m + k) % 64 = n % 64
         /\ Continues((n % 64) + m + k) <=> m = 64
<1>1. n % 64 \in Int /\ 0 <= n % 64 /\ n % 64 < 64
  BY SMT
<1> DEFINE d == n % 64
<1> HIDE DEF d
<1>2. \A j \in Int : 0 <= j /\ j < 64 =>
        /\ (j + m + k) % 64 = j
        /\ ((j + m + k) \div 64) % 2 = 1 <=> m = 64
  BY SMT
<1>3. (d + m + k) % 64 = d /\ (((d + m + k) \div 64) % 2 = 1 <=> m = 64)
  BY <1>1, <1>2 DEF d
<1> QED
  BY <1>3 DEF d, Continues

\* A number is its digits before the last one and the last one.
LEMMA LastDigit ==
  ASSUME NEW n \in Nat
  PROVE  /\ (n \div 64) * 64 + (n % 64) = n
         /\ n < 64 => 0 * 64 + (n % 64) = n
BY SMT

LEMMA Halves ==
  ASSUME NEW a \in Nat, NEW b \in Nat, a % 2 = 0, b % 2 = 0, a <= b
  PROVE  2 * (a \div 2) = a /\ 2 * (a \div 2) + 2 * ((b - a) \div 2) = b
BY SMT

LEMMA LowestBit ==
  ASSUME NEW d \in Nat
  PROVE  /\ (2 * d + 1) \div 2 = d /\ (2 * d + 1) % 2 = 1
         /\ (2 * d + 0) \div 2 = d /\ (2 * d + 0) % 2 = 0
BY SMT

\* The numbers of an entry make it.
LEMMA EntryIs ==
  ASSUME NEW e, Listed(e), NEW n, \A f \in 1..4 : n[f] = Number(e, f)
  PROVE  Entry(n) = e
<1>1. e \in Entries
  BY DEF Listed
<1>2. e = [start |-> e.start, end |-> e.end, target |-> e.target, depth |-> e.depth,
           lasti |-> e.lasti]
  BY <1>1 DEF Entries
<1>3. /\ n[1] = e.start \div 2 /\ n[2] = (e.end - e.start) \div 2 /\ n[3] = e.target \div 2
      /\ n[4] = 2 * e.depth + (IF e.lasti THEN 1 ELSE 0)
  BY DEF Number
<1>4. /\ e.start \in Nat /\ e.end \in Nat /\ e.target \in Nat /\ e.depth \in Nat
      /\ e.lasti \in BOOLEAN
  BY <1>1 DEF Entries
<1>5. e.start % 2 = 0 /\ e.end % 2 = 0 /\ e.target % 2 = 0 /\ e.start <= e.end
  BY DEF Listed
<1>6. /\ 2 * n[1] = e.start /\ 2 * n[3] = e.target
      /\ 2 * n[1] + 2 * n[2] = e.end
  <2>1. /\ 2 * (e.start \div 2) = e.start
        /\ 2 * (e.start \div 2) + 2 * ((e.end - e.start) \div 2) = e.end
    BY <1>4, <1>5, Halves
  <2>2. 2 * (e.target \div 2) = e.target
    <3>1. e.target <= e.target
      BY <1>4
    <3> QED
      BY <1>4, <1>5, <3>1, Halves
  <2> QED
    BY <1>3, <2>1, <2>2
<1>7. n[4] \div 2 = e.depth /\ (n[4] % 2 = 1) = e.lasti
  <2>1. CASE e.lasti = TRUE
    BY <1>3, <1>4, <2>1, LowestBit
  <2>2. CASE e.lasti = FALSE
    BY <1>3, <1>4, <2>2, LowestBit
  <2> QED
    BY <1>4, <2>1, <2>2
<1> QED
  BY <1>2, <1>6, <1>7 DEF Entry

\* What the layout says of the byte at p.
LEMMA PlaceIs ==
  ASSUME NEW c \in Codes, IsWritten(c), NEW p \in 1..Len(c.layout)
  PROVE  /\ Len(c.listing) \in Nat
         /\ c.layout[p] \in Place(Len(c.listing))
         /\ IF IsFirst(c.layout, p) THEN c.layout[p].value < 64 /\ Begins(c.layout, p)
            ELSE Shifts(c.layout, p)
         /\ c.layout[p].last =>
              c.layout[p].value = Number(c.listing[c.layout[p].entry], c.layout[p].field)
         /\ p <= Len(c.table) => c.table[p] = ByteFor(c.layout, p)
<1>1. Written(c)
  BY ListingsAssumption
<1>2. c.layout[p] \in Place(Len(c.listing))
  BY <1>1, ElementOfSeq DEF Written
<1> QED
  BY <1>1, <1>2, LenProperties DEF Written

\* The next byte continues the number that is being read, or begins the next.
LEMMA NextPlace ==
  ASSUME Following, IsWritten(code), pc = "read", ~atEof
  PROVE  LET l == code.layout[at + 1]
         IN /\ at + 1 \in 1..Len(code.layout)
            /\ l \in Place(Len(code.listing))
            /\ Len(numbers) = l.field - 1
            /\ Len(entries) = l.entry - 1
            /\ Bits(Current) = l.value
            /\ Continues(Current) <=> ~l.last
            /\ l.last => l.value = Number(code.listing[l.entry], l.field)
<1> DEFINE p == at + 1
           l == code.layout[p]
           b == code.layout[p - 1]
<1>1. /\ code \in Codes /\ Written(code) /\ code.table \in Seq(Byte)
      /\ at \in 0..Len(code.table) /\ at # Len(code.table)
      /\ Len(code.table) \in Nat /\ Len(code.layout) \in Nat
      /\ Len(code.table) <= Len(code.layout)
  BY CodesAssumption, ListingsAssumption, LenProperties
     DEF Following, Prepared, TypeOK, atEof, Written
<1>2. p \in 1..Len(code.layout) /\ p <= Len(code.table) /\ p - 1 = at
  BY <1>1
<1>3. /\ Len(code.listing) \in Nat
      /\ l \in Place(Len(code.listing))
      /\ IF IsFirst(code.layout, p) THEN l.value < 64 /\ Begins(code.layout, p)
         ELSE Shifts(code.layout, p)
      /\ l.last => l.value = Number(code.listing[l.entry], l.field)
      /\ code.table[p] = ByteFor(code.layout, p)
  BY <1>1, <1>2, PlaceIs
<1>4. /\ l.value \in Nat /\ l.last \in BOOLEAN
      /\ l.field \in 1..4 /\ l.entry \in 1..Len(code.listing)
  BY <1>3 DEF Place
<1>5. Midway
  BY DEF Following
<1>6. /\ Len(numbers) = l.field - 1
      /\ Len(entries) = l.entry - 1
      /\ IF IsFirst(code.layout, p) THEN number = 0 ELSE number = l.value \div 64
  <2>1. CASE at = 0
    <3>1. number = 0 /\ numbers = <<>> /\ entries = <<>> /\ p = 1
      BY <1>5, <2>1 DEF Midway
    <3>2. IsFirst(code.layout, p) /\ l.entry = 1 /\ l.field = 1
      BY <1>3, <3>1 DEF IsFirst, Begins
    <3>3. Len(numbers) = 0 /\ Len(entries) = 0
      BY <3>1, EmptySeq
    <3> QED
      BY <3>1, <3>2, <3>3
  <2>2. CASE at # 0
    <3>1. Behind(b) /\ p # 1
      BY <1>1, <1>2, <1>5, <2>2 DEF Midway
    <3>2. b \in Place(Len(code.listing))
      <4>1. p - 1 \in 1..Len(code.layout)
        BY <1>1, <2>2
      <4> QED
        BY <1>1, <4>1, PlaceIs
    <3>3. b.field \in 1..4 /\ b.entry \in 1..Len(code.listing)
      BY <3>2 DEF Place
    <3>4. b.field \in Int /\ b.entry \in Int
      BY <3>3
    <3>5. CASE b.last
      <4>1. IsFirst(code.layout, p)
        BY <3>5 DEF IsFirst
      <4>2. \/ b.field < 4 /\ l.entry = b.entry /\ l.field = b.field + 1
            \/ b.field = 4 /\ l.entry = b.entry + 1 /\ l.field = 1
        BY <1>3, <3>1, <4>1 DEF Begins
      <4>3. /\ number = 0
            /\ \/ b.field = 4 /\ numbers = <<>> /\ Len(entries) = b.entry
               \/ b.field < 4 /\ Len(numbers) = b.field /\ Len(entries) = b.entry - 1
        BY <3>1, <3>5 DEF Behind
      <4>4. numbers = <<>> => Len(numbers) = 0
        BY EmptySeq
      <4> HIDE DEF b, l
      <4> QED
        BY <3>4, <4>1, <4>2, <4>3, <4>4
    <3>6. CASE ~b.last
      <4>1. ~IsFirst(code.layout, p)
        BY <3>1, <3>6 DEF IsFirst
      <4>2. l.entry = b.entry /\ l.field = b.field /\ b.value = l.value \div 64
        BY <1>3, <4>1 DEF Shifts
      <4>3. number = b.value /\ Len(numbers) = b.field - 1 /\ Len(entries) = b.entry - 1
        BY <3>1, <3>6 DEF Behind
      <4> QED
        BY <4>1, <4>2, <4>3
    <3> QED
      BY <3>5, <3>6
  <2> QED
    BY <2>1, <2>2
<1>7. Current % 64 = l.value % 64 /\ (Continues(Current) <=> ~l.last)
  <2> DEFINE m == IF l.last THEN 0 ELSE 64
             k == IF l.field = 1 /\ IsFirst(code.layout, p) THEN 128 ELSE 0
  <2>1. Current = (l.value % 64) + m + k
    BY <1>3 DEF Current, ByteFor
  <2>2. m \in {0, 64} /\ k \in {0, 128} /\ (m = 64 <=> ~l.last)
    OBVIOUS
  <2> HIDE DEF m, k, l
  <2> QED
    BY SMTT(30), <1>4, <2>1, <2>2, ByteIs
<1>8. Bits(Current) = l.value
  <2> HIDE DEF l
  <2>1. CASE IsFirst(code.layout, p)
    <3>1. number = 0 /\ l.value < 64
      BY <1>3, <1>6, <2>1 DEF l
    <3> QED
      BY <1>4, <1>7, <3>1, LastDigit DEF Bits
  <2>2. CASE ~IsFirst(code.layout, p)
    BY <1>4, <1>6, <1>7, <2>2, LastDigit DEF Bits
  <2> QED
    BY <2>1, <2>2
<1> QED
  BY <1>2, <1>3, <1>6, <1>7, <1>8

LEMMA MoreBitsFollows == ASSUME Following, MoreBits PROVE Following'
<1>1. Prepared' /\ pc = "read" /\ pc' = "read" /\ code' = code /\ at' = at + 1 /\ ~atEof
  BY ReadPrepared DEF Following, MoreBits, ReadByte
<1>2. SUFFICES ASSUME IsWritten(code) PROVE Midway'
  BY <1>1 DEF Following
<1> DEFINE l == code.layout[at + 1]
<1>3. /\ Len(numbers) = l.field - 1 /\ Len(entries) = l.entry - 1
      /\ Bits(Current) = l.value
      /\ ~l.last
  BY <1>1, <1>2, NextPlace DEF MoreBits
<1>4. Behind(code.layout[at])'
  BY <1>1, <1>3 DEF Behind, MoreBits
<1>5. at + 1 # 0
  BY DEF Following, Prepared, TypeOK
<1>6. AreFirst(entries)' /\ \A f \in 1..Len(numbers') :
         numbers'[f] = Number(code'.listing[Len(entries') + 1], f)
  BY <1>1, <1>2 DEF Midway, AreFirst, MoreBits, Following
<1> QED
  BY <1>1, <1>4, <1>5, <1>6 DEF Midway

LEMMA EndNumberFollows == ASSUME Following, EndNumber PROVE Following'
<1>1. Prepared' /\ pc = "read" /\ pc' = "read" /\ code' = code /\ at' = at + 1 /\ ~atEof
  BY ReadPrepared DEF Following, EndNumber, ReadByte
<1>2. SUFFICES ASSUME IsWritten(code) PROVE Midway'
  BY <1>1 DEF Following
<1> DEFINE l == code.layout[at + 1]
           n == Len(numbers)
<1>3. /\ l \in Place(Len(code.listing))
      /\ n = l.field - 1 /\ Len(entries) = l.entry - 1
      /\ Bits(Current) = l.value
      /\ l.last
      /\ l.value = Number(code.listing[l.entry], l.field)
  BY <1>1, <1>2, NextPlace DEF EndNumber
<1>4. l.field \in 1..4 /\ l.entry \in 1..Len(code.listing) /\ l.value \in Nat
  BY <1>3 DEF Place
<1>5. n < 3 /\ numbers \in Seq(Nat) /\ n \in Nat /\ entries' = entries
      /\ numbers' = Append(numbers, l.value)
  BY <1>3, LenProperties DEF EndNumber, Following, Prepared, TypeOK
<1>6. /\ Len(numbers') = n + 1
      /\ numbers'[n + 1] = l.value
      /\ \A f \in 1..n : numbers'[f] = numbers[f]
  BY <1>4, <1>5, AppendProperties
<1>7. /\ \A f \in 1..n : numbers[f] = Number(code.listing[Len(entries) + 1], f)
      /\ AreFirst(entries)
  BY <1>1, <1>2 DEF Following, Midway
<1> HIDE DEF n, l
<1>8. l.field = n + 1 /\ Len(entries) + 1 = l.entry /\ l.field < 4
  BY <1>3, <1>4, <1>5
<1>9. \A f \in 1..(n + 1) : numbers'[f] = Number(code.listing[Len(entries) + 1], f)
  <2>1. TAKE f \in 1..(n + 1)
  <2>2. f \in 1..n \/ f = n + 1
    BY <1>5
  <2> QED
    BY <1>3, <1>6, <1>7, <1>8, <2>2
<1>10. Behind(code.layout[at])'
  <2>1. code'.layout[at'] = l /\ more' = FALSE /\ number' = 0
    BY <1>1 DEF l, EndNumber
  <2>2. Len(numbers') = l.field /\ Len(entries') = l.entry - 1 /\ l.field < 4 /\ l.last
    BY <1>3, <1>5, <1>6, <1>8
  <2> QED
    BY <2>1, <2>2 DEF Behind
<1>11. at + 1 # 0
  BY DEF Following, Prepared, TypeOK
<1>12. AreFirst(entries)' /\ \A f \in 1..Len(numbers') :
          numbers'[f] = Number(code'.listing[Len(entries') + 1], f)
  BY <1>1, <1>5, <1>6, <1>7, <1>9 DEF AreFirst
<1> QED
  BY <1>1, <1>10, <1>11, <1>12 DEF Midway

LEMMA FourNumbers ==
  ASSUME NEW ns \in Seq(Nat), NEW k \in Nat
  PROVE  Len(ns) = 3 => /\ Append(ns, k)[4] = k
                        /\ Entry(Append(ns, k)) \in Entries
                        /\ \A f \in 1..3 : Append(ns, k)[f] = ns[f]
<1> DEFINE m == Append(ns, k)
<1>1. m \in Seq(Nat) /\ Len(m) = Len(ns) + 1 /\ m[Len(ns) + 1] = k
      /\ \A f \in 1..Len(ns) : m[f] = ns[f]
  BY AppendProperties
<1> HIDE DEF m
<1>2. Len(ns) = 3 => Len(m) = 4 /\ m[4] = k /\ \A f \in 1..3 : m[f] = ns[f]
  BY <1>1
<1> QED
  BY <1>1, <1>2, EntryTyped DEF m

LEMMA EndEntryFollows == ASSUME Following, EndEntry PROVE Following'
<1>1. Prepared' /\ pc = "read" /\ pc' = "read" /\ code' = code /\ at' = at + 1 /\ ~atEof
  BY ReadPrepared DEF Following, EndEntry, ReadByte
<1>2. SUFFICES ASSUME IsWritten(code) PROVE Midway'
  BY <1>1 DEF Following
<1> DEFINE l == code.layout[at + 1]
           n == Len(entries)
           e == code.listing[n + 1]
           ns == Append(numbers, Bits(Current))
<1>3. /\ l \in Place(Len(code.listing))
      /\ Len(numbers) = l.field - 1 /\ n = l.entry - 1
      /\ Bits(Current) = l.value
      /\ l.last
      /\ l.value = Number(code.listing[l.entry], l.field)
  BY <1>1, <1>2, NextPlace DEF EndEntry
<1>4. l.field \in 1..4 /\ l.entry \in 1..Len(code.listing) /\ l.value \in Nat
  BY <1>3 DEF Place
<1>5. /\ Len(numbers) = 3 /\ numbers \in Seq(Nat)
      /\ n \in Nat /\ entries \in Seq(Entries)
      /\ entries' = Append(entries, Entry(ns)) /\ numbers' = <<>>
  BY LenProperties DEF EndEntry, Following, Prepared, TypeOK
<1>6. /\ \A f \in 1..Len(numbers) : numbers[f] = Number(e, f)
      /\ AreFirst(entries)
  BY <1>1, <1>2 DEF Following, Midway
<1>7. l.field = 4 /\ n + 1 = l.entry /\ e = code.listing[l.entry]
  <2>1. Len(numbers) = l.field - 1 /\ n = l.entry - 1
    BY <1>3
  <2>2. l.field \in Int /\ l.entry \in Int
    BY <1>4
  <2>3. Len(numbers) = 3 /\ n \in Int
    BY <1>5
  <2> HIDE DEF l, n
  <2>4. l.field = 4 /\ n + 1 = l.entry
    BY <2>1, <2>2, <2>3
  <2> QED
    BY <2>4 DEF e
<1>8. Bits(Current) \in Nat
  BY <1>3, <1>4
<1>9. Entry(ns) = e /\ e \in Entries
  <2>1. ns[4] = Bits(Current) /\ Entry(ns) \in Entries /\ \A f \in 1..3 : ns[f] = numbers[f]
    BY <1>5, <1>8, FourNumbers, Zenon
  <2>2. Bits(Current) = Number(e, 4)
    BY <1>3, <1>7, Zenon
  <2>3. \A f \in 1..4 : ns[f] = Number(e, f)
    <3>1. TAKE f \in 1..4
    <3>2. f \in 1..3 \/ f = 4
      OBVIOUS
    <3> HIDE DEF ns, e
    <3> QED
      BY <1>5, <1>6, <2>1, <2>2, <3>2
  <2>4. Listed(e)
    <3>1. Written(code)
      BY <1>2, ListingsAssumption DEF Following, Prepared
    <3>2. l.entry \in DOMAIN code.listing
      BY <1>4, <3>1, LenProperties DEF Written
    <3> QED
      BY <1>7, <3>1, <3>2 DEF Written
  <2> QED
    BY <2>1, <2>3, <2>4, EntryIs
<1>10. /\ Len(entries') = n + 1
      /\ entries'[n + 1] = e
      /\ \A i \in 1..n : entries'[i] = entries[i]
  BY <1>5, <1>9, AppendProperties
<1>11. AreFirst(entries')
  <2> HIDE DEF n, e, l
  <2>1. n + 1 <= Len(code.listing)
    BY <1>4, <1>7
  <2>2. \A i \in 1..(n + 1) : entries'[i] = code.listing[i]
    <3>1. TAKE i \in 1..(n + 1)
    <3>2. i \in 1..n \/ i = n + 1
      BY <1>5
    <3>3. \A j \in 1..n : entries[j] = code.listing[j]
      BY <1>6 DEF AreFirst, n
    <3> QED
      BY <1>10, <3>2, <3>3 DEF e
  <2> QED
    BY <1>10, <2>1, <2>2 DEF AreFirst
<1>12. Behind(code.layout[at])'
  <2>1. code'.layout[at'] = l /\ more' = FALSE /\ number' = 0
    BY <1>1 DEF EndEntry
  <2>2. numbers' = <<>> /\ Len(entries') = l.entry /\ l.field = 4 /\ l.last
    BY <1>3, <1>5, <1>7, <1>10
  <2> QED
    BY <2>1, <2>2 DEF Behind
<1>13. at + 1 # 0 /\ Len(numbers') = 0
  BY <1>5, EmptySeq DEF Following, Prepared, TypeOK
<1>14. \A f \in 1..Len(numbers') :
         numbers'[f] = Number(code'.listing[Len(entries') + 1], f)
  BY <1>13
<1> QED
  BY <1>1, <1>11, <1>12, <1>13, <1>14 DEF Midway, AreFirst

\* Where the table may end.
LEMMA EndIs ==
  ASSUME Following, IsWritten(code), pc = "read", atEof
  PROVE  /\ ~Inside => AreFirst(entries) /\ EndsWith(Len(entries))
         /\ code.whole => ~Inside /\ entries = code.listing
<1> DEFINE l == code.layout[at]
<1>1. /\ code \in Codes /\ Written(code) /\ code.table \in Seq(Byte)
      /\ at \in Nat /\ at = Len(code.table)
      /\ Len(code.layout) \in Nat /\ Len(code.listing) \in Nat
      /\ at <= Len(code.layout)
      /\ entries \in Seq(Entries) /\ numbers \in Seq(Nat) /\ code.listing \in Seq(Entries)
      /\ code.layout \in Seq(Place(Len(code.listing)))
  BY CodesAssumption, ListingsAssumption, LenProperties
     DEF Following, Prepared, TypeOK, atEof, Written
<1>2. Midway
  BY DEF Following
<1>3. AreFirst(entries)
  BY <1>2 DEF Midway
<1>4. at = 0 <=> code.table = <<>>
  BY <1>1, EmptySeq, LenProperties
<1>5. ASSUME ~Inside PROVE EndsWith(Len(entries))
  <2>1. CASE at = 0
    BY <1>2, <1>4, <2>1, EmptySeq DEF EndsWith, Midway
  <2>2. CASE at # 0
    <3>1. Behind(l)
      BY <1>2, <2>2 DEF Midway
    <3>2. l \in Place(Len(code.listing))
      <4>1. at \in 1..Len(code.layout)
        BY <1>1, <2>2
      <4> QED
        BY <1>1, <4>1, ElementOfSeq
    <3>3. l.last /\ l.field = 4 /\ l.entry = Len(entries)
      <4>1. ~more /\ numbers = <<>>
        BY <1>5 DEF Inside
      <4>2. Len(numbers) = 0 /\ l.field \in 1..4
        BY <3>2, <4>1, EmptySeq DEF Place
      <4>3. l.last
        BY <3>1, <4>1 DEF Behind
      <4>4. ~(Len(numbers) = l.field)
        BY <4>2
      <4> QED
        BY <3>1, <4>3, <4>4 DEF Behind
    <3> QED
      BY <1>1, <1>4, <2>2, <3>3 DEF EndsWith
  <2> QED
    BY <2>1, <2>2
<1>6. ASSUME code.whole PROVE ~Inside /\ Len(entries) = Len(code.listing)
  <2>1. at = Len(code.layout)
    BY <1>1, <1>6 DEF Written
  <2>2. CASE at = 0
    <3>1. code.layout = <<>>
      BY <1>1, <2>1, <2>2, EmptySeq, LenProperties
    <3>2. code.listing = <<>>
      BY <1>1, <3>1 DEF Written
    <3> QED
      BY <1>2, <2>2, <3>2 DEF Midway, Inside
  <2>3. CASE at # 0
    <3>1. code.layout # <<>>
      BY <2>1, <2>3, EmptySeq
    <3>2. l.last /\ l.field = 4 /\ l.entry = Len(code.listing)
      BY <1>1, <2>1, <3>1 DEF Written
    <3>3. Behind(l)
      BY <1>2, <2>3 DEF Midway
    <3> QED
      BY <3>2, <3>3 DEF Behind, Inside
  <2> QED
    BY <2>2, <2>3
<1>7. ASSUME Len(entries) = Len(code.listing) PROVE entries = code.listing
  BY <1>1, <1>3, <1>7, SeqEqual DEF AreFirst
<1> QED
  BY <1>3, <1>5, <1>6, <1>7

LEMMA EndTableFollows == ASSUME Following, EndTable \/ Throw PROVE Following'
<1>1. Prepared' /\ code' = code /\ pc = "read" /\ atEof
  BY EndTablePrepared, EndsPrepared DEF Following, EndTable, Throw
<1>2. CASE EndTable
  BY <1>1, <1>2, EndIs DEF EndTable, Following, AreFirst, EndsWith
<1>3. CASE Throw
  BY <1>1, <1>3, EndIs DEF Throw, Following
<1> QED
  BY <1>2, <1>3

\* Behind the reading the entries read stay what they are.
LEMMA OthersFollow ==
  ASSUME Following,
         Merge \/ Synthesize \/ OrphanThrows \/ Insert \/ EraseAsyncFor \/ Done
  PROVE  Following'
<1>1. Prepared'
  BY MergePrepared, SynthesizePrepared, EndsPrepared, InsertPrepared, ErasePrepared,
     DonePrepared DEF Following
<1>2. /\ code' = code /\ original' = original
      /\ pc \in {"merge", "insert"} /\ pc' \in {"merge", "insert", "done", "thrown"}
  BY DEF Merge, Synthesize, OrphanThrows, Insert, EraseAsyncFor, Done
<1> QED
  BY <1>1, <1>2 DEF Following, AreFirst, EndsWith

LEMMA FollowingInit == Init => Following
<1> SUFFICES ASSUME Init PROVE Following
  OBVIOUS
<1>1. Prepared
  BY PreparedInit
<1>2. ASSUME IsWritten(code) PROVE Midway
  <2>1. Len(entries) = 0 /\ Len(numbers) = 0
    BY EmptySeq DEF Init
  <2>2. Len(code.listing) \in Nat
    BY <1>2, ListingsAssumption, LenProperties DEF Init, Written
  <2> QED
    BY <2>1, <2>2 DEF Init, Midway, AreFirst
<1> QED
  BY <1>1, <1>2 DEF Init, Following

LEMMA FollowingNext == Following /\ [Next]_vars => Following'
<1>1. ASSUME Following, UNCHANGED vars PROVE Following'
  <2>1. Prepared'
    BY <1>1, EndsPrepared DEF Following
  <2> QED
    BY <1>1, <2>1 DEF vars, Following, Midway, Behind, AreFirst, EndsWith
<1> QED
  BY <1>1, MoreBitsFollows, EndNumberFollows, EndEntryFollows, EndTableFollows, OthersFollow,
     Zenon DEF Next

LEMMA FollowingAlways == Spec => []Following
BY FollowingInit, FollowingNext, PTL DEF Spec

----------------------------------------------------------------------------
(* Compiled try statements                                                   *)

Spanning(e) == e.start % 2 = 0 /\ e.end % 2 = 0 /\ e.start < e.end

\* Two ranges in this order: apart, or the second inside the first.
Fits(a, b) == a.end <= b.start \/ (a.start <= b.start /\ b.end <= a.end)

Nested(es) == \A i, j \in 1..Len(es) : i < j => Fits(es[i], es[j])

\* Entry e is the listed one o, or begins with it.
Extends(e, o) ==
  /\ e.start = o.start /\ e.target = o.target /\ e.lasti = o.lasti
  /\ e.lasti => e = o

\* Entry e stands for the listed one o.
StandsFor(e, o) ==
  /\ e.target = o.target /\ e.lasti = o.lasti
  /\ e.lasti => e = o

AllListed ==
  /\ \A j \in 1..Len(entries) : \E i \in 1..Len(code.listing) :
       Extends(entries[j], code.listing[i])
  /\ \A i \in 1..Len(code.listing) : \E j \in 1..Len(entries) :
       StandsFor(entries[j], code.listing[i])

\* A range that is still to be inserted, of one instruction.
IsAwaited(s) ==
  /\ s.start % 2 = 0 /\ s.end = s.start + 2
  /\ \A j \in 1..Len(entries) : entries[j].start # s.start
  /\ \A t \in synth : t.start = s.start => t = s

Provided ==
  \A i \in 1..Len(code.listing) :
    LET off == code.listing[i].start
    IN IsHandler(code, off) /\ IsEmptyHandler(code, off) =>
         HasBody(off) \/ \E s \in synth : Leads(s, off)

\* Where the preparing of a compiled table is.
Preparing ==
  /\ pc # "thrown"
  /\ pc # "read" => \A j \in 1..Len(entries) : Spanning(entries[j])
  /\ pc = "merge" => AllListed
  /\ pc \in {"insert", "done"} =>
       Nested(entries) /\ Provided /\ \A s \in synth : IsAwaited(s)
  /\ pc = "done" => synth = {}

Compiled == Following /\ (code.whole => Preparing)

LEMMA ListingIs ==
  ASSUME Following, code.whole
  PROVE  /\ code.listing \in Seq(Entries)
         /\ Len(code.listing) \in Nat
         /\ DOMAIN code.listing = 1..Len(code.listing)
         /\ \A i \in 1..Len(code.listing) :
              code.listing[i] \in Entries /\ Spanning(code.listing[i])
         /\ Apart(code.listing)
         /\ pc # "read" => original = code.listing
<1>1. code \in Codes /\ IsWritten(code)
  BY DEF Following, Prepared, IsWritten
<1>2. Written(code) /\ HandlersWritten(code)
  BY <1>1, ListingsAssumption, HandlersAssumption
<1>3. /\ code.listing \in Seq(Entries)
      /\ Len(code.listing) \in Nat
      /\ DOMAIN code.listing = 1..Len(code.listing)
      /\ \A i \in 1..Len(code.listing) : code.listing[i] \in Entries
  BY <1>2, Lengths DEF Written
<1>4. ASSUME NEW i \in 1..Len(code.listing)
      PROVE  Spanning(code.listing[i])
  BY <1>2, <1>3 DEF Written, Listed, HandlersWritten, Spanning
<1>5. pc # "read" => original = code.listing
  BY <1>1 DEF Following
<1> QED
  BY <1>2, <1>3, <1>4, <1>5 DEF HandlersWritten

\* What is known of the entries while they are merged and when they are put in.
LEMMA EntriesAre ==
  ASSUME Following, code.whole, pc # "read"
  PROVE  /\ entries \in Seq(Entries)
         /\ Len(entries) \in Nat
         /\ DOMAIN entries = 1..Len(entries)
         /\ \A j \in 1..Len(entries) : entries[j] \in Entries
         /\ pc = "merge" => Apart(entries)
         /\ pc \in {"merge", "insert", "done"} => Sorted(entries)
<1>1. entries \in Seq(Entries) /\ InOrder
  BY DEF Following, Prepared, TypeOK
<1>2. Apart(original)
  BY ListingIs
<1> QED
  BY <1>1, <1>2, Lengths DEF InOrder

LEMMA EndTablePrepares ==
  ASSUME Following, code.whole, EndTable
  PROVE  Preparing'
<1>1. entries = code.listing
  <2>1. IsWritten(code)
    BY DEF IsWritten
  <2> QED
    BY <2>1, EndIs DEF EndTable
<1>2. \A i \in 1..Len(code.listing) : Spanning(code.listing[i])
  BY ListingIs
<1>3. AllListed
  BY <1>1 DEF AllListed, Extends, StandsFor
<1>4. UNCHANGED <<entries, code>> /\ pc' = "merge"
  BY DEF EndTable
<1> QED
  BY <1>1, <1>2, <1>3, <1>4 DEF Preparing, AllListed

LEMMA JoinedIs ==
  ASSUME NEW a \in Entries, NEW b \in Entries, Spanning(a), Spanning(b), a.end < b.start
  PROVE  /\ Joined(a, b).start = a.start /\ Joined(a, b).target = a.target
         /\ Joined(a, b).lasti = a.lasti
         /\ Spanning(Joined(a, b))
<1>1. Joined(a, b) = [a EXCEPT !.end = b.end]
  BY DEF Joined, Larger, Spanning, Entries
<1> QED
  BY <1>1 DEF Spanning, Entries

LEMMA ExtendsOn ==
  ASSUME NEW a, NEW b, NEW c, Extends(a, b), Extends(b, c)
  PROVE  Extends(a, c)
BY Zenon DEF Extends

LEMMA StandsOn ==
  ASSUME NEW a, NEW b, NEW c, StandsFor(a, b), StandsFor(b, c)
  PROVE  StandsFor(a, c)
BY Zenon DEF StandsFor

LEMMA LeadsToo ==
  ASSUME NEW a, NEW b, NEW off, StandsFor(a, b), Leads(b, off)
  PROVE  Leads(a, off)
BY Zenon DEF StandsFor, Leads

LEMMA MergePrepares ==
  ASSUME Following, code.whole, Preparing, Merge
  PROVE  Preparing'
<1> DEFINE n == Len(entries)
<1>1. PICK i \in MayMerge : entries' = Merged(i)
  BY DEF Merge
<1> DEFINE M == Merged(i)
<1>2. /\ i \in 1..(n - 1) /\ ~entries[i].lasti /\ ~entries[i + 1].lasti
      /\ entries[i].target = entries[i + 1].target
      /\ entries[i].end < entries[i + 1].start
  BY EntriesAre DEF MayMerge, Mergeable, ReadsBeyond, Alike, Merge, Entries
<1>3. /\ n \in Nat /\ entries \in Seq(Entries)
      /\ \A j \in 1..n : entries[j] \in Entries /\ Spanning(entries[j])
      /\ AllListed /\ pc' = "merge" /\ code' = code
  BY EntriesAre DEF Preparing, Merge
<1>4. i \in 1..n /\ i + 1 \in 1..n /\ Len(M) = n - 1 /\ n - 1 \in Nat
  BY <1>2, <1>3, MergedTyped, SeqOfEntries
<1>5. /\ M[i].start = entries[i].start /\ M[i].target = entries[i].target
      /\ M[i].lasti = entries[i].lasti /\ Spanning(M[i])
  <2>1. M[i] = Joined(entries[i], entries[i + 1])
    BY <1>2, <1>3, MergedAt
  <2> QED
    BY <1>2, <1>3, <1>4, <2>1, JoinedIs
<1>6. \A k \in 1..(n - 1) : /\ k < i => M[k] = entries[k]
                            /\ k > i => M[k] = entries[k + 1]
  BY <1>2, <1>3, MergedAt
<1> HIDE DEF M
<1>7. \A k \in 1..(n - 1) : \E j \in 1..n : Spanning(M[k]) /\ Extends(M[k], entries[j])
  <2> SUFFICES ASSUME NEW k \in 1..(n - 1)
               PROVE  \E j \in 1..n : Spanning(M[k]) /\ Extends(M[k], entries[j])
    OBVIOUS
  <2>1. CASE k < i
    BY <1>3, <1>4, <1>6, <2>1 DEF Extends
  <2>2. CASE k = i
    BY <1>2, <1>4, <1>5, <2>2 DEF Extends
  <2>3. CASE k > i
    <3>1. k + 1 \in 1..n
      BY <1>3
    <3> QED
      BY <1>3, <1>6, <2>3, <3>1 DEF Extends
  <2> QED
    BY <1>2, <1>3, <2>1, <2>2, <2>3
<1>8. \A j \in 1..n : \E k \in 1..(n - 1) : StandsFor(M[k], entries[j])
  <2> SUFFICES ASSUME NEW j \in 1..n
               PROVE  \E k \in 1..(n - 1) : StandsFor(M[k], entries[j])
    OBVIOUS
  <2>1. CASE j < i
    <3>1. j \in 1..(n - 1) /\ M[j] = entries[j]
      BY <1>2, <1>3, <1>6, <2>1
    <3> QED
      BY <3>1 DEF StandsFor
  <2>2. CASE j = i \/ j = i + 1
    <3>1. entries[i].lasti = FALSE /\ entries[i + 1].lasti = FALSE
      BY <1>2, <1>3, <1>4 DEF Entries
    <3>2. StandsFor(M[i], entries[i]) /\ StandsFor(M[i], entries[i + 1])
      BY <1>2, <1>5, <3>1 DEF StandsFor
    <3> QED
      BY <1>2, <2>2, <3>2
  <2>3. CASE j > i + 1
    <3>1. j - 1 \in 1..(n - 1) /\ j - 1 > i /\ (j - 1) + 1 = j
      BY <1>2, <1>3, <2>3
    <3>2. M[j - 1] = entries[j]
      BY <1>6, <3>1
    <3> QED
      BY <3>1, <3>2 DEF StandsFor
  <2> QED
    BY <1>2, <1>3, <2>1, <2>2, <2>3
<1> HIDE DEF n
<1>9. AllListed'
  <2>1. \A k \in 1..(n - 1) : \E o \in 1..Len(code.listing) : Extends(M[k], code.listing[o])
    BY <1>3, <1>7, ExtendsOn DEF AllListed, n
  <2>2. \A o \in 1..Len(code.listing) : \E k \in 1..(n - 1) : StandsFor(M[k], code.listing[o])
    BY <1>3, <1>8, StandsOn DEF AllListed, n
  <2> QED
    BY <1>1, <1>3, <1>4, <2>1, <2>2 DEF AllListed, M
<1> QED
  BY <1>1, <1>3, <1>4, <1>7, <1>9 DEF Preparing, M

\* An opcode is none only behind the last instruction.
LEMMA OpIs ==
  ASSUME code \in Codes, NEW off
  PROVE  /\ OpAt(off) = OpIn(code, off)
         /\ OpIn(code, off) # "none" <=> At(off) \in DOMAIN code.words
<1>1. code.words \in Seq(Word)
  BY CodesAssumption
<1>2. \A k \in DOMAIN code.words : code.words[k].op \in Ops
  <2>1. \A k \in DOMAIN code.words : code.words[k] \in Word
    BY <1>1
  <2> QED
    BY <2>1 DEF Word
<1>3. "none" \notin Ops
  BY DEF Ops
<1> QED
  BY <1>2, <1>3 DEF OpAt, OpIn

\* A handler does not end before what the builder looks at.
LEMMA NoneRunsOut ==
  ASSUME Following, code.whole, Preparing, pc = "merge", NEW j \in 1..Len(entries)
  PROVE  ~RunsOut(entries[j])
<1> DEFINE e == entries[j]
           off == e.start
<1> SUFFICES ASSUME RunsOut(e) PROVE FALSE
  OBVIOUS
<1>1. code \in Codes /\ code.words \in Seq(Word) /\ HandlersWritten(code)
  BY CodesAssumption, HandlersAssumption DEF Following, Prepared
<1>2. PICK i \in DOMAIN code.listing : off = code.listing[i].start
  BY ListingIs DEF Preparing, AllListed, Extends
<1>3. IsHandler(code, off)
  BY <1>1, OpIs DEF RunsOut, BehindEmptyBody, IsHandler
<1>4. OpIn(code, off + 3 * SW) # "none"
  BY <1>1, <1>2, <1>3 DEF HandlersWritten
<1>5. At(off + 3 * SW) \in 1..Len(code.words) /\ Len(code.words) \in Nat
  BY <1>1, <1>4, OpIs, LenProperties
<1>6. off \in Nat
  BY EntriesAre DEF Entries
<1>7. At(off + 1 * SW) \in 1..Len(code.words) /\ At(off + 2 * SW) \in 1..Len(code.words)
  <2> DEFINE h == off \div 2
  <2>1. h \in Nat /\ At(off + 1 * SW) = h + 2 /\ At(off + 2 * SW) = h + 3
        /\ At(off + 3 * SW) = h + 4
    BY SMTT(30), <1>6 DEF At, SW
  <2> HIDE DEF h
  <2> QED
    BY <1>5, <2>1
<1>8. \A n \in 1..3 : HandlerOp(e, n) # "none"
  BY <1>1, <1>5, <1>7, OpIs, LenProperties DEF HandlerOp
<1> QED
  BY <1>8 DEF RunsOut

\* An orphan is a listed entry at an empty handler behind an empty body.
LEMMA OrphanIs ==
  ASSUME Following, code.whole, Preparing, pc = "merge", NEW j \in Orphans
  PROVE  /\ j \in 1..Len(entries)
         /\ entries[j] \in Entries
         /\ entries[j].start % 2 = 0 /\ entries[j].start >= 4
         /\ IsHandler(code, entries[j].start)
         /\ \A k \in 1..Len(entries) : entries[k].start # entries[j].start - 4
<1> DEFINE e == entries[j]
           off == e.start
<1>1. code \in Codes /\ HandlersWritten(code)
  BY HandlersAssumption DEF Following, Prepared
<1>2. j \in 1..Len(entries) /\ e \in Entries /\ IsOrphan(e) /\ BehindEmptyBody(e)
  BY EntriesAre DEF Preparing, Orphans, IsOrphan
<1>3. PICK i \in DOMAIN code.listing : e = code.listing[i]
  BY <1>2, ListingIs DEF Preparing, AllListed, Extends, BehindEmptyBody
<1>4. IsHandler(code, off) /\ IsEmptyHandler(code, off)
  <2>1. HandlerOp(e, 1) = "POP_TOP" /\ HandlerOp(e, 2) = "POP_EXCEPT"
    BY <1>2 DEF IsOrphan, BareHandler
  <2>2. off + 1 * SW = off + SW
    BY DEF SW
  <2> QED
    BY <1>1, <1>2, <2>1, <2>2, OpIs DEF BehindEmptyBody, HandlerOp, IsHandler, IsEmptyHandler
<1>5. ~\E m \in DOMAIN code.listing : Leads(code.listing[m], off)
  <2> SUFFICES ASSUME NEW m \in 1..Len(code.listing), Leads(code.listing[m], off)
               PROVE  FALSE
    BY ListingIs
  <2>1. PICK k \in 1..Len(entries) : StandsFor(entries[k], code.listing[m])
    BY DEF Preparing, AllListed
  <2>2. entries[k].target = off /\ ~entries[k].lasti
    BY <2>1 DEF StandsFor, Leads
  <2> QED
    BY <1>2, <2>2, EntriesAre DEF BehindEmptyBody, IsBodyTarget
<1>6. IsEmptyBody(code, off)
  BY <1>1, <1>3, <1>4, <1>5 DEF HandlersWritten
<1>7. off % 2 = 0 /\ off \in Nat /\ off >= 4
  BY <1>2, <1>6 DEF Preparing, Spanning, IsEmptyBody, SW, Entries
<1>8. ASSUME NEW k \in 1..Len(entries) PROVE entries[k].start # off - 4
  <2>1. PICK m \in 1..Len(code.listing) : entries[k].start = code.listing[m].start
    BY DEF Preparing, AllListed, Extends
  <2>2. Spanning(code.listing[m]) /\ code.listing[m] \in Entries /\ m \in DOMAIN code.listing
    BY ListingIs
  <2>3. off - 4 < code.listing[m].start \/ code.listing[m].end <= off - 4
    BY <1>6, <2>2 DEF IsEmptyBody, SW
  <2> QED
    BY <1>7, <2>1, <2>2, <2>3 DEF Spanning, Entries
<1> QED
  BY <1>2, <1>4, <1>7, <1>8

LEMMA BodyIs ==
  ASSUME Following, code.whole, Preparing, pc = "merge", NEW j \in Orphans
  PROVE  LET s == Body(entries[j])
         IN /\ s.start = entries[j].start - 4 /\ s.end = s.start + 2
            /\ Leads(s, entries[j].start)
BY OrphanIs DEF Body, SW, Leads, Entries

LEMMA SynthesizePrepares ==
  ASSUME Following, code.whole, Preparing, Synthesize
  PROVE  Preparing'
<1>1. /\ pc = "merge" /\ pc' = "insert" /\ code' = code /\ entries' = entries
      /\ synth' = {Body(entries[j]) : j \in Orphans}
  BY DEF Synthesize
<1>2. /\ Len(entries) \in Nat /\ DOMAIN entries = 1..Len(entries)
      /\ \A j \in 1..Len(entries) : entries[j] \in Entries /\ Spanning(entries[j])
      /\ Apart(entries)
  BY <1>1, EntriesAre DEF Preparing
<1>3. Nested(entries)
  BY <1>2 DEF Apart, Nested, Fits
<1>4. ASSUME NEW i \in 1..Len(code.listing),
             IsHandler(code, code.listing[i].start), IsEmptyHandler(code, code.listing[i].start)
      PROVE  HasBody(code.listing[i].start) \/ \E s \in synth' : Leads(s, code.listing[i].start)
  <2> DEFINE o == code.listing[i]
             off == o.start
  <2>1. code \in Codes /\ HandlersWritten(code) /\ i \in DOMAIN code.listing
    BY HandlersAssumption, ListingIs DEF Following, Prepared
  <2>2. CASE \E k \in 1..Len(entries) : Leads(entries[k], off)
    BY <1>2, <2>2 DEF HasBody, Spanning
  <2>3. CASE \A k \in 1..Len(entries) : ~Leads(entries[k], off)
    <3>1. ~\E m \in DOMAIN code.listing : Leads(code.listing[m], off)
      BY <1>1, <2>3, ListingIs, LeadsToo DEF Preparing, AllListed
    <3>2. /\ o.lasti /\ OpIn(code, o.target) = "COPY" /\ IsEmptyBody(code, off)
      BY <1>4, <2>1, <3>1 DEF HandlersWritten
    <3>3. PICK j \in 1..Len(entries) : entries[j] = o
      BY <1>1, <3>2 DEF Preparing, AllListed, StandsFor
    <3>4. ~IsBodyTarget(off)
      BY <1>2, <2>3 DEF IsBodyTarget, Leads
    <3>5. BehindEmptyBody(o)
      BY <1>4, <2>1, <3>2, <3>4, OpIs DEF BehindEmptyBody, IsEmptyBody, IsHandler
    <3>6. \A n \in 1..3 : HandlerOp(o, n) = BareHandler[n]
      <4>1. off + 1 * SW = off + SW
        BY DEF SW
      <4>2. /\ HandlerOp(o, 1) = "POP_TOP" /\ HandlerOp(o, 2) = "POP_EXCEPT"
            /\ HandlerOp(o, 3) = "JUMP_FORWARD"
        BY <1>4, <2>1, <3>2, <4>1, OpIs DEF HandlerOp, IsEmptyHandler, IsEmptyBody
      <4> QED
        BY <4>2 DEF BareHandler
    <3>7. Landing(off + 3 * SW) = Landing(off - SW)
      BY <3>2 DEF IsEmptyBody, Landing, LandingIn, ArgAt
    <3>8. j \in Orphans
      BY <1>2, <3>3, <3>5, <3>6, <3>7 DEF Orphans, IsOrphan
    <3> QED
      BY <1>1, <3>3, <3>8, BodyIs
  <2> QED
    BY <2>2, <2>3
<1>5. ASSUME NEW s \in synth'
      PROVE  IsAwaited(s)'
  <2>1. PICK j \in Orphans : s = Body(entries[j])
    BY <1>1
  <2>2. /\ s.start = entries[j].start - 4 /\ s.end = s.start + 2
        /\ entries[j].start \in Nat /\ entries[j].start % 2 = 0
        /\ \A k \in 1..Len(entries) : entries[k].start # s.start
    BY <1>1, <2>1, OrphanIs, BodyIs DEF Entries
  <2>3. ASSUME NEW t \in synth', t.start = s.start PROVE t = s
    <3>1. PICK k \in Orphans : t = Body(entries[k])
      BY <1>1
    <3>2. t.start = entries[k].start - 4 /\ entries[k].start \in Nat
      BY <1>1, <3>1, OrphanIs, BodyIs DEF Entries
    <3>3. entries[k].start = entries[j].start
      BY <2>2, <2>3, <3>2
    <3>4. j \in 1..Len(entries) /\ k \in 1..Len(entries)
      BY <1>1, OrphanIs
    <3>5. k = j
      <4>1. \A a, b \in 1..Len(entries) : a < b => entries[a].start < entries[b].start
        <5>1. \A a \in 1..Len(entries) : /\ entries[a].start \in Nat /\ entries[a].end \in Nat
                                         /\ entries[a].start < entries[a].end
          BY <1>2 DEF Spanning, Entries
        <5>2. \A a, b \in 1..Len(entries) : a < b => entries[a].end <= entries[b].start
          BY <1>2 DEF Apart
        <5> QED
          BY <5>1, <5>2
      <4>2. ~(k < j) /\ ~(j < k)
        BY <2>2, <3>3, <3>4, <4>1
      <4> QED
        BY <1>2, <3>4, <4>2
    <3> QED
      BY <2>1, <3>1, <3>5
  <2> QED
    BY <1>1, <2>2, <2>3 DEF IsAwaited
<1> QED
  BY <1>1, <1>2, <1>3, <1>4, <1>5 DEF Preparing, Nested, Provided, HasBody

LEMMA Evens ==
  ASSUME NEW a \in Nat, NEW b \in Nat, a % 2 = 0, b % 2 = 0
  PROVE  (a + 2) % 2 = 0 /\ (a < b => a + 2 <= b)
<1> DEFINE h == a \div 2
           k == b \div 2
<1>1. h \in Nat /\ k \in Nat /\ a = 2 * h /\ b = 2 * k
  OBVIOUS
<1> HIDE DEF h, k
<1>2. (2 * (h + 1)) % 2 = 0 /\ (2 * h < 2 * k => 2 * h + 2 <= 2 * k)
  BY <1>1
<1>3. a + 2 = 2 * (h + 1)
  BY <1>1
<1> QED
  BY <1>1, <1>2, <1>3

\* A range of one instruction put in where it belongs.
LEMMA InsertedNested ==
  ASSUME entries \in Seq(Entries), Sorted(entries), Nested(entries),
         \A j \in 1..Len(entries) : Spanning(entries[j]),
         NEW s \in Entries, s.start % 2 = 0, s.end = s.start + 2,
         \A j \in 1..Len(entries) : entries[j].start # s.start,
         NEW p \in 1..(Len(entries) + 1), IsPlace(p, s)
  PROVE  /\ Nested(Inserted(p, s))
         /\ \A k \in 1..(Len(entries) + 1) : Spanning(Inserted(p, s)[k])
         /\ Len(Inserted(p, s)) = Len(entries) + 1
<1> DEFINE n == Len(entries)
           I == Inserted(p, s)
<1>1. /\ n \in Nat /\ DOMAIN entries = 1..n /\ p \in 1..(n + 1)
      /\ I \in Seq(Entries) /\ Len(I) = n + 1
      /\ \A j \in 1..n : entries[j] \in Entries
  BY Lengths, InsertedTyped, LenProperties
<1>2. \A k \in 1..(n + 1) : /\ k < p => I[k] = entries[k] /\ k \in 1..n
                            /\ k = p => I[k] = s
                            /\ k > p => I[k] = entries[k - 1] /\ k - 1 \in 1..n
  BY <1>1 DEF Inserted
<1>3. Spanning(s)
  <2>1. s.start \in Nat
    BY DEF Entries
  <2>2. (s.start + 2) % 2 = 0
    BY <2>1, Evens
  <2> QED
    BY <2>1, <2>2 DEF Spanning
<1>4. ASSUME NEW j \in 1..n, j < p
      PROVE  Fits(entries[j], s)
  <2>1. j \in 1..(p - 1)
    BY <1>1, <1>4
  <2>2. entries[j].start < s.start
    BY <1>1, <2>1 DEF IsPlace, Before, Entries
  <2>3. /\ entries[j].end % 2 = 0 /\ entries[j].end \in Nat /\ entries[j].start \in Nat
        /\ s.start \in Nat
    BY <1>1 DEF Spanning, Entries
  <2>4. s.start < entries[j].end => s.start + 2 <= entries[j].end
    BY <2>3, Evens, Zenon
  <2>5. entries[j].end <= s.start \/ s.start < entries[j].end
    BY <2>3
  <2> QED
    BY <2>2, <2>3, <2>4, <2>5 DEF Fits
<1>5. ASSUME NEW j \in 1..n, j >= p
      PROVE  Fits(s, entries[j])
  <2>1. p \in 1..n /\ ~Before(entries[p], s)
    BY <1>1, <1>5 DEF IsPlace
  <2>2. /\ entries[p].start \in Nat /\ entries[j].start \in Nat /\ s.start \in Nat
        /\ entries[j].start % 2 = 0 /\ entries[p].start # s.start
    BY <1>1, <2>1 DEF Spanning, Entries
  <2>3. s.start < entries[p].start
    BY <2>1, <2>2 DEF Before
  <2>4. entries[p].start <= entries[j].start
    BY SMTT(30), <1>1, <1>5, <2>1, <2>2 DEF Sorted
  <2>5. s.start < entries[j].start
    BY <2>2, <2>3, <2>4
  <2>6. s.start + 2 <= entries[j].start
    BY <2>2, <2>5, Evens
  <2> QED
    BY <2>6 DEF Fits
<1>6. \A i, j \in 1..n : i < j => Fits(entries[i], entries[j])
  BY DEF Nested
<1> HIDE DEF I, n
<1>7. ASSUME NEW k \in 1..(n + 1), NEW l \in 1..(n + 1), k < l
      PROVE  Fits(I[k], I[l])
  <2>1. CASE l < p
    BY <1>1, <1>2, <1>6, <1>7, <2>1
  <2>2. CASE l = p
    BY <1>1, <1>2, <1>4, <1>7, <2>2
  <2>3. CASE k < p /\ p < l
    <3>1. I[k] = entries[k] /\ I[l] = entries[l - 1] /\ k \in 1..n /\ l - 1 \in 1..n /\ k < l - 1
      BY <1>1, <1>2, <1>7, <2>3
    <3> QED
      BY <1>6, <3>1
  <2>4. CASE k = p
    <3>1. I[k] = s /\ I[l] = entries[l - 1] /\ l - 1 \in 1..n /\ l - 1 >= p
      BY <1>1, <1>2, <1>7, <2>4
    <3> QED
      BY <1>5, <3>1
  <2>5. CASE k > p
    <3>1. /\ I[k] = entries[k - 1] /\ I[l] = entries[l - 1]
          /\ k - 1 \in 1..n /\ l - 1 \in 1..n /\ k - 1 < l - 1
      BY <1>1, <1>2, <1>7, <2>5
    <3> QED
      BY <1>6, <3>1
  <2> QED
    BY <1>1, <1>7, <2>1, <2>2, <2>3, <2>4, <2>5
<1>8. ASSUME NEW k \in 1..(n + 1)
      PROVE  Spanning(I[k])
  BY <1>1, <1>2, <1>3, <1>8 DEF n
<1> QED
  BY <1>1, <1>7, <1>8 DEF Nested, I, n

\* What was there is there still, and so is what was put in.
LEMMA InsertedHas ==
  ASSUME entries \in Seq(Entries), NEW s \in Entries, NEW p \in 1..(Len(entries) + 1)
  PROVE  /\ \E k \in 1..(Len(entries) + 1) : Inserted(p, s)[k] = s
         /\ \A j \in 1..Len(entries) : \E k \in 1..(Len(entries) + 1) :
              Inserted(p, s)[k] = entries[j]
         /\ \A k \in 1..(Len(entries) + 1) :
              \/ Inserted(p, s)[k] = s
              \/ \E j \in 1..Len(entries) : Inserted(p, s)[k] = entries[j]
<1> DEFINE n == Len(entries)
           I == Inserted(p, s)
<1>1. n \in Nat /\ p \in 1..(n + 1)
  BY Lengths
<1>2. \A k \in 1..(n + 1) : /\ k < p => I[k] = entries[k] /\ k \in 1..n
                            /\ k = p => I[k] = s
                            /\ k > p => I[k] = entries[k - 1] /\ k - 1 \in 1..n
  BY <1>1 DEF Inserted
<1> HIDE DEF I
<1>3. \A j \in 1..n : \E k \in 1..(n + 1) : I[k] = entries[j]
  <2> SUFFICES ASSUME NEW j \in 1..n PROVE \E k \in 1..(n + 1) : I[k] = entries[j]
    OBVIOUS
  <2>1. CASE j < p
    <3>1. j \in 1..(n + 1)
      BY <1>1
    <3> QED
      BY <1>2, <2>1, <3>1
  <2>2. CASE j >= p
    <3>1. j + 1 \in 1..(n + 1) /\ j + 1 > p /\ (j + 1) - 1 = j
      BY <1>1, <2>2
    <3>2. I[j + 1] = entries[j]
      BY <1>2, <3>1
    <3> QED
      BY <3>1, <3>2
  <2> QED
    BY <1>1, <2>1, <2>2
<1>4. \A k \in 1..(n + 1) : I[k] = s \/ \E j \in 1..n : I[k] = entries[j]
  <2> SUFFICES ASSUME NEW k \in 1..(n + 1), k # p PROVE \E j \in 1..n : I[k] = entries[j]
    BY <1>2
  <2>1. k < p \/ k > p
    BY <1>1
  <2> QED
    BY <1>2, <2>1
<1> QED
  BY <1>1, <1>2, <1>3, <1>4 DEF I

LEMMA InsertPrepares ==
  ASSUME Following, code.whole, Preparing, Insert
  PROVE  Preparing'
<1>1. PICK s \in synth, p \in 1..(Len(entries) + 1) :
        IsPlace(p, s) /\ entries' = Inserted(p, s) /\ synth' = synth \ {s}
  BY DEF Insert
<1>2. /\ pc = "insert" /\ pc' = "insert" /\ code' = code
      /\ \A j \in 1..Len(entries) : Spanning(entries[j])
      /\ Nested(entries) /\ Provided /\ \A t \in synth : IsAwaited(t)
  BY DEF Insert, Preparing
<1>3. /\ entries \in Seq(Entries) /\ Len(entries) \in Nat /\ DOMAIN entries = 1..Len(entries)
      /\ Sorted(entries) /\ s \in Entries
  BY <1>2, EntriesAre DEF Following, Prepared, TypeOK
<1>4. /\ Nested(entries') /\ Len(entries') = Len(entries) + 1
      /\ \A k \in 1..Len(entries') : Spanning(entries'[k])
  BY <1>1, <1>2, <1>3, InsertedNested DEF IsAwaited
<1>5. DOMAIN entries' = 1..Len(entries')
  BY <1>1, <1>3, <1>4, InsertedTyped
<1>6. /\ \E k \in 1..Len(entries') : entries'[k] = s
      /\ \A j \in 1..Len(entries) : \E k \in 1..Len(entries') : entries'[k] = entries[j]
      /\ \A k \in 1..Len(entries') :
           entries'[k] = s \/ \E j \in 1..Len(entries) : entries'[k] = entries[j]
  <2>1. /\ \E k \in 1..(Len(entries) + 1) : Inserted(p, s)[k] = s
        /\ \A j \in 1..Len(entries) : \E k \in 1..(Len(entries) + 1) :
             Inserted(p, s)[k] = entries[j]
        /\ \A k \in 1..(Len(entries) + 1) :
             \/ Inserted(p, s)[k] = s
             \/ \E j \in 1..Len(entries) : Inserted(p, s)[k] = entries[j]
    BY <1>3, InsertedHas, Zenon
  <2> QED
    BY <1>1, <1>4, <2>1, Zenon
<1>7. ASSUME NEW t \in synth'
      PROVE  IsAwaited(t)'
  <2>1. t \in synth /\ t # s /\ IsAwaited(t) /\ IsAwaited(s)
    BY <1>1, <1>2
  <2>2. t.start # s.start
    BY <2>1 DEF IsAwaited
  <2>3. \A k \in 1..Len(entries') : entries'[k].start # t.start
    BY SMTT(30), <1>6, <2>1, <2>2 DEF IsAwaited
  <2> QED
    BY <1>1, <2>1, <2>3 DEF IsAwaited
<1>8. ASSUME NEW off, HasBody(off) \/ \E t \in synth : Leads(t, off)
      PROVE  HasBody(off)' \/ \E t \in synth' : Leads(t, off)
  <2>1. CASE HasBody(off)
    <3>1. PICK j \in 1..Len(entries) : Leads(entries[j], off)
      BY <1>3, <2>1 DEF HasBody
    <3>2. PICK k \in 1..Len(entries') : entries'[k] = entries[j]
      BY <1>6
    <3> QED
      BY <1>4, <1>5, <3>1, <3>2 DEF HasBody, Spanning
  <2>2. CASE Leads(s, off)
    <3>1. PICK k \in 1..Len(entries') : entries'[k] = s
      BY <1>6
    <3> QED
      BY <1>4, <1>5, <2>2, <3>1 DEF HasBody, Spanning
  <2> QED
    BY <1>1, <1>8, <2>1, <2>2
<1>9. Provided'
  BY <1>2, <1>8 DEF Provided
<1> QED
  BY <1>2, <1>4, <1>7, <1>9 DEF Preparing

\* What erasing leaves.
LEMMA ErasePrepares ==
  ASSUME Following, code.whole, Preparing, EraseAsyncFor
  PROVE  Preparing'
<1>1. PICK i \in AsyncFors : entries' = Removed(i)
  BY DEF EraseAsyncFor
<1>2. /\ pc = "insert" /\ pc' = "insert" /\ code' = code /\ synth = {} /\ synth' = {}
      /\ \A j \in 1..Len(entries) : Spanning(entries[j])
      /\ Nested(entries) /\ Provided
  BY DEF EraseAsyncFor, Preparing
<1> DEFINE n == Len(entries)
           R == Removed(i)
<1>3. /\ entries \in Seq(Entries) /\ n \in Nat /\ DOMAIN entries = 1..n
      /\ i \in 1..n /\ OpAt(entries[i].target) = "END_ASYNC_FOR"
  BY <1>2, EntriesAre DEF AsyncFors
<1>4. R \in Seq(Entries) /\ Len(R) = n - 1 /\ DOMAIN R = 1..(n - 1)
  <2>1. R \in Seq(Entries)
    BY <1>3, RemovedKept
  <2>2. DOMAIN R = 1..(n - 1)
    BY DEF Removed
  <2>3. n - 1 \in Nat /\ R \in [1..(n - 1) -> Entries]
    <3>1. R \in [DOMAIN R -> Entries]
      BY <2>1
    <3> QED
      BY <1>3, <2>2, <3>1
  <2> QED
    BY <2>3, SeqOfEntries
<1>5. \A k \in 1..(n - 1) : /\ k < i => R[k] = entries[k] /\ k \in 1..n
                            /\ ~(k < i) => R[k] = entries[k + 1] /\ k + 1 \in 1..n
  BY <1>3 DEF Removed
<1> HIDE DEF R
<1>6. \A k \in 1..(n - 1) : Spanning(R[k])
  BY <1>2, <1>5
<1>7. Nested(R)
  <2> SUFFICES ASSUME NEW k \in 1..(n - 1), NEW l \in 1..(n - 1), k < l
               PROVE  Fits(R[k], R[l])
    BY <1>4 DEF Nested
  <2>1. \A a, b \in 1..n : a < b => Fits(entries[a], entries[b])
    BY <1>2 DEF Nested
  <2>2. CASE l < i
    BY <1>3, <1>5, <2>1, <2>2
  <2>3. CASE k < i /\ ~(l < i)
    <3>1. R[k] = entries[k] /\ R[l] = entries[l + 1] /\ k < l + 1
          /\ k \in 1..n /\ l + 1 \in 1..n
      BY <1>3, <1>5, <2>3
    <3> QED
      BY <2>1, <3>1
  <2>4. CASE ~(k < i)
    <3>1. R[k] = entries[k + 1] /\ R[l] = entries[l + 1] /\ k + 1 < l + 1
          /\ k + 1 \in 1..n /\ l + 1 \in 1..n
      BY <1>3, <1>5, <2>4
    <3> QED
      BY <2>1, <3>1
  <2> QED
    BY <1>3, <2>2, <2>3, <2>4
<1>8. ASSUME NEW off, IsHandler(code, off), HasBody(off)
      PROVE  HasBody(off)'
  <2>1. PICK j \in 1..n : Leads(entries[j], off)
    BY <1>3, <1>8 DEF HasBody
  <2>2. j # i
    <3>1. code \in Codes
      BY DEF Following, Prepared
    <3>2. OpAt(off) = "PUSH_EXC_INFO"
      BY <1>8, <3>1, OpIs DEF IsHandler
    <3> QED
      BY <1>3, <2>1, <3>2 DEF Leads
  <2>3. \E k \in 1..(n - 1) : R[k] = entries[j]
    <3>1. CASE j < i
      <4>1. j \in 1..(n - 1)
        BY <1>3, <3>1
      <4> QED
        BY <1>5, <3>1, <4>1
    <3>2. CASE j > i
      <4>1. j - 1 \in 1..(n - 1) /\ ~(j - 1 < i) /\ (j - 1) + 1 = j
        BY <1>3, <3>2
      <4>2. R[j - 1] = entries[j]
        BY <1>5, <4>1
      <4> QED
        BY <4>1, <4>2
    <3> QED
      BY <1>3, <2>2, <3>1, <3>2
  <2> QED
    BY <1>1, <1>4, <1>6, <2>1, <2>3 DEF HasBody, Spanning, R
<1>9. Provided'
  <2> SUFFICES ASSUME NEW m \in 1..Len(code.listing),
                      IsHandler(code, code.listing[m].start),
                      IsEmptyHandler(code, code.listing[m].start)
               PROVE  HasBody(code.listing[m].start)'
    BY <1>2 DEF Provided
  <2> QED
    BY <1>2, <1>8 DEF Provided
<1> QED
  BY <1>1, <1>2, <1>4, <1>6, <1>7, <1>9 DEF Preparing, R

\* Nothing throws, and the other steps leave what is prepared alone.
LEMMA PreparesOn ==
  ASSUME Following, code.whole, Preparing,
         MoreBits \/ EndNumber \/ EndEntry \/ Throw \/ OrphanThrows \/ Done \/ UNCHANGED vars
  PROVE  Preparing'
<1>1. CASE MoreBits \/ EndNumber \/ EndEntry
  <2>1. pc' = "read"
    BY <1>1 DEF MoreBits, EndNumber, EndEntry, ReadByte
  <2> QED
    BY <2>1 DEF Preparing
<1>2. CASE Throw
  <2>1. IsWritten(code)
    BY DEF IsWritten
  <2>2. ~Inside
    BY <1>2, <2>1, EndIs DEF Throw
  <2> QED
    BY <1>2, <2>2 DEF Throw
<1>3. CASE OrphanThrows
  <2>1. pc = "merge" /\ DOMAIN entries = 1..Len(entries)
    BY <1>3, EntriesAre DEF OrphanThrows
  <2> QED
    BY <1>3, <2>1, NoneRunsOut DEF OrphanThrows
<1>4. CASE Done
  <2>1. /\ pc = "insert" /\ pc' = "done" /\ synth = {}
        /\ UNCHANGED <<code, entries, synth>>
    BY <1>4 DEF Done
  <2> QED
    BY <2>1 DEF Preparing, Nested, Provided, HasBody
<1>5. CASE UNCHANGED vars
  BY <1>5 DEF vars, Preparing, AllListed, Nested, Provided, HasBody, IsAwaited
<1> QED
  BY <1>1, <1>2, <1>3, <1>4, <1>5

LEMMA CompiledAlways == Spec => []Compiled
<1>1. Init => Compiled
  BY FollowingInit DEF Init, Compiled, Preparing
<1>2. ASSUME Compiled, [Next]_vars PROVE Compiled'
  <2>1. Following /\ Following' /\ (code.whole => Preparing)
    BY <1>2, FollowingNext DEF Compiled
  <2>2. code' = code
    BY <1>2 DEF Next, vars, MoreBits, EndNumber, EndEntry, ReadByte, EndTable, Throw, Merge,
                Synthesize, OrphanThrows, Insert, EraseAsyncFor, Done
  <2>3. ASSUME code.whole PROVE Preparing'
    BY <1>2, <2>1, <2>3, EndTablePrepares, MergePrepares, SynthesizePrepares,
       InsertPrepares, ErasePrepares, PreparesOn, Zenon DEF Next
  <2> QED
    BY <2>1, <2>2, <2>3 DEF Compiled
<1> QED
  BY <1>1, <1>2, PTL DEF Spec

----------------------------------------------------------------------------
(* The theorems                                                              *)

(* Whatever the bytes of the table and the code: what is read and prepared are *)
(* entries, none of which starts before the code.                              *)
THEOREM TypeCorrect == Spec => []TypeOK
<1>1. Prepared => TypeOK
  BY DEF Prepared
<1> QED
  BY <1>1, PreparedAlways, PTL

(* Of any table whose ranges are apart and in order, the entries that the      *)
(* block machine gets are in order of their starts.                            *)
THEOREM StaysInOrder == Spec => []InOrder
<1>1. Prepared => InOrder
  BY DEF Prepared
<1> QED
  BY <1>1, PreparedAlways, PTL

(* On any code, merging the ranges of such a table leaves each instruction the *)
(* handlers it had, save that one which cannot raise may get its first.        *)
THEOREM CoverageIsKept == Spec => []CoverageKept
<1>1. Prepared => CoverageKept
  BY DEF Prepared
<1> QED
  BY <1>1, PreparedAlways, PTL

(* Of any table that a compiler wrote, with numbers of any length, the entries *)
(* read are those it was written from; what is cut inside an entry throws.     *)
THEOREM ReadBackAsListed == Spec => []ReadsBack
<1>1. Following => ReadsBack
  BY DEF Following, Midway, ReadsBack
<1> QED
  BY <1>1, FollowingAlways, PTL

(* In compiled code of any length, with any number of tries in one another,    *)
(* each empty body before an except that does nothing gets its range, and no   *)
(* range crosses another: merging, inserting and erasing go together.          *)
THEOREM BodiesAreFound == Spec => []EmptyBodiesFound
<1>1. Compiled => EmptyBodiesFound
  <2> SUFFICES ASSUME Following, code.whole, Preparing PROVE EmptyBodiesFound
    BY DEF Compiled, EmptyBodiesFound
  <2>1. pc # "thrown"
    BY DEF Preparing
  <2>2. ASSUME pc = "done"
        PROVE  /\ \A i, j \in DOMAIN entries : i < j => Fits(entries[i], entries[j])
               /\ \A j \in DOMAIN original :
                    IsHandler(code, original[j].start) /\ IsEmptyHandler(code, original[j].start)
                      => HasBody(original[j].start)
    <3>1. Nested(entries) /\ Provided /\ synth = {}
      BY <2>2 DEF Preparing
    <3>2. /\ DOMAIN entries = 1..Len(entries) /\ original = code.listing
          /\ DOMAIN code.listing = 1..Len(code.listing)
      BY <2>2, EntriesAre, ListingIs
    <3> QED
      BY <3>1, <3>2 DEF Nested, Provided
  <2> QED
    BY <2>1, <2>2 DEF EmptyBodiesFound, Fits
<1> QED
  BY <1>1, CompiledAlways, PTL

----------------------------------------------------------------------------
(* Preparing comes to an end.                                                *)

\* What is left to do: bytes to read, each of which may add an entry; entries to
\* merge, each of which may ask for one more; entries to insert and to erase.
Unread == Len(code.table) - at
Left == CASE pc = "read"   -> 4 * Unread + 3 * Len(entries) + 3
          [] pc = "merge"  -> 3 * Len(entries) + 2
          [] pc = "insert" -> 2 * Cardinality(synth) + Len(entries) + 1
          [] OTHER         -> 0

LEMMA LeftIs ==
  /\ pc = "read"   => Left = 4 * Unread + 3 * Len(entries) + 3
  /\ pc = "merge"  => Left = 3 * Len(entries) + 2
  /\ pc = "insert" => Left = 2 * Cardinality(synth) + Len(entries) + 1
  /\ pc \in {"done", "thrown"} => Left = 0
BY DEF Left

LEMMA LeftThen ==
  /\ pc' = "read"   => Left' = 4 * Unread' + 3 * Len(entries') + 3
  /\ pc' = "merge"  => Left' = 3 * Len(entries') + 2
  /\ pc' = "insert" => Left' = 2 * Cardinality(synth') + Len(entries') + 1
  /\ pc' \in {"done", "thrown"} => Left' = 0
BY DEF Left

LEMMA Counted ==
  ASSUME Prepared, IsFiniteSet(synth)
  PROVE  /\ Unread \in Nat
         /\ entries \in Seq(Entries) /\ Len(entries) \in Nat
         /\ Cardinality(synth) \in Nat /\ Left \in Nat
<1>1. /\ code.table \in Seq(Byte) /\ entries \in Seq(Entries) /\ at \in 0..Len(code.table)
      /\ pc \in {"read", "merge", "insert", "done", "thrown"}
  BY CodesAssumption DEF Prepared, TypeOK
<1>2. Len(code.table) \in Nat /\ Len(entries) \in Nat /\ Cardinality(synth) \in Nat
  BY <1>1, LenProperties, FS_CardinalityType
<1>3. Unread \in Nat
  BY <1>1, <1>2 DEF Unread
<1>4. Left \in Nat
  BY <1>1, <1>2, <1>3, LeftIs
<1> QED
  BY <1>1, <1>2, <1>3, <1>4

\* No more bodies than entries.
LEMMA FewBodies ==
  ASSUME entries \in Seq(Entries)
  PROVE  /\ IsFiniteSet({Body(entries[j]) : j \in Orphans})
         /\ Cardinality({Body(entries[j]) : j \in Orphans}) <= Len(entries)
<1> DEFINE T == {Body(entries[j]) : j \in Orphans}
           f == [j \in Orphans |-> Body(entries[j])]
<1>1. Len(entries) \in Nat /\ DOMAIN entries = 1..Len(entries)
  BY Lengths
<1>2. IsFiniteSet(1..Len(entries)) /\ Cardinality(1..Len(entries)) = Len(entries)
  BY <1>1, FS_Interval
<1>3. Orphans \in SUBSET (1..Len(entries))
  BY <1>1 DEF Orphans
<1>4. IsFiniteSet(Orphans) /\ Cardinality(Orphans) <= Len(entries) /\ Cardinality(Orphans) \in Nat
  BY <1>2, <1>3, FS_Subset, FS_CardinalityType
<1>5. f \in Surjection(Orphans, T)
  BY DEF Surjection
<1>6. IsFiniteSet(T) /\ Cardinality(T) <= Cardinality(Orphans) /\ Cardinality(T) \in Nat
  BY <1>4, <1>5, FS_Surjection, FS_CardinalityType
<1> QED
  BY <1>1, <1>4, <1>6

LEMMA ReadsOn ==
  ASSUME Prepared, IsFiniteSet(synth), MoreBits \/ EndNumber \/ EndEntry
  PROVE  synth' = synth /\ Left' < Left
<1>1. /\ pc = "read" /\ pc' = "read" /\ ~atEof /\ at' = at + 1 /\ code' = code /\ synth' = synth
      /\ entries' = entries \/ \E e : entries' = Append(entries, e)
  BY DEF MoreBits, EndNumber, EndEntry, ReadByte
<1>2. /\ Unread \in Nat
      /\ entries \in Seq(Entries) /\ Len(entries) \in Nat
  BY Counted
<1>3. \A S : \A s \in Seq(S) : \A x : Len(Append(s, x)) = Len(s) + 1
  OBVIOUS
<1>4. Len(entries') \in {Len(entries), Len(entries) + 1}
  BY <1>1, <1>2, <1>3
<1>5. Unread' = Unread - 1 /\ Unread' \in Nat
  <2>1. Len(code.table) \in Nat /\ at \in 0..Len(code.table) /\ at # Len(code.table)
    BY <1>1, CodesAssumption, LenProperties DEF Prepared, TypeOK, atEof
  <2> QED
    BY <1>1, <2>1 DEF Unread
<1> QED
  BY <1>1, <1>2, <1>4, <1>5, LeftIs, LeftThen

LEMMA MergesOn ==
  ASSUME Prepared, IsFiniteSet(synth), EndTable \/ Merge \/ Synthesize
  PROVE  IsFiniteSet(synth') /\ Left' < Left
<1>1. /\ Unread \in Nat
      /\ entries \in Seq(Entries) /\ Len(entries) \in Nat
  BY Counted
<1>2. CASE EndTable
  <2>1. pc = "read" /\ pc' = "merge" /\ UNCHANGED <<synth, entries>>
    BY <1>2 DEF EndTable
  <2> QED
    BY <1>1, <2>1, LeftIs, LeftThen
<1>3. CASE Merge
  <2>1. pc = "merge" /\ pc' = "merge" /\ synth' = synth
    BY <1>3 DEF Merge
  <2>2. PICK i \in 1..(Len(entries) - 1) : entries' = Merged(i)
    BY <1>3 DEF Merge, MayMerge
  <2>3. Len(entries') = Len(entries) - 1
    BY <1>1, <2>2, MergedTyped, SeqOfEntries
  <2> QED
    BY <1>1, <2>1, <2>3, LeftIs, LeftThen
<1>4. CASE Synthesize
  <2>1. /\ pc = "merge" /\ pc' = "insert" /\ entries' = entries
        /\ synth' = {Body(entries[j]) : j \in Orphans}
    BY <1>4 DEF Synthesize
  <2>2. IsFiniteSet(synth') /\ Cardinality(synth') <= Len(entries)
    BY <1>1, <2>1, FewBodies
  <2>3. Cardinality(synth') \in Nat
    BY <2>2, FS_CardinalityType
  <2> QED
    BY <1>1, <2>1, <2>2, <2>3, LeftIs, LeftThen
<1> QED
  BY <1>2, <1>3, <1>4

LEMMA InsertsOn ==
  ASSUME Prepared, IsFiniteSet(synth), Insert \/ EraseAsyncFor
  PROVE  IsFiniteSet(synth') /\ Left' < Left
<1>1. entries \in Seq(Entries) /\ Len(entries) \in Nat /\ Cardinality(synth) \in Nat
  BY Counted
<1>2. pc = "insert" /\ pc' = "insert"
  BY DEF Insert, EraseAsyncFor
<1>3. CASE Insert
  <2>1. PICK s \in synth, p \in 1..(Len(entries) + 1) :
          entries' = Inserted(p, s) /\ synth' = synth \ {s}
    BY <1>3 DEF Insert
  <2>2. Len(entries') = Len(entries) + 1
    <3>1. s \in Entries
      BY DEF Prepared, TypeOK
    <3>2. Inserted(p, s) \in Seq(Entries) /\ DOMAIN Inserted(p, s) = 1..(Len(entries) + 1)
      BY <1>1, <3>1, InsertedTyped
    <3> QED
      BY <1>1, <2>1, <3>2, Lengths
  <2>3. IsFiniteSet(synth') /\ Cardinality(synth') = Cardinality(synth) - 1
    BY <2>1, FS_RemoveElement
  <2> QED
    BY <1>1, <1>2, <2>2, <2>3, LeftIs, LeftThen
<1>4. CASE EraseAsyncFor
  <2>1. synth' = synth
    BY <1>4 DEF EraseAsyncFor
  <2>2. PICK i \in 1..Len(entries) : entries' = Removed(i)
    BY <1>4 DEF EraseAsyncFor, AsyncFors
  <2>3. Len(entries') = Len(entries) - 1
    <3>1. Len(entries) - 1 \in Nat /\ Removed(i) \in Seq(Entries)
      BY <1>1, <2>2, RemovedKept
    <3>2. DOMAIN Removed(i) = 1..(Len(entries) - 1)
      BY DEF Removed
    <3> QED
      BY <2>2, <3>1, <3>2, Lengths
  <2> QED
    BY <1>1, <1>2, <2>1, <2>3, LeftIs, LeftThen
<1> QED
  BY <1>3, <1>4

LEMMA StopsOn ==
  ASSUME Prepared, IsFiniteSet(synth), Throw \/ OrphanThrows \/ Done
  PROVE  synth' = synth /\ Left' < Left
<1>1. /\ Unread \in Nat
      /\ Len(entries) \in Nat /\ Cardinality(synth) \in Nat
  BY Counted
<1>2. /\ pc \in {"read", "merge", "insert"} /\ pc' \in {"done", "thrown"} /\ synth' = synth
  BY DEF Throw, OrphanThrows, Done
<1> QED
  BY <1>1, <1>2, LeftIs, LeftThen

\* Merging starts over after each pair, inserting looks for a place each time, and
\* erasing starts from the first entry (CodeBuilder::build), but none of them goes
\* round: each round leaves fewer entries to deal with, on any table and code.
THEOREM EveryStepAdvances == Spec => [](Left \in Nat) /\ [][Left' < Left]_vars
<1>1. Init => IsFiniteSet(synth)
  BY FS_EmptySet DEF Init
<1>2. Prepared /\ IsFiniteSet(synth) => Left \in Nat
  BY Counted
<1>3. Prepared /\ IsFiniteSet(synth) /\ [Next]_vars => IsFiniteSet(synth)' /\ [Left' < Left]_vars
  <2> SUFFICES ASSUME Prepared, IsFiniteSet(synth), [Next]_vars
               PROVE  IsFiniteSet(synth') /\ [Left' < Left]_vars
    OBVIOUS
  <2>1. CASE Next
    BY <2>1, ReadsOn, MergesOn, InsertsOn, StopsOn, Zenon DEF Next
  <2>2. CASE UNCHANGED vars
    BY <2>2 DEF vars
  <2> QED
    BY <2>1, <2>2
<1> QED
  BY <1>1, <1>2, <1>3, PreparedAlways, PTL DEF Spec
=============================================================================
