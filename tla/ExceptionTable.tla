-------------------------- MODULE ExceptionTable --------------------------
(***************************************************************************)
(* The exception table of a 3.11 code object, as PycCode reads it          *)
(* (exceptionTableEntries) and as CodeBuilder prepares it for the block    *)
(* machine: ranges of one handler that a return divides are put together,  *)
(* handlers of empty try bodies get a range, those of async for lose it.   *)
(*                                                                         *)
(* Numbers of the table are not cut to 32 bits, and the code is a sequence *)
(* of words without EXTENDED_ARG.                                          *)
(***************************************************************************)
EXTENDS Integers, Sequences

CONSTANT Codes
  \* Records with at least "table", bytes, and "words", instructions.

Byte == 0..255

\* RETURN_VALUE also stands for RETURN_CONST and the instrumented forms.
Ops == {"CACHE", "NOP", "LOAD_CONST", "RETURN_VALUE", "PUSH_EXC_INFO", "POP_TOP",
        "POP_EXCEPT", "COPY", "JUMP_FORWARD", "END_ASYNC_FOR", "other"}

Word == [op : Ops, arg : Nat]

ASSUME CodesAssumption ==
  \A c \in Codes : c.table \in Seq(Byte) /\ c.words \in Seq(Word)

VARIABLES
  code,
  at,       \* the position in the table
  number,   \* the bits of the number read so far, and
  more,     \*   whether it goes on
  numbers,  \* the numbers of the entry read so far
  entries,  \* exception_entries
  original, \* the entries as they were read: no variable of the code
  synth,    \* entries still to be inserted
  pc        \* "read", "merge", "insert", "done", "thrown"

vars == <<code, at, number, more, numbers, entries, original, synth, pc>>

----------------------------------------------------------------------------
(* Reading                                                                   *)

atEof == at = Len(code.table)

Current == code.table[at + 1]

\* Mutant: the first byte's mark counts as one of a byte to come.
Continues_Marked(byte) == byte >= 64

\* b & 0x40
Continues(byte) == (byte \div 64) % 2 = 1

Bits(byte) == (number * 64) + (byte % 64)

Entry(n) ==
  [start |-> 2 * n[1], end |-> 2 * n[1] + 2 * n[2], target |-> 2 * n[3],
   depth |-> n[4] \div 2, lasti |-> n[4] % 2 = 1]

ReadByte ==
  /\ pc = "read"
  /\ ~atEof
  /\ at' = at + 1
  /\ UNCHANGED <<code, original, synth, pc>>

\* A byte of a number that goes on.
MoreBits ==
  /\ ReadByte
  /\ Continues(Current)
  /\ number' = Bits(Current)
  /\ more' = TRUE
  /\ UNCHANGED <<numbers, entries>>

EndNumber ==
  /\ ReadByte
  /\ ~Continues(Current)
  /\ Len(numbers) < 3
  /\ number' = 0
  /\ more' = FALSE
  /\ numbers' = Append(numbers, Bits(Current))
  /\ UNCHANGED entries

\* Mutant: the numbers of the entry stay.
EndEntry_NotReset ==
  /\ ReadByte
  /\ ~Continues(Current)
  /\ Len(numbers) = 3
  /\ number' = 0
  /\ more' = FALSE
  /\ numbers' = Append(numbers, Bits(Current))
  /\ entries' = Append(entries, Entry(numbers'))

EndEntry ==
  /\ ReadByte
  /\ ~Continues(Current)
  /\ Len(numbers) = 3
  /\ number' = 0
  /\ more' = FALSE
  /\ numbers' = <<>>
  /\ entries' = Append(entries, Entry(Append(numbers, Bits(Current))))

Inside == more \/ numbers # <<>>

\* while (!data.atEof())
EndTable ==
  /\ pc = "read"
  /\ atEof
  /\ ~Inside
  /\ pc' = "merge"
  /\ original' = entries
  /\ UNCHANGED <<code, at, number, more, numbers, entries, synth>>

\* getByte() throws.
Throw ==
  /\ pc = "read"
  /\ atEof
  /\ Inside
  /\ pc' = "thrown"
  /\ UNCHANGED <<code, at, number, more, numbers, entries, original, synth>>

----------------------------------------------------------------------------
(* The instructions                                                          *)

SW == 2

Off(k) == SW * (k - 1)

At(off) == off \div SW + 1

\* An opcode that none is, where there is no instruction.
OpAt(off) == IF At(off) \in DOMAIN code.words THEN code.words[At(off)].op ELSE "none"

ArgAt(off) == code.words[At(off)].arg

----------------------------------------------------------------------------
(* Merging                                                                   *)

Inert == {"CACHE", "NOP", "LOAD_CONST", "RETURN_VALUE"}

Gap(from, to) == {k \in DOMAIN code.words : from <= Off(k) /\ Off(k) < to}

\* Mutant: any code up to a return.
gapIsReturnOnly_Ends(from, to) ==
  \E k \in Gap(from, to) : code.words[k].op = "RETURN_VALUE"

gapIsReturnOnly(from, to) ==
  /\ \E k \in Gap(from, to) : code.words[k].op = "RETURN_VALUE"
  /\ \A k \in Gap(from, to) : code.words[k].op \in Inert

\* Neighbours of one try, with a gap between them.
Alike(i) ==
  LET a == entries[i]
      b == entries[i + 1]
  IN /\ ~a.lasti /\ ~b.lasti
     /\ a.target = b.target
     /\ a.depth = b.depth
     /\ b.start > a.end

Mergeable(i) == Alike(i) /\ gapIsReturnOnly(entries[i].end, entries[i + 1].start)

\* setPos checks nothing: a gap behind the end of the code is whatever is there.
ReadsBeyond(i) == Alike(i) /\ entries[i].end > Off(Len(code.words) + 1)

Larger(m, n) == IF m >= n THEN m ELSE n

Joined(a, b) == [a EXCEPT !.end = Larger(a.end, b.end)]

\* The i-th and the one behind it as one.
Merged(i) ==
  [k \in 1..(Len(entries) - 1) |->
     CASE k < i -> entries[k]
       [] k = i -> Joined(entries[i], entries[i + 1])
       [] k > i -> entries[k + 1]]

Candidates == {i \in 1..(Len(entries) - 1) : Mergeable(i)}

MayMerge == {i \in 1..(Len(entries) - 1) : Mergeable(i) \/ ReadsBeyond(i)}

\* Mutant: the pair is left as it is.
Merge_Kept ==
  /\ pc = "merge"
  /\ MayMerge # {}
  /\ UNCHANGED vars

\* One round; the next one starts from the first entry again.
Merge ==
  /\ pc = "merge"
  /\ \E i \in MayMerge :
       /\ \A j \in Candidates : i <= j
       /\ entries' = Merged(i)
  /\ UNCHANGED <<code, at, number, more, numbers, original, synth, pc>>

----------------------------------------------------------------------------
(* Empty bodies                                                              *)

\* Behind PUSH_EXC_INFO in a handler that does nothing.
BareHandler == <<"POP_TOP", "POP_EXCEPT", "JUMP_FORWARD">>

Landing(off) == off + SW + ArgAt(off) * SW

IsBodyTarget(H) == \E j \in DOMAIN entries : ~entries[j].lasti /\ entries[j].target = H

\* A handler with an empty body before it: the part that looks at no more of
\* the handler than its first instruction.
BehindEmptyBody(e) ==
  /\ e.lasti
  /\ OpAt(e.start) = "PUSH_EXC_INFO"
  /\ ~IsBodyTarget(e.start)
  /\ OpAt(e.target) = "COPY"
  /\ e.start >= 2 * SW
  /\ OpAt(e.start - 2 * SW) = "NOP"
  /\ OpAt(e.start - SW) = "JUMP_FORWARD"

HandlerOp(e, n) == OpAt(e.start + n * SW)

\* Mutant: arguments are compared, not the places they lead to.
IsOrphan_SameArg(e) ==
  /\ BehindEmptyBody(e)
  /\ \A n \in 1..3 : HandlerOp(e, n) = BareHandler[n]
  /\ ArgAt(e.start + 3 * SW) = ArgAt(e.start - SW)

IsOrphan(e) ==
  /\ BehindEmptyBody(e)
  /\ \A n \in 1..3 : HandlerOp(e, n) = BareHandler[n]
  /\ Landing(e.start + 3 * SW) = Landing(e.start - SW)

\* bc_next throws behind the last instruction.
RunsOut(e) ==
  /\ BehindEmptyBody(e)
  /\ \E n \in 1..3 : /\ HandlerOp(e, n) = "none"
                     /\ \A m \in 1..(n - 1) : HandlerOp(e, m) = BareHandler[m]

\* The range of the empty body.
Body(e) ==
  [start |-> e.start - 2 * SW, end |-> e.start - SW, target |-> e.start,
   depth |-> IF e.depth > 0 THEN e.depth - 1 ELSE 0, lasti |-> FALSE]

\* The indexes of the entries of orphans, in order.
Orphans == {j \in DOMAIN entries : IsOrphan(entries[j])}

\* No pair is left that has to be merged.
Synthesize ==
  /\ pc = "merge"
  /\ Candidates = {}
  /\ \A j \in DOMAIN entries : ~RunsOut(entries[j])
  /\ synth' = {Body(entries[j]) : j \in Orphans}
  /\ pc' = "insert"
  /\ UNCHANGED <<code, at, number, more, numbers, entries, original>>

OrphanThrows ==
  /\ pc = "merge"
  /\ Candidates = {}
  /\ \E j \in DOMAIN entries : RunsOut(entries[j])
  /\ pc' = "thrown"
  /\ UNCHANGED <<code, at, number, more, numbers, entries, original, synth>>

\* An entry that stays before s.
Before(e, s) == e.start < s.start \/ (e.start = s.start /\ e.end <= s.end)

\* Mutant: at the end.
IsPlace_Last(p, s) == p = Len(entries) + 1

\* The first entry that does not stay before s, or the end.
IsPlace(p, s) ==
  /\ \A j \in 1..(p - 1) : Before(entries[j], s)
  /\ p <= Len(entries) => ~Before(entries[p], s)

Inserted(p, s) ==
  [k \in 1..(Len(entries) + 1) |->
     CASE k < p -> entries[k]
       [] k = p -> s
       [] k > p -> entries[k - 1]]

\* The orphans' ranges are disjoint: their order does not matter.
Insert ==
  /\ pc = "insert"
  /\ \E s \in synth, p \in 1..(Len(entries) + 1) :
       /\ IsPlace(p, s)
       /\ entries' = Inserted(p, s)
       /\ synth' = synth \ {s}
  /\ UNCHANGED <<code, at, number, more, numbers, original, pc>>

----------------------------------------------------------------------------
(* async for                                                                 *)

AsyncFors == {i \in 1..Len(entries) : OpAt(entries[i].target) = "END_ASYNC_FOR"}

Removed(i) ==
  [k \in 1..(Len(entries) - 1) |-> IF k < i THEN entries[k] ELSE entries[k + 1]]

\* Its handler is no except.
EraseAsyncFor ==
  /\ pc = "insert"
  /\ synth = {}
  /\ \E i \in AsyncFors :
       /\ \A j \in AsyncFors : i <= j
       /\ entries' = Removed(i)
  /\ UNCHANGED <<code, at, number, more, numbers, original, synth, pc>>

Done ==
  /\ pc = "insert"
  /\ synth = {}
  /\ AsyncFors = {}
  /\ pc' = "done"
  /\ UNCHANGED <<code, at, number, more, numbers, entries, original, synth>>

----------------------------------------------------------------------------

Init ==
  /\ code \in Codes
  /\ at = 0
  /\ number = 0
  /\ more = FALSE
  /\ numbers = <<>>
  /\ entries = <<>>
  /\ original = <<>>
  /\ synth = {}
  /\ pc = "read"

Next ==
  \/ MoreBits \/ EndNumber \/ EndEntry \/ EndTable \/ Throw
  \/ Merge \/ Synthesize \/ OrphanThrows \/ Insert \/ EraseAsyncFor \/ Done

Spec == Init /\ [][Next]_vars

\* Loops of a sequential program: they run on.
FairSpec == Spec /\ WF_vars(Next)

----------------------------------------------------------------------------
(* Properties                                                                *)

Entries == [start : Nat, end : Nat, target : Nat, depth : Nat, lasti : BOOLEAN]

TypeOK ==
  /\ at \in 0..Len(code.table)
  /\ number \in Nat
  /\ more \in BOOLEAN
  /\ numbers \in Seq(Nat) /\ Len(numbers) < 4
  /\ entries \in Seq(Entries)
  /\ original \in Seq(Entries)
  /\ synth \subseteq Entries
  /\ pc \in {"read", "merge", "insert", "done", "thrown"}

Apart(es) ==
  \A i, j \in DOMAIN es : i < j => es[i].start <= es[i].end /\ es[i].end <= es[j].start

Sorted(es) == \A i, j \in DOMAIN es : i < j => es[i].start <= es[j].start

(* If the ranges of the table are apart and in order, as the compiler writes   *)
(* them, they are so after every merge, and in order after every insertion:    *)
(* the block machine's cursor, next_exception_entry, passes the entries whose  *)
(* start lies behind it and never looks back.                                  *)
InOrder ==
  pc \in {"merge", "insert", "done"} /\ Apart(original) =>
    /\ pc = "merge" => Apart(entries)
    /\ Sorted(entries)

\* The handlers that protect the k-th instruction.
Handlers(es, k) ==
  {<<es[j].target, es[j].depth, es[j].lasti>> :
     j \in {i \in DOMAIN es : es[i].start <= Off(k) /\ Off(k) < es[i].end}}

(* Merging moves no instruction from one handler to another: each keeps the    *)
(* handlers it has in the table, and what gets one had none and cannot raise.  *)
CoverageKept ==
  pc = "merge" /\ Apart(original) =>
    \A k \in DOMAIN code.words :
      \/ Handlers(entries, k) = Handlers(original, k)
      \/ Handlers(original, k) = {} /\ code.words[k].op \in Inert

(* On every table and code, preparing the entries comes to an end.             *)
Ends == <>(pc \in {"done", "thrown"})
=============================================================================
