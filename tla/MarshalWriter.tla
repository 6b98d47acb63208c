--------------------------- MODULE MarshalWriter ---------------------------
(***************************************************************************)
(* The other side of the format: what CPython's marshal.c writes for a     *)
(* graph of objects, by version.  Not part of this repository.             *)
(*                                                                         *)
(* A graph gives each node, named by a string, its type, its bytes, its    *)
(* parts and, for a code object, its fields and numbers.  A node that is   *)
(* "held" is referred to from elsewhere too, so that CPython gives it a    *)
(* place in the reference table.                                           *)
(***************************************************************************)
EXTENDS MarshalListing, SequencesExt

Little(n, width) == [i \in 1..width |-> (n \div (256 ^ (i - 1))) % 256]

HasReferences(v) == NotBefore(v, <<3, 4>>)
HasStringRefs(v) == v.maj = 2 /\ v.min >= 4

IndexIn(s, x) == CHOOSE i \in 1..Len(s) : s[i] = x

\* What is left to write: for piece "in" a part, a number or the mark that ends a
\* dict, and behind its parts its end.
Job(what, in, node, bytes) == [what |-> what, in |-> in, node |-> node, bytes |-> bytes]

Character ==
  [z |-> 122, Z |-> 90, s |-> 115, t |-> 116, u |-> 117, a |-> 97, A |-> 65,
   c |-> 99, C |-> 67, N |-> 78, T |-> 84, F |-> 70, S |-> 83, i |-> 105, I |-> 73,
   f |-> 102, g |-> 103, x |-> 120, y |-> 121, l |-> 108]

CodeOf(type) ==
  CASE type = "(" -> 40 [] type = ")" -> 41 [] type = "[" -> 91
    [] type = "<" -> 60 [] type = ">" -> 62 [] type = "{" -> 123
    [] type = "." -> 46 [] OTHER -> Character[type]

\* A number as its field has it.
NumberOf(node, field) ==
  IF field.kind = "short" THEN node.nums[field.name] % 65536 ELSE node.nums[field.name]

ValOf(v, node) ==
  IF node.type \notin {"c", "C"} THEN node.val
  ELSE LET numbers == SelectSeq(FieldsOf(v), IsNumber)
       IN [k \in 1..Len(numbers) |-> NumberOf(node, numbers[k])]

FieldJob(v, i, node, field) ==
  IF IsNumber(field)
  THEN Job("number", i, "", Little(Stored(v, field, NumberOf(node, field)), Width(field)))
  ELSE Job("part", i, node.fields[field.name], <<>>)

PartJobs(i, node) == [k \in 1..Len(node.items) |-> Job("part", i, node.items[k], <<>>)]

\* What follows the type byte at once, and what comes then for piece i.
Lengthy == [s |-> 4, t |-> 4, u |-> 4, a |-> 4, A |-> 4, z |-> 1, Z |-> 1]

Start(node) ==
  CASE node.type \in DOMAIN Lengthy -> Little(Len(node.val), Lengthy[node.type]) \o node.val
    [] node.type \in {"(", "[", "<", ">"} -> Little(Len(node.items), 4)
    [] node.type = ")" -> Little(Len(node.items), 1)
    [] OTHER -> node.val

Rest(v, i, node) ==
  CASE node.type = "{" -> Append(PartJobs(i, node), Job("mark", i, "", <<>>))
    [] node.type \in {"c", "C"} ->
         LET fields == FieldsOf(v)
         IN [k \in 1..Len(fields) |-> FieldJob(v, i, node, fields[k])]
    [] OTHER -> PartJobs(i, node)

Here(st) == Len(st.out)

\* The next piece: its bytes, and what is left to write of it.
Begin(st, in, what, bytes, jobs) ==
  LET i    == Len(st.pieces) + 1
      made == Made(st, i - 1) + (IF Creates(what) THEN 1 ELSE 0)
  IN [st EXCEPT
       !.todo = jobs \o <<Job("end", i, "", <<>>)>> \o Tail(@),
       !.out  = @ \o <<what.type + (IF what.flagged THEN 128 ELSE 0)>> \o bytes,
       !.pieces = Append(@,
         [type |-> what.type, flagged |-> what.flagged, at |-> Here(st), next |-> 0, last |-> 0,
          val |-> what.val, parts |-> <<>>,
          way |-> IF in = 0 THEN <<i>> ELSE Append(st.pieces[in].way, i),
          nth |-> IF in = 0 THEN 0 ELSE Len(st.pieces[in].parts) + 1,
          to |-> what.to, is |-> what.is,
          obj |-> IF Creates(what) THEN 5 + made ELSE what.obj,
          made |-> made,
          noted |-> Noted(st, i - 1) + (IF what.flagged THEN 1 ELSE 0),
          kept |-> Kept(st, i - 1) + (IF what.type \in Interned THEN 1 ELSE 0)])]

\* A part has been written: a number, or piece p.
PartDone(st, in, p, numbers) ==
  IF in = 0 THEN st
  ELSE LET e == st.pieces[in]
           k == Len(e.parts)
       IN [st EXCEPT !.pieces[in].parts = Append(@,
            [piece |-> p, end |-> Here(st),
             last |-> IF p = 0 THEN Behind(in, e, k).last ELSE Len(st.pieces),
             taken |-> Behind(in, e, k).taken + numbers])]

End(st, i) ==
  LET w == st.pieces[i].way
      done == [st EXCEPT !.todo = Tail(@), !.pieces[i].next = Here(st),
                         !.pieces[i].last = Len(st.pieces)]
  IN PartDone(done, IF Len(w) = 1 THEN 0 ELSE w[Len(w) - 1], i, 0)

AddNumber(st, in, bytes) ==
  PartDone([st EXCEPT !.todo = Tail(@), !.out = @ \o bytes], in, 0, 1)

Again(type, to, e) ==
  [type |-> type, flagged |-> FALSE, val |-> e.val, to |-> to, is |-> e.is, obj |-> e.obj]

IsKnown(v, name, st) == HasReferences(v) /\ name \in Range(st.refs)

RefersToText(v, node, st) ==
  HasStringRefs(v) /\ node.type = "t" /\ node.val \in Range(st.interned)

WriteReference(st, in, name) ==
  LET n  == IndexIn(st.refs, name)
      to == CHOOSE i \in 1..Len(st.pieces) : st.pieces[i].flagged /\ st.pieces[i].noted = n
  IN Begin(st, in, [Again(TYPE_OBREF, to, st.pieces[to]) EXCEPT !.val = <<>>], Little(n - 1, 4), <<>>)

WriteStringRef(st, in, val) ==
  LET n  == IndexIn(st.interned, val)
      to == CHOOSE i \in 1..Len(st.pieces) :
              st.pieces[i].type \in Interned /\ st.pieces[i].kept = n
  IN Begin(st, in, Again(TYPE_STRINGREF, to, st.pieces[to]), Little(n - 1, 4), <<>>)

SingletonOf(type) ==
  IF \E s \in 1..5 : Singletons[s] = type THEN CHOOSE s \in 1..5 : Singletons[s] = type ELSE 0

\* A node written in full.
WriteNode(g, v, st, in, name) ==
  LET node == g.nodes[name]
      held == HasReferences(v) /\ name \in g.held
      type == CodeOf(node.type)
      begun == Begin(st, in,
                 [type |-> type, flagged |-> held, val |-> ValOf(v, node), to |-> 0, is |-> type,
                  obj |-> SingletonOf(type)],
                 Start(node), Rest(v, Len(st.pieces) + 1, node))
  IN [begun EXCEPT !.refs = IF held THEN Append(@, name) ELSE @,
                   !.interned = IF node.type = "t" THEN Append(@, node.val) ELSE @]

WriteMark(st, in) ==
  Begin(st, in, [type |-> TYPE_NULL, flagged |-> FALSE, val |-> <<>>, to |-> 0, is |-> 0, obj |-> 0],
        <<>>, <<>>)

\* The next job.
Write(g, v, st) ==
  LET job == Head(st.todo)
  IN CASE job.what = "end" -> End(st, job.in)
       [] job.what = "number" -> AddNumber(st, job.in, job.bytes)
       [] job.what = "mark" -> WriteMark(st, job.in)
       [] OTHER ->
            IF IsKnown(v, job.node, st) THEN WriteReference(st, job.in, job.node)
            ELSE IF RefersToText(v, g.nodes[job.node], st)
                 THEN WriteStringRef(st, job.in, g.nodes[job.node].val)
                 ELSE WriteNode(g, v, st, job.in, job.node)

\* Up to 2^k jobs, by halves: TLC's stack is too small for one after the other.
RECURSIVE WriteAll(_, _, _, _)

WriteAll(g, v, k, st) ==
  IF k = 0 THEN Write(g, v, st)
  ELSE LET half == WriteAll(g, v, k - 1, st)
       IN IF half.todo = <<>> THEN half ELSE WriteAll(g, v, k - 1, half)

\* marshal.dumps(g) in version v, behind a header: "out" and "pieces".
Dump(g, v, header) ==
  WriteAll(g, v, 9,
    [todo |-> <<Job("part", 0, g.root, <<>>)>>, out |-> header,
     refs |-> <<>>, interned |-> <<>>, pieces |-> <<>>])

\* The header of a .pyc file: magic, flags, then time stamp or hash, and size.
Header(magic, v, hashed) ==
     Little(magic, 4)
  \o (IF NotBefore(v, <<3, 7>>) THEN Little(IF hashed THEN 1 ELSE 0, 4) ELSE <<>>)
  \o Little(99, 4)
  \o (IF NotBefore(v, <<3, 3>>) THEN Little(7, 4) ELSE <<>>)
=============================================================================
