---------------------------- MODULE TryCompiler ----------------------------
(***************************************************************************)
(* The other side of the exception table: how CPython 3.11 compiles try    *)
(* statements, and the table it writes.  Not part of this repository.      *)
(*                                                                         *)
(* A statement is a call, a return (under a condition) or a try with a     *)
(* body and a handler, "empty" (a bare except that does nothing), "bare"   *)
(* or "typed".                                                             *)
(***************************************************************************)
EXTENDS Integers, Sequences, SequencesExt

TryStmt(body, handler) == [do |-> "try", body |-> body, handler |-> handler]

Call   == [do |-> "call"]
Return == [do |-> "return"]

\* An instruction and the handler that protects it, <<>> or one of the table.
W(op, arg, by) == [op |-> op, arg |-> arg, by |-> by]

By(target, depth, lasti) == <<target, depth, lasti>>

Nobody == <<>>

\* What a handler of each kind does before and behind its POP_EXCEPT.
Catch(kind, by) ==
  LET w(op) == W(op, 0, by)
  IN CASE kind = "empty" -> <<w("PUSH_EXC_INFO"), w("POP_TOP")>>
       [] kind = "bare"  -> <<w("PUSH_EXC_INFO"), w("POP_TOP"), w("other")>>
       [] kind = "typed" -> <<w("PUSH_EXC_INFO"), w("other"), w("other"), w("POP_TOP"),
                              w("other")>>

Unmatched(kind, by) == IF kind = "typed" THEN <<W("other", 0, by)>> ELSE <<>>

Cleanup(by) == <<W("COPY", 0, by), W("POP_EXCEPT", 0, by), W("other", 0, by)>>

\* The code of statements and of one of them, from word b on, where "by" protects.
RECURSIVE Code(_, _, _)

Statement(b, s, by) ==
  CASE s.do = "call"   -> <<W("other", 0, by)>>
    [] s.do = "return" -> <<W("other", 0, by), W("LOAD_CONST", 0, Nobody),
                         W("RETURN_VALUE", 0, Nobody)>>
    [] s.do = "try" ->
         LET n     == Len(Code(b + 1, s.body, by))
             H     == b + n + 2
             caught(c) == Catch(s.handler, c)
             C     == H + Len(caught(by)) + 2 + Len(Unmatched(s.handler, by))
             guard == By(2 * (C - 1), 1, TRUE)
             exit  == C + 3
             leave(k) == W("JUMP_FORWARD", exit - k - 1, by)
         IN <<W("NOP", 0, Nobody)>>
              \o Code(b + 1, s.body, By(2 * (H - 1), 0, FALSE))
              \o <<leave(b + n + 1)>>
              \o caught(guard)
              \o <<W("POP_EXCEPT", 0, by), leave(H + Len(caught(by)) + 1)>>
              \o Unmatched(s.handler, guard)
              \o Cleanup(by)

Code(b, stmts, by) ==
  IF stmts = <<>> THEN <<>>
  ELSE LET first == Statement(b, Head(stmts), by)
       IN first \o Code(b + Len(first), Tail(stmts), by)

\* Every list of statements is followed by another one.
Module(stmts) ==
  <<W("other", 0, Nobody)>> \o Code(2, stmts, Nobody)
     \o <<W("other", 0, Nobody), W("LOAD_CONST", 0, Nobody), W("RETURN_VALUE", 0, Nobody)>>

----------------------------------------------------------------------------
(* The table                                                                 *)

Range_(start, end, by) ==
  [start |-> start, end |-> end, target |-> by[1], depth |-> by[2], lasti |-> by[3]]

\* One entry for each run of words with one handler.
Listing(ws) ==
  LET Begins(k) == ws[k].by # Nobody /\ (k = 1 \/ ws[k - 1].by # ws[k].by)
      begins    == SelectSeq([k \in DOMAIN ws |-> k], Begins)
      end(k)    == CHOOSE n \in k..Len(ws) :
                     /\ \A m \in k..n : ws[m].by = ws[k].by
                     /\ n = Len(ws) \/ ws[n + 1].by # ws[k].by
  IN [i \in DOMAIN begins |-> Range_(2 * (begins[i] - 1), 2 * end(begins[i]), ws[begins[i]].by)]

Numbers(e) ==
  <<e.start \div 2, (e.end - e.start) \div 2, e.target \div 2,
    2 * e.depth + (IF e.lasti THEN 1 ELSE 0)>>

\* Six bits to a byte, the highest first: what each byte makes of the number.
Values6(n) ==
  LET V[m \in 0..n] == IF m < 64 THEN <<m>> ELSE Append(V[m \div 64], m) IN V[n]

Number6(n) ==
  LET d == Values6(n)
  IN [k \in 1..Len(d) |-> (d[k] % 64) + (IF k < Len(d) THEN 64 ELSE 0)]

\* The first byte of an entry is marked.
WriteEntry(e) ==
  LET bytes == FlattenSeq([f \in 1..4 |-> Number6(Numbers(e)[f])])
  IN [bytes EXCEPT ![1] = @ + 128]

WriteTable(es) == FlattenSeq([i \in DOMAIN es |-> WriteEntry(es[i])])

\* The entry and the number that each byte is for.
LayEntry(i, e) ==
  FlattenSeq([f \in 1..4 |->
    LET d == Values6(Numbers(e)[f])
    IN [k \in 1..Len(d) |->
          [entry |-> i, field |-> f, value |-> d[k], last |-> k = Len(d)]]])

Layout(es) == FlattenSeq([i \in DOMAIN es |-> LayEntry(i, es[i])])
=============================================================================
