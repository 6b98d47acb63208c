-------------------------- MODULE MCExceptionTable --------------------------
(***************************************************************************)
(* ExceptionTable on the tables of compiled try statements, whole and cut  *)
(* short, on ranges around every gap, and on code that ends in a handler.  *)
(***************************************************************************)
EXTENDS TableListing, TryCompiler

Short(S, n) == UNION {[1..k -> S] : k \in 0..n}

Kinds == {"empty", "bare", "typed"}

Tries(stmts, n) == {TryStmt(b, h) : b \in Short(stmts, n), h \in Kinds}

Simple == {Call, Return}

Inner == Tries(Simple, 1) \cup {TryStmt(<<Call, Return>>, "typed"),
                                TryStmt(<<Return, Call>>, "bare"),
                                TryStmt(<<Return, Return>>, "empty")}

Sources ==
  {<<t>> : t \in Tries(Simple, 3) \cup Tries(Simple \cup Inner, 2)}
    \cup {<<s, t>> : s \in Inner, t \in Inner}
    \cup {[i \in 1..70 |-> IF i = 70 THEN t ELSE Call] : t \in Inner}

Stripped(ws) == [k \in DOMAIN ws |-> [op |-> ws[k].op, arg |-> ws[k].arg]]

Table(es) == [table |-> WriteTable(es), listing |-> es, layout |-> Layout(es)]

Compiled(stmts) ==
  LET ws == Module(stmts)
  IN Table(Listing(ws)) @@ [words |-> Stripped(ws), whole |-> TRUE]

Cut(c, n) == [c EXCEPT !.table = SubSeq(@, 1, n), !.whole = FALSE]

CutTables ==
  UNION {LET c == Compiled(s) IN {Cut(c, n) : n \in 0..(Len(c.table) - 1)} :
         s \in {<<TryStmt(<<Return, Call>>, "typed")>>,
                [i \in 1..70 |-> IF i = 70 THEN TryStmt(<<Return, Call>>, "typed")
                                 ELSE Call]}}

\* Ranges with gaps of all kinds, for handlers that are alike or not.
Ranges == {<<<<0, 2>>, <<6, 8>>, <<10, 12>>>>, <<<<0, 4>>, <<6, 12>>>>,
           <<<<0, 2>>, <<2, 6>>, <<10, 12>>>>}

OddHandlers == {<<12, 0, FALSE>>, <<14, 0, FALSE>>, <<14, 1, FALSE>>, <<14, 0, TRUE>>}

Tables ==
  UNION {{[i \in DOMAIN r |-> Range_(r[i][1], r[i][2], h[i])] : h \in [DOMAIN r -> OddHandlers]}
         : r \in Ranges}

Plain(op) == [op |-> op, arg |-> 0]

OddWords ==
  {[k \in 1..8 |-> Plain(CASE k \in {2, 3} -> g[k]
                           [] k = 5 -> g[2]
                           [] k = 7 -> "END_ASYNC_FOR"
                           [] k = 8 -> "PUSH_EXC_INFO"
                           [] OTHER -> "other")] :
     g \in [{2, 3} -> {"NOP", "LOAD_CONST", "RETURN_VALUE", "other"}]}

Odd == {Table(es) @@ [words |-> ws, whole |-> FALSE] : es \in Tables, ws \in OddWords}

\* Ranges that go on behind the code.
Beyond == {Table(es) @@ [words |-> [k \in 1..3 |-> Plain("RETURN_VALUE")], whole |-> FALSE] :
             es \in Tables}

\* Code that ends in a handler.
Beheaded ==
  {LET ws == SubSeq(<<"COPY", "NOP", "JUMP_FORWARD", "PUSH_EXC_INFO", "POP_TOP", "POP_EXCEPT",
                      "JUMP_FORWARD">>, 1, n)
       es == <<Range_(6, 8, <<0, 1, TRUE>>)>>
   IN Table(es) @@ [words |-> [k \in DOMAIN ws |-> Plain(ws[k])], whole |-> FALSE] :
     n \in 4..7}

MCCodes == {Compiled(s) : s \in Sources} \cup CutTables \cup Odd \cup Beyond \cup Beheaded

----------------------------------------------------------------------------

(* ASTree.cpp, of "try: pass except ...: ..." with an empty body: without a    *)
(* body entry the machinery never opens the block, so the missing entry is     *)
(* synthesized.  So every handler of compiled code has one.                    *)
BodiesFound ==
  code.whole /\ pc = "done" =>
    \A j \in DOMAIN original :
      IsHandler(code, original[j].start) => HasBody(original[j].start)
=============================================================================
