---------------------------- MODULE SourceParser ----------------------------
(***************************************************************************)
(* Python's grammar for straight-line source: lines of tokens, as module   *)
(* Renderer writes them, to the statements that module SourceCompiler      *)
(* compiles.  What is not in the grammar parses to Wrong, which compiles   *)
(* to no code of a program.                                                *)
(*                                                                         *)
(* A rule reads from token p on and returns what it read and the position  *)
(* after it.  Grammar(ts) is the function of a rule's name, a position and *)
(* a level or an ending to what the rule reads there; the rules call one   *)
(* another through it, as parameter g.                                     *)
(***************************************************************************)
EXTENDS SourceCompiler, TLC

Read(x, p) == [x |-> x, p |-> p]

Tok(ts, p) == IF p \in DOMAIN ts THEN ts[p] ELSE Sym("")
Is(ts, p, s) == Tok(ts, p) = Sym(s)
IsIn(ts, p, ss) == Tok(ts, p).k = "sym" /\ Tok(ts, p).v \in ss
IsId(ts, p) == Tok(ts, p).k = "id"

\* The position after s, which must stand at r.p.
Then(ts, r, s) == IF Is(ts, r.p, s) THEN Read(r.x, r.p + 1) ELSE Read(Wrong, r.p + 1)

\* From the loosest binary operators to the tightest.
Levels ==
  <<"|" :> "OR", "^" :> "XOR", "&" :> "AND",
    "<<" :> "LSHIFT" @@ ">>" :> "RSHIFT",
    "+" :> "ADD" @@ "-" :> "SUBTRACT",
    "*" :> "MULTIPLY" @@ "/" :> "DIVIDE" @@ "//" :> "FLOOR_DIVIDE"
      @@ "%" :> "MODULO" @@ "@" :> "MAT_MULTIPLY">>

Comparisons == {"<", "<=", "==", "!=", ">", ">=", "in", "not in", "is", "is not"}

Augmenting ==
  "+=" :> "ADD" @@ "-=" :> "SUBTRACT" @@ "*=" :> "MULTIPLY" @@ "/=" :> "DIVIDE"
  @@ "%=" :> "MODULO" @@ "**=" :> "POWER" @@ "<<=" :> "LSHIFT" @@ ">>=" :> "RSHIFT"
  @@ "&=" :> "AND" @@ "^=" :> "XOR" @@ "|=" :> "OR" @@ "//=" :> "FLOOR_DIVIDE"
  @@ "@=" :> "MAT_MULTIPLY"

Closers == {"", ")", "]", "}", "=", ":"}

\* The function that a parameter list describes: a parameter is a record of
\* name, ann and default; "*" stands before the keyword-only ones.
FunctionOf(name, params, returns) ==
  LET stars == {j \in DOMAIN params : params[j].name = "*"}
      n == IF stars = {} THEN Len(params) ELSE (CHOOSE j \in stars : TRUE) - 1
      plain == SubSeq(params, 1, n)
      kwonly == SubSeq(params, n + 2, Len(params))
      all == plain \o kwonly
      pair(q, x) == <<Object(StrObj(q.name)), x>>
      defaults == SelectSeq(plain, LAMBDA q : q.default # Null)
      kwdefs == SelectSeq(kwonly, LAMBDA q : q.default # Null)
      annotated == SelectSeq(all, LAMBDA q : q.ann # Null)
  IN Function(CodeObj(name, n, [j \in DOMAIN all |-> StrObj(all[j].name)]),
              [j \in DOMAIN defaults |-> defaults[j].default],
              [j \in DOMAIN kwdefs |-> pair(kwdefs[j], kwdefs[j].default)],
              [j \in DOMAIN annotated |-> pair(annotated[j], annotated[j].ann)]
              \o (IF returns = Null THEN <<>> ELSE <<<<Object(StrObj("return")), returns>>>>))

Expr(g, p)     == g["test", p, 0]
ExprList(g, p) == g["testlist", p, 0]

\* n comparisons were read.  More than one make a chain.
RECURSIVE Chain(_, _, _, _), BinRest(_, _, _, _), Trailers(_, _, _)
Chain(g, ts, l, n) ==
  LET r == g["bin", l.p + 1, 1]
  IN IF ~IsIn(ts, l.p, Comparisons) THEN l
     ELSE Chain(g, ts, Read(IF n = 0 THEN Compare(Tok(ts, l.p).v, l.x, r.x)
                            ELSE ChainedComparison, r.p), n + 1)

\* not test, a comparison, or a lambda.
Test(g, ts, p) ==
  LET negated == Expr(g, p + 1)
      params  == g["params", p + 1, 0]
  IN CASE Is(ts, p, "not") -> Read(Unary("not", negated.x), negated.p)
       [] Is(ts, p, "lambda") ->                       \* its colon and its body
            Read(FunctionOf("<lambda>", params.x, Null), params.p + 2)
       [] OTHER -> Chain(g, ts, g["bin", p, 1], 0)

BinRest(g, ts, l, level) ==
  LET r == g["bin", l.p + 1, level + 1]
  IN IF ~IsIn(ts, l.p, DOMAIN Levels[level]) THEN l
     ELSE BinRest(g, ts, Read(Binary(Levels[level][Tok(ts, l.p).v], l.x, r.x), r.p), level)

Bin(g, ts, p, level) ==
  IF level > Len(Levels) THEN g["factor", p, 0]
  ELSE BinRest(g, ts, g["bin", p, level + 1], level)

Awaited(g, ts, p) ==
  LET r == g["primary", p + 1, 0]
  IN IF Is(ts, p, "await") THEN Read(Await(r.x), r.p) ELSE g["primary", p, 0]

Factor(g, ts, p) ==
  LET signed == g["factor", p + 1, 0]
      base   == Awaited(g, ts, p)
      power  == g["factor", base.p + 1, 0]
  IN CASE IsIn(ts, p, {"+", "-", "~"}) -> Read(Unary(Tok(ts, p).v, signed.x), signed.p)
       [] ~IsIn(ts, p, {"+", "-", "~"}) /\ Is(ts, base.p, "**") ->
            Read(Binary("POWER", base.x, power.x), power.p)
       [] OTHER -> base

BoundOf(g, ts, p) == IF IsIn(ts, p, {":", "]"}) THEN Read(Null, p) ELSE Expr(g, p)
Given(l, r) == (IF l = Null THEN 0 ELSE 1) + (IF r = Null THEN 0 ELSE 2)

\* What follows the lower bound l of a slice: the upper one and the step.
SliceFrom(g, ts, l) ==
  LET r == BoundOf(g, ts, l.p + 1)
      step == BoundOf(g, ts, r.p + 1)
      plain == Slice(Given(l.x, r.x), l.x, r.x)
  IN IF Is(ts, r.p, ":")
     THEN Read(Slice(IF step.x = Null THEN 1 ELSE 3, plain, step.x), step.p)
     ELSE Read(plain, r.p)

\* A subscript: an expression or a slice.
Key(g, ts, p) ==
  LET l == BoundOf(g, ts, p) IN IF Is(ts, l.p, ":") THEN SliceFrom(g, ts, l) ELSE l

\* A number takes no attribute without parentheses.
Trailer(g, ts, l) ==
  LET args == g["args", l.p + 1, 0]
      key  == g["key", l.p + 1, 0]
  IN CASE Is(ts, l.p, ".") ->
            Read(IF Tok(ts, l.p - 1).k = "int" \/ ~IsId(ts, l.p + 1) THEN Wrong
                 ELSE Attr(l.x, Tok(ts, l.p + 1).v), l.p + 2)
       [] Is(ts, l.p, "(") -> Then(ts, Read(Call(l.x, args.x.vs, args.x.kvs), args.p), ")")
       [] Is(ts, l.p, "[") -> Then(ts, Read(Subscr(l.x, key.x), key.p), "]")
Trailers(g, ts, l) ==
  IF IsIn(ts, l.p, {".", "(", "["}) THEN Trailers(g, ts, Trailer(g, ts, l)) ELSE l

\* Expressions with commas between them, spread ones starred.
Items(g, ts, p) ==
  LET spread == g["bin", p + 1, 1]
      first  == IF Is(ts, p, "*") THEN Read(Star(spread.x), spread.p) ELSE Expr(g, p)
      rest   == g["items", first.p + 1, 0]
  IN CASE IsIn(ts, p, Closers) -> Read(<<>>, p)
       [] ~IsIn(ts, p, Closers) /\ Is(ts, first.p, ",") -> Read(<<first.x>> \o rest.x, rest.p)
       [] OTHER -> Read(<<first.x>>, first.p)

\* One item without a comma is itself, anything else a tuple.
TestList(g, ts, p) ==
  LET r == g["items", p, 0]
  IN Read(IF Len(r.x) = 1 /\ ~Is(ts, r.p - 1, ",") THEN r.x[1] ELSE Tuple(r.x), r.p)

Entry(g, ts, p) ==
  LET spread == g["bin", p + 1, 1]
      key    == Expr(g, p)
      value  == Expr(g, key.p + 1)
  IN CASE Is(ts, p, "**") -> Read(<<Null, spread.x>>, spread.p)
       [] ~Is(ts, p, "**") /\ Is(ts, key.p, ":") -> Read(<<key.x, value.x>>, value.p)
       [] OTHER -> Read(<<Wrong, Wrong>>, value.p)

Entries(g, ts, p) ==
  LET first == Entry(g, ts, p)
      rest  == g["entries", first.p + 1, 0]
  IN IF Is(ts, first.p, ",") THEN Read(<<first.x>> \o rest.x, rest.p)
     ELSE Read(<<first.x>>, first.p)

\* { } with entries or with elements.
Braces(g, ts, p) ==
  LET kvs == g["entries", p, 0]
      vs  == g["items", p, 0]
      isMap == Is(ts, p, "**") \/ (~Is(ts, p, "*") /\ Is(ts, Expr(g, p).p, ":"))
  IN CASE Is(ts, p, "}") -> Read(Map(<<>>), p)
       [] ~Is(ts, p, "}") /\ isMap -> Read(Map(kvs.x), kvs.p)
       [] OTHER -> Read(Set(vs.x), vs.p)

\* A formatted value: { expression ! conversion : specification }
Replacement(g, ts, p) ==
  LET x    == Expr(g, p + 1)
      conv == CASE Is(ts, x.p, "!s") -> 1 [] Is(ts, x.p, "!r") -> 2
                [] Is(ts, x.p, "!a") -> 3 [] OTHER -> 0
      q    == IF conv = 0 THEN x.p ELSE x.p + 1
      spec == g["pieces", q + 1, 1]
  IN CASE Is(ts, q, "}") -> Read(Formatted(x.x, conv, Null), q + 1)
       [] Is(ts, q, ":") ->
            Read(Formatted(x.x, conv, IF Len(spec.x) = 1 THEN spec.x[1] ELSE JoinedStr(spec.x)),
                 spec.p)
       [] OTHER -> Read(Wrong, Len(ts) + 1)

\* The pieces of a formatted string up to its end: its quote or, in a
\* specification, a brace.  Two braces are one that is written out.
FStringPieces(g, ts, p, nested) ==
  LET end   == IF nested = 1 THEN "}" ELSE "'"
      piece == IF Tok(ts, p).k = "str" THEN Read(Object(Tok(ts, p)), p + 1)
               ELSE IF Is(ts, p, "{") /\ ~Is(ts, p + 1, "{") THEN Replacement(g, ts, p)
               ELSE Read(Wrong, Len(ts) + 1)
      rest  == g["pieces", piece.p, nested]
  IN IF Is(ts, p, end) \/ p > Len(ts) THEN Read(<<>>, p + 1)
     ELSE Read(<<piece.x>> \o rest.x, rest.p)

\* ( ) with a yield, a named expression, a value or a tuple.
Parenthesised(g, ts, p) ==
  LET yielded == ExprList(g, p + 1)
      named   == Expr(g, p + 2)
  IN CASE Is(ts, p, "yield") -> Read(YieldExpr(yielded.x), yielded.p)
       [] IsId(ts, p) /\ Is(ts, p + 1, ":=") -> Read(Walrus(named.x, Name(ts[p].v)), named.p)
       [] OTHER -> ExprList(g, p)

Atom(g, ts, p) ==
  LET tok    == Tok(ts, p)
      items  == g["items", p + 1, 0]
      pieces == g["pieces", p + 1, 0]
      list   == ExprList(g, p + 1)
  IN CASE tok.k = "id" -> Read(Name(tok.v), p + 1)
       [] tok.k \in {"none", "int", "str"} -> Read(Object(tok), p + 1)
       [] Is(ts, p, "(") -> Then(ts, Parenthesised(g, ts, p + 1), ")")
       [] Is(ts, p, "[") -> Then(ts, Read(List(items.x), items.p), "]")
       [] Is(ts, p, "{") -> Then(ts, Braces(g, ts, p + 1), "}")
       [] Is(ts, p, "f'") -> Read(JoinedStr(pieces.x), pieces.p)
       [] Is(ts, p, "backquote") -> Then(ts, Read(Convert(list.x), list.p), "backquote")
       [] OTHER -> Read(Wrong, p + 1)

\* The arguments of a call: [vs, kvs]; a spread mapping has the key Null.
NoArgs == [vs |-> <<>>, kvs |-> <<>>]

Args(g, ts, p) ==
  LET keyword == IsId(ts, p) /\ Is(ts, p + 1, "=")
      key  == IF keyword THEN Object(StrObj(ts[p].v)) ELSE Null
      x    == Expr(g, CASE Is(ts, p, "*") \/ Is(ts, p, "**") -> p + 1
                        [] keyword -> p + 2 [] OTHER -> p)
      rest == IF Is(ts, x.p, ",") THEN g["args", x.p + 1, 0] ELSE Read(NoArgs, x.p)
      vs   == IF keyword \/ Is(ts, p, "**") THEN <<>>
              ELSE <<IF Is(ts, p, "*") THEN Star(x.x) ELSE x.x>>
      kvs  == IF keyword \/ Is(ts, p, "**") THEN <<<<key, x.x>>>> ELSE <<>>
  IN IF Is(ts, p, ")") THEN Read(NoArgs, p)
     ELSE Read([vs |-> vs \o rest.x.vs, kvs |-> kvs \o rest.x.kvs], rest.p)

\* A parameter of a function: [name, ann, default], or the name "*".
Parameter(g, ts, p) ==
  LET ann == IF Is(ts, p + 1, ":") /\ Tok(ts, p + 2).k # "body" THEN Expr(g, p + 2)
             ELSE Read(Null, p + 1)
      default == IF Is(ts, ann.p, "=") THEN Expr(g, ann.p + 1) ELSE Read(Null, ann.p)
  IN IF Is(ts, p, "*") THEN Read([name |-> "*", ann |-> Null, default |-> Null], p + 1)
     ELSE Read([name |-> Tok(ts, p).v, ann |-> ann.x, default |-> default.x], default.p)

ParameterList(g, ts, p) ==
  LET first == Parameter(g, ts, p)
      rest  == g["params", first.p + 1, 0]
  IN CASE IsIn(ts, p, {")", ":"}) -> Read(<<>>, p)
       [] ~IsIn(ts, p, {")", ":"}) /\ Is(ts, first.p, ",") ->
            Read(<<first.x>> \o rest.x, rest.p)
       [] OTHER -> Read(<<first.x>>, first.p)

Rules == {"test", "bin", "factor", "primary", "key", "items", "testlist", "entries", "pieces",
          "args", "params"}

Grammar(ts) ==
  LET g[rule \in Rules, p \in Nat, n \in Nat] ==
        CASE rule = "test"     -> Test(g, ts, p)
          [] rule = "bin"      -> Bin(g, ts, p, n)
          [] rule = "factor"   -> Factor(g, ts, p)
          [] rule = "primary"  -> Trailers(g, ts, Atom(g, ts, p))
          [] rule = "key"      -> Key(g, ts, p)
          [] rule = "items"    -> Items(g, ts, p)
          [] rule = "testlist" -> TestList(g, ts, p)
          [] rule = "entries"  -> Entries(g, ts, p)
          [] rule = "pieces"   -> FStringPieces(g, ts, p, n)
          [] rule = "args"     -> Args(g, ts, p)
          [] rule = "params"   -> ParameterList(g, ts, p)
  IN g

----------------------------------------------------------------------------
(* Statements.  Each operator reads one to the end of its line.            *)

\* The end of the line must be reached.
Whole(ts, r) == IF r.p = Len(ts) + 1 THEN r.x ELSE Wrong

AsName(ts, p) == IF Is(ts, p, "as") THEN Read(Tok(ts, p + 1).v, p + 2) ELSE Read("", p)

ImportStatement(ts) ==
  LET as == AsName(ts, 3)
  IN Whole(ts, Read(ImportAs(Tok(ts, 2).v, as.x), as.p))

RECURSIVE ImportNames(_, _), Tests(_, _, _)
ImportNames(ts, p) ==
  LET as == AsName(ts, p + 1)
      one == <<Tok(ts, p).v, IF as.x = "" THEN Tok(ts, p).v ELSE as.x>>
      rest == ImportNames(ts, as.p + 1)
  IN IF ~IsId(ts, p) THEN Read(<<>>, 0)
     ELSE IF Is(ts, as.p, ",") THEN Read(<<one>> \o rest.x, rest.p) ELSE Read(<<one>>, as.p)

FromStatement(ts) ==
  LET level == Cardinality({j \in DOMAIN ts : \A k \in 2..j : Is(ts, k, ".")}) - 1
      named == IsId(ts, level + 2)
      names == ImportNames(ts, level + (IF named THEN 4 ELSE 3))
  IN Whole(ts, Read(ImportFrom(IF named THEN ts[level + 2].v ELSE "", level, names.x), names.p))

\* Values with commas or "from" between them, to the end of the line.
Tests(g, ts, p) ==
  LET x == Expr(g, p)
      rest == Tests(g, ts, x.p + 1)
  IN IF p > Len(ts) THEN Read(<<>>, p)
     ELSE IF IsIn(ts, x.p, {",", "from"}) THEN Read(<<x.x>> \o rest.x, rest.p)
     ELSE Read(<<x.x>>, x.p)

RaiseStatement(g, ts) == LET r == Tests(g, ts, 2) IN Whole(ts, Read(Raise(r.x), r.p))

\* A comma at the end leaves the line open.
PrintStatement(g, ts) ==
  LET to == Is(ts, 2, ">>")
      stream == IF to THEN Expr(g, 3) ELSE Read(Null, 2)
      r == Tests(g, ts, IF to /\ Is(ts, stream.p, ",") THEN stream.p + 1 ELSE stream.p)
      open == Len(ts) > 1 /\ Is(ts, Len(ts), ",")
  IN Whole(ts, Read([PrintNode(r.x, stream.x) EXCEPT !.eol = ~open], r.p))

ExecStatement(g, ts) ==
  LET x == g["bin", 2, 1]
      glob == IF Is(ts, x.p, "in") THEN Expr(g, x.p + 1) ELSE Read(Null, x.p)
      loc == IF Is(ts, glob.p, ",") THEN Expr(g, glob.p + 1) ELSE Read(Null, glob.p)
  IN Whole(ts, Read(Exec(x.x, glob.x, loc.x), loc.p))

\* A body stands for the lines that follow the header.
DefStatement(g, ts, decorators) ==
  LET params == g["params", 4, 0]
      returns == IF Is(ts, params.p + 1, "->") THEN Expr(g, params.p + 2)
                 ELSE Read(Null, params.p + 1)
      f == FunctionOf(Tok(ts, 2).v, params.x, returns.x)
  IN IF Is(ts, 3, "(") /\ Is(ts, params.p, ")") /\ Is(ts, returns.p, ":")
     THEN Whole(ts, Read(Def(f.obj.v, decorators, f), returns.p + 2)) ELSE Wrong

ClassStatement(g, ts, decorators) ==
  LET in   == g["args", 4, 0]
      args == IF ~Is(ts, 3, "(") THEN Read(NoArgs, 3)
              ELSE IF Is(ts, in.p, ")") THEN Read(in.x, in.p + 1) ELSE Read(NoArgs, 0)
  IN IF Is(ts, args.p, ":")
     THEN Whole(ts, Read(ClassDef(Tok(ts, 2).v, decorators, args.x.vs, args.x.kvs), args.p + 2))
     ELSE Wrong

ForStatement(g, ts) ==
  LET x == g["bin", 2, 1]
      iter == ExprList(g, x.p + 1)
  IN IF Is(ts, x.p, "in") /\ Is(ts, iter.p, ":")
     THEN Whole(ts, Read(For(x.x, iter.x), iter.p + 1)) ELSE Wrong

WithStatement(g, ts) ==
  LET x == Expr(g, 2)
      var == IF Is(ts, x.p, "as") THEN g["bin", x.p + 1, 1] ELSE Read(Null, x.p)
  IN IF Is(ts, var.p, ":") THEN Whole(ts, Read(With(x.x, var.x), var.p + 1)) ELSE Wrong

\* Targets and the value, with "=" between them.
RECURSIVE Assigned(_, _, _)
Assigned(g, ts, p) ==
  LET x == ExprList(g, p)
      rest == Assigned(g, ts, x.p + 1)
  IN IF Is(ts, x.p, "=") THEN Read(<<x.x>> \o rest.x, rest.p) ELSE Read(<<x.x>>, x.p)

ExpressionStatement(g, ts) ==
  LET xs == Assigned(g, ts, 1)
      n == Len(xs.x)
      first == ExprList(g, 1)
      y == ExprList(g, first.p + 1)
      value == IF Is(ts, y.p, "=") THEN ExprList(g, y.p + 1) ELSE Read(Null, y.p)
  IN IF IsIn(ts, first.p, DOMAIN Augmenting)
     THEN Whole(ts, Read(AugAssign(first.x, Augmenting[ts[first.p].v], y.x), y.p))
     ELSE IF Is(ts, first.p, ":")
     THEN IF first.x.t = "name"
          THEN Whole(ts, Read(AnnAssign(first.x.id, y.x, value.x), value.p)) ELSE Wrong
     ELSE IF n = 1 THEN Whole(ts, Read(ExprStmt(xs.x[1]), xs.p))
     ELSE Whole(ts, Read(Assign(SubSeq(xs.x, 1, n - 1), xs.x[n]), xs.p))

Statement(g, ts, decorators, ver) ==
  CASE Is(ts, 1, "import") -> ImportStatement(ts)
    [] Is(ts, 1, "from")   -> FromStatement(ts)
    [] Is(ts, 1, "del")    -> LET r == Expr(g, 2) IN Whole(ts, Read(Delete(r.x), r.p))
    [] Is(ts, 1, "raise")  -> RaiseStatement(g, ts)
    [] Is(ts, 1, "print") /\ ver < 300 -> PrintStatement(g, ts)
    [] Is(ts, 1, "exec") /\ ver < 300  -> ExecStatement(g, ts)
    [] Is(ts, 1, "def")    -> DefStatement(g, ts, decorators)
    [] Is(ts, 1, "class")  -> ClassStatement(g, ts, decorators)
    [] Is(ts, 1, "for")    -> ForStatement(g, ts)
    [] Is(ts, 1, "with")   -> WithStatement(g, ts)
    [] Is(ts, 1, "yield")  -> LET r == ExprList(g, 2) IN Whole(ts, Read(Yield(r.x), r.p))
    [] OTHER               -> ExpressionStatement(g, ts)

\* Decorators stand on lines of their own, global statements bind no value.
RECURSIVE Statements(_, _, _)
Statements(lines, decorators, ver) ==
  LET ts == lines[1]
      d == Grammar(ts)["test", 2, 0]
  IN IF lines = <<>> THEN <<>>
     ELSE IF Is(ts, 1, "@")
     THEN Statements(Tail(lines), Append(decorators, Whole(ts, d)), ver)
     ELSE IF Is(ts, 1, "global") THEN Statements(Tail(lines), <<>>, ver)
     ELSE <<Statement(Grammar(ts), ts, decorators, ver)>> \o Statements(Tail(lines), <<>>, ver)

Parse(lines, ver) == Statements(lines, <<>>, ver)

DeclaredGlobal(lines) ==
  UNION {{lines[j][k].v : k \in {m \in DOMAIN lines[j] : IsId(lines[j], m)}} :
           j \in {m \in DOMAIN lines : Is(lines[m], 1, "global")}}

=============================================================================
