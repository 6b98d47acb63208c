---------------------------- MODULE MCStatements ----------------------------
(***************************************************************************)
(* StatementBuilder on the code of small programs, for four versions of    *)
(* Python, and what the renderer's output compiles to again.               *)
(***************************************************************************)
EXTENDS StatementBuilder, SourceCompiler

Out == INSTANCE Renderer
Py  == INSTANCE SourceParser

a == Name("a")  b == Name("b")  d == Name("d")  f == Name("f")
x == Name("x")  y == Name("y")  z == Name("z")
One   == Object(IntObj(1))
Two   == Object(IntObj(2))
Three == Object(IntObj(3))
Str(v)     == Object(StrObj(v))
Kw(k, v)   == <<Str(k), v>>
Merged(v)  == <<Null, v>>
C(g, ps)   == Call(g, ps, <<>>)
Fn(name, params, defaults) ==
  Function(CodeObj(name, Len(params), [j \in DOMAIN params |-> StrObj(params[j])]),
           defaults, <<>>, <<>>)
Lam == Fn("<lambda>", <<"p">>, <<>>)
Annotated ==
  Function(CodeObj("g", 1, <<StrObj("p"), StrObj("q"), StrObj("r")>>), <<One>>,
           <<Kw("r", b)>>, <<Kw("p", a), Kw("return", d)>>)
From(l, r)   == Slice((IF l = Null THEN 0 ELSE 1) + (IF r = Null THEN 0 ELSE 2), l, r)
Steps(l, r, s) == Slice(3, From(l, r), s)

----------------------------------------------------------------------------
(* Expressions: of every version, of Python 3, since 3.11, of Python 2.    *)

Operators ==
  {Binary("ADD", a, Binary("MULTIPLY", b, d)), Binary("MULTIPLY", Binary("ADD", a, b), d),
   Binary("SUBTRACT", a, Binary("SUBTRACT", b, d)), Binary("POWER", Unary("-", a), b),
   Binary("POWER", a, Binary("POWER", b, d)), Binary("POWER", Binary("POWER", a, b), d),
   Binary("POWER", a, Unary("-", b)), Unary("-", Binary("POWER", a, b)),
   Unary("not", Compare("in", a, b)), Unary("-", Unary("~", a)), Unary("-", Unary("not", a)),
   Unary("not", Unary("-", a)), Binary("ADD", Unary("not", a), b), Unary("+", Attr(a, "b")),
   Compare("==", Compare("==", a, b), d), Compare("<", a, Compare("in", b, d)),
   Binary("OR", Compare("is", a, b), d), Compare("is not", Unary("not", a), b),
   Binary("LSHIFT", Binary("AND", a, b), Binary("XOR", d, One)),
   Binary("RSHIFT", Binary("MODULO", a, b), Binary("DIVIDE", d, One)),
   Binary("FLOOR_DIVIDE", Binary("FLOOR_DIVIDE", a, b), Unary("-", One))}

Values ==
  {None, Attr(One, "b"), Attr(Str("s"), "b"), Attr(Attr(a, "b"), "d"),
   Tuple(<<>>), Tuple(<<a>>), Tuple(<<a, b>>), Tuple(<<One, Two>>), Tuple(<<Tuple(<<a, b>>), d>>),
   List(<<>>), List(<<One, Two, Three>>), Set(<<a, b>>), Map(<<>>), Map(<<Kw("k", a)>>),
   Map(<<<<a, b>>, <<b, d>>>>), Map(<<Kw("k", a), Kw("l", Map(<<<<b, d>>>>))>>),
   Subscr(a, b), Subscr(a, From(b, d)), Subscr(a, From(Null, Null)),
   Subscr(a, Steps(b, Null, d)), Subscr(Subscr(a, One), Tuple(<<b, d>>)),
   Subscr(a, Steps(Null, Null, Unary("-", One))), C(f, <<>>), C(f, <<a, b>>),
   C(Attr(a, "f"), <<b>>), C(C(f, <<a>>), <<b>>), C(Subscr(a, b), <<d>>), List(<<C(f, <<b>>), a>>)}

Since3 ==
  {Binary("MAT_MULTIPLY", a, Binary("FLOOR_DIVIDE", b, d)),
   JoinedStr(<<Str("s"), Formatted(a, 2, Str("s")), Formatted(b, 0, Null)>>),
   JoinedStr(<<Formatted(a, 0, JoinedStr(<<Formatted(b, 0, Null), Str("s")>>)), Str("s")>>),
   JoinedStr(<<Formatted(a, 1, Formatted(b, 3, Null)), Str("t")>>), List(<<Lam>>)}

Since311 ==
  {Compare("not in", a, Set(<<One, Two, Three>>)), Set(<<One, Two, Three>>),
   Tuple(<<Star(a), b>>), List(<<a, Star(b)>>), Set(<<Star(a), b>>),
   Map(<<Merged(a), Kw("k", b)>>), Map(<<Kw("k", b), Merged(a)>>),
   Map(<<Kw("k", a), Kw("l", b), Merged(d)>>),
   Call(f, <<a>>, <<Kw("k", b), Kw("l", d)>>), Call(Attr(a, "f"), <<>>, <<Kw("k", b)>>),
   C(f, <<Star(a)>>), C(f, <<a, Star(b)>>), C(f, <<Star(a), Star(b), d>>),
   Call(f, <<Star(a)>>, <<Kw("k", b)>>), Call(f, <<>>, <<Merged(a)>>), Call(f, <<a>>, <<Merged(b)>>),
   Call(f, <<Star(a)>>, <<Kw("k", b), Kw("l", a), Merged(d)>>),
   Call(f, <<>>, <<Kw("k", b), Merged(d)>>), Call(f, <<>>, <<Merged(a), Kw("k", b)>>),
   C(f, <<Lam, a>>), C(f, <<List(<<Walrus(a, Name("w")), b>>)>>),
   Binary("ADD", Walrus(a, Name("w")), b)}

Only2 ==
  {Convert(a), Convert(Tuple(<<a, b>>)), Convert(Binary("ADD", a, b)),
   Call(f, <<a>>, <<Kw("k", b), Kw("l", d)>>), C(f, <<a, Star(b)>>),
   Call(f, <<>>, <<Kw("k", a), Merged(b)>>), Call(f, <<Star(a)>>, <<Merged(b)>>),
   Call(Attr(a, "f"), <<a, Star(b)>>, <<Kw("k", a), Merged(b)>>), C(f, <<Lam>>),
   Subscr(a, From(b, Null)), Subscr(a, From(Null, b)), Subscr(Subscr(a, From(b, d)), b)}

----------------------------------------------------------------------------
(* Statements.                                                             *)

Slices == {Subscr(a, From(l, r)) : l \in {Null, b}, r \in {Null, d}}

Targets ==
  {x, Attr(a, "x"), Subscr(a, b), Subscr(Attr(a, "b"), C(f, <<d>>)), Subscr(a, Steps(b, Null, d)),
   Tuple(<<x, y>>), Tuple(<<x>>), Tuple(<<x, y, z>>),
   Tuple(<<Attr(a, "x"), Subscr(a, b)>>), Tuple(<<Attr(a, "x"), y, z>>), Tuple(<<x, Tuple(<<y, z>>)>>),
   Tuple(<<Tuple(<<x, y>>), z>>), Tuple(<<Tuple(<<x, Tuple(<<y, Attr(a, "b")>>)>>), z>>)} \cup Slices

NoTargets == {<<Tuple(<<>>)>>, <<x, Tuple(<<>>)>>, <<Tuple(<<>>), x>>}

StarTargets == {Tuple(<<x, Star(y)>>), Tuple(<<Star(x), y>>), Tuple(<<x, Star(y), z>>)}

Chains ==
  {<<x, y>>, <<x, y, z>>, <<x, Attr(a, "b")>>, <<Subscr(a, b), x>>, <<x, Tuple(<<y, z>>)>>,
   <<Tuple(<<x, y>>), z>>, <<Attr(a, "x"), Subscr(a, b), y>>}

Parallels ==
  {<<<<x, y>>, <<a, b>>>>, <<<<x, y>>, <<y, x>>>>, <<<<x, y, z>>, <<a, b, d>>>>,
   <<<<Attr(a, "x"), y>>, <<b, d>>>>, <<<<x, Subscr(a, b)>>, <<d, f>>>>,
   <<<<x, Tuple(<<y, z>>)>>, <<a, b>>>>}

Everywhere ==
  {Assign(<<x>>, e) : e \in Operators \cup Values}
  \cup {Assign(<<t>>, f) : t \in Targets} \cup {Assign(ts, f) : ts \in Chains}
  \cup {Assign(<<x, y>>, e) : e \in {Tuple(<<a, b>>), C(f, <<a>>), Binary("ADD", a, b)}}
  \cup {AugAssign(t, op, b) : t \in {x, Attr(a, "x"), Subscr(a, b)}, op \in {"ADD", "POWER"}}
  \cup {AugAssign(x, op, C(f, <<a>>)) :
          op \in {"SUBTRACT", "MULTIPLY", "DIVIDE", "MODULO", "LSHIFT", "RSHIFT", "AND", "XOR",
                  "OR", "FLOOR_DIVIDE"}}
  \cup {ExprStmt(e) : e \in {a, C(f, <<a>>), Attr(a, "b"), Tuple(<<a, b>>)}}
  \cup {Delete(t) : t \in {x, Attr(a, "x"), Subscr(a, b)} \cup Slices}
  \cup {Raise(<<>>), Raise(<<a>>), Raise(<<C(a, <<b>>), d>>)}
  \cup {ImportAs("p", ""), ImportAs("p", "q"), ImportAs("p.q", ""), ImportAs("p.q", "x"),
        ImportFrom("p", 0, <<<<"x", "x">>>>), ImportFrom("p", 1, <<<<"x", "y">>, <<"z", "z">>>>),
        ImportFrom("", 2, <<<<"x", "y">>>>)}
  \cup {Def("g", ds, h) : ds \in {<<>>, <<a>>, <<C(b, <<d>>), a>>},
                          h \in {Fn("g", <<>>, <<>>), Fn("g", <<"p", "q">>, <<a>>)}}
  \cup {For(t, f) : t \in {x, Tuple(<<x, y>>), Tuple(<<x, Tuple(<<y, z>>)>>), Attr(a, "b"),
                           Subscr(a, b)}}
  \cup {With(C(f, <<a>>), t) : t \in {Null, x, Tuple(<<x, y>>)}}

With3 ==
  {Assign(<<x>>, e) : e \in Since3} \cup {Assign(<<t>>, f) : t \in StarTargets}
  \cup {Assign(ts, f) : ts \in NoTargets} \cup {For(Tuple(<<>>), f)}
  \cup {AnnAssign("x", a, Null), AnnAssign("x", a, b), AnnAssign("x", Subscr(a, b), None)}
  \cup {Assign(<<x>>, Lam), Assign(<<Attr(a, "x")>>, Fn("<lambda>", <<"p">>, <<a>>))}
  \cup {ClassDef("g", <<>>, vs, <<>>) : vs \in {<<>>, <<a, b>>}}

With311 ==
  {Assign(<<x>>, e) : e \in Since311} \cup {Assign(<<x, y>>, None), ImportAs("p.q.r", "x")}
  \cup {Assign(<<Tuple(p[1])>>, Tuple(p[2])) : p \in Parallels}
  \cup {Def("g", ds, Annotated) : ds \in {<<>>, <<a>>}}
  \cup {ClassDef("g", ds, vs, kvs) :
          ds \in {<<a>>, <<C(b, <<d>>), a>>}, vs \in {<<>>, <<a, b>>}, kvs \in {<<>>, <<Kw("k", d)>>}}
  \cup {ClassDef("g", <<>>, <<a>>, <<Kw("k", d)>>), ClassDef("g", <<>>, <<a, Star(b)>>, <<>>)}

With2 ==
  {Assign(<<x>>, e) : e \in Only2} \cup {Raise(<<a, b, d>>), ImportAs("p.q.r", "x")}
  \cup {[PrintNode(vs, to) EXCEPT !.eol = eol] :
          vs \in {<<a>>, <<a, b>>, <<Tuple(<<a>>), Binary("ADD", a, b)>>}, to \in {Null, f},
          eol \in BOOLEAN}
  \cup {PrintNode(<<>>, Null), PrintNode(<<>>, f), PrintNode(<<a>>, C(f, <<>>))}
  \cup {Exec(a, Null, Null), Exec(a, b, Null), Exec(a, b, d)}

StatementsOf(v) ==
  Everywhere \cup (CASE v = 207 -> With2 [] v = 308 -> With3 [] v >= 311 -> With3 \cup With311)

InModule   == {ImportFrom("p.q", 0, <<<<"*", "*">>>>)}
InFunction == {Yield(a), Assign(<<x>>, YieldExpr(a)), ExprStmt(C(f, <<YieldExpr(a)>>))}

\* Statements that set or use each of the accumulators, to stand one after
\* the other.
Representative ==
  {Assign(<<x>>, a), Assign(<<x, y>>, f), Assign(<<Tuple(<<x, Tuple(<<y, z>>)>>)>>, f),
   Assign(<<Tuple(<<x, Star(y)>>)>>, f), Assign(<<Tuple(<<x, y>>)>>, Tuple(<<a, b>>)),
   Assign(<<Tuple(<<Attr(a, "x"), y>>)>>, Tuple(<<b, d>>)), AugAssign(Attr(a, "x"), "ADD", b),
   Assign(<<x>>, Binary("ADD", Walrus(a, Name("w")), b)), Def("g", <<a>>, Fn("g", <<>>, <<>>)),
   ImportFrom("p", 1, <<<<"x", "y">>, <<"z", "z">>>>), ExprStmt(C(f, <<a>>)), Delete(x)}

----------------------------------------------------------------------------
(* Programs.  A program says for which version it is, whether it is a      *)
(* function's body, which names that only reads, and which are in cells or *)
(* declared global.                                                        *)

Program(v, fn, reads, cells, gs, ss) ==
  [ver |-> v, fn |-> fn, reads |-> reads, cells |-> cells, globals |-> gs, ss |-> ss,
   super |-> FALSE]

HasStarTarget(s) == s.t = "assign" /\ s.vs[1] \in StarTargets
IsParallel(s)    == s.t = "assign" /\ s.arg.t = "tuple"

Singles(v) ==
  {Program(v, FALSE, {}, {}, {}, <<s>>) : s \in StatementsOf(v) \cup InModule}
  \cup {Program(v, TRUE, {}, {}, {}, <<s>>) : s \in StatementsOf(v) \cup InFunction}

\* The targets of for and with are no names that a global statement binds.
BindsGlobals(s) == s.t \notin {"for", "with"}

Globals ==
  {Program(311, fn, IF fn THEN {"f"} ELSE {}, {}, {"x"}, <<s>>) :
     fn \in BOOLEAN, s \in {t \in StatementsOf(311) : BindsGlobals(t)}}

\* A from-import and a dotted one with "as" bind no cell.
BindsCells(s) == s.t # "import_from" /\ (s.t = "import_as" => s.as = "" \/ s.id = "p")

InCells ==
  {Program(311, TRUE, {"f"}, {"a", "x", "g"}, {}, <<s>>) :
     s \in {t \in StatementsOf(311) : BindsCells(t)}}

\* A starred target is not followed by a parallel assignment.
TwoStatements ==
  {Program(311, fn, {}, {}, {}, ss) :
     fn \in BOOLEAN,
     ss \in {st \in Representative \X Representative :
              ~(HasStarTarget(st[1]) /\ IsParallel(st[2]))}}

\* A body of a class whose methods refer to it.
ClassBodies ==
  {[Program(v, FALSE, {}, {}, {}, ss) EXCEPT !.super = TRUE] :
     v \in {308, 311, 312},
     ss \in {<<Def("g", <<>>, Fn("g", <<"p">>, <<>>))>>, <<Assign(<<x, y>>, f), Delete(x)>>}}

\* Displays of mappings before Python 2.6.
OldMaps ==
  {Program(205, fn, {}, {}, {}, <<Assign(<<x>>, e)>>) :
     fn \in BOOLEAN, e \in {v \in Values : v.t = "map"} \cup {C(f, <<Map(<<<<a, b>>>>), d>>)}}

Programs ==
  UNION {Singles(v) : v \in {207, 308, 311, 312}}
  \cup Globals \cup InCells \cup TwoStatements \cup ClassBodies \cup OldMaps

CodeFor(p) ==
  Compile(p.ss, [Context(p.ver, p.fn, p.reads, p.cells, p.globals) EXCEPT !.super = p.super])
CodesFor(ps) == {[code |-> CodeFor(p), ver |-> p.ver] : p \in ps}
MCCodes == CodesFor(Programs)

\* Statements that Programs leaves out, since their source compiles to other
\* code: the SWAP of a parallel assignment does not reset unpackStar, an
\* assignment of a call looks like a decorator, defaults are given to the last
\* keyword-only parameters, an operator that is called or indexed loses its
\* parentheses, a cell takes no import, and the star is lost behind a tuple.
AfterStar ==
  {<<Assign(<<Tuple(<<x, Star(y)>>)>>, f), s>> : s \in {t \in Representative : IsParallel(t)}}

LikeDecorator ==
  {<<Def("g", <<>>, Fn("g", <<>>, <<>>)), Assign(<<Name("g")>>, C(d, <<Name("g")>>))>>}

KeywordDefaults ==
  {<<Def("g", <<>>, Function(CodeObj("g", 0, <<StrObj("p"), StrObj("q")>>), <<>>,
                             <<Kw("p", One)>>, <<>>))>>}

Unparenthesised ==
  {<<Assign(<<x>>, e)>> :
     e \in {C(Binary("ADD", a, b), <<d>>), Subscr(Binary("ADD", a, b), d), C(Unary("-", a), <<b>>),
            Subscr(Compare("<", a, b), d), Attr(Unary("-", a), "b"), Attr(Walrus(a, x), "b")}}

ImportedCells ==
  {<<s>> : s \in {ImportFrom("p", 0, <<<<"x", "x">>>>), ImportAs("p.q", "x")}}

StarBehindTuple == {<<Assign(<<Tuple(<<Tuple(<<y, z>>), Star(x)>>)>>, f)>>}

Misread ==
  CodesFor({Program(311, TRUE, {}, {"x"}, {}, ss) : ss \in ImportedCells}
           \cup {Program(311, FALSE, {}, {}, {}, ss) :
                   ss \in AfterStar \cup LikeDecorator \cup KeywordDefaults
                          \cup Unparenthesised \cup StarBehindTuple})

----------------------------------------------------------------------------
(* What the output compiles to again.                                      *)

NamesIn(ops) == {code[p].obj.v : p \in {q \in DOMAIN code : code[q].op \in ops}}

InFunctionBody == NamesIn({"LOAD_NAME", "STORE_NAME", "DELETE_NAME"}) = {}
OnlyRead       == NamesIn({"LOAD_GLOBAL"}) \ NamesIn({"STORE_GLOBAL", "DELETE_GLOBAL"})
Cells          == NamesIn({"LOAD_DEREF", "STORE_DEREF", "DELETE_DEREF"})

InClassBody    == "__classcell__" \in NamesIn({"STORE_NAME"})

ContextOf(lines) ==
  [Context(ver, InFunctionBody, OnlyRead, Cells, Py!DeclaredGlobal(lines)) EXCEPT
     !.super = InClassBody]

\* The source that is written for a piece of code compiles to that code
\* again (README.markdown, "recompiles to the same byte-code").
Recompiles ==
  pos > Len(code) =>
    \E lines \in {Out!Rendered(blocks, globals, ver)} :
      \E context \in {ContextOf(lines)}, program \in {Py!Parse(lines, ver)} :
        Compile(program, context) = code

\* When the code ends, no target, value or mark waits for an instruction that
\* never comes.  What the code leaves on the stack: since 3.12 the iterator of
\* a loop, below its body; the item of a loop that unpacks it into no target;
\* before 3.11 the object of an augmented attribute, copied by DUP_TOP.
InLoop == curblock.type = "for"
StaysBehind ==
  {why \in {"iterator", "item", "object"} :
     CASE why = "iterator" -> ver >= 312 /\ InLoop
       [] why = "item"     -> InLoop /\ curblock.index = Tuple(<<>>)
       [] why = "object"   ->
            ver < 311 /\ \E p \in 2..Len(code) :
              code[p - 1].op = "ROT_TWO" /\ code[p].op = "STORE_ATTR"}

NothingPending ==
  pos > Len(code) =>
    /\ unpack = 0 /\ unpackNest = <<>> /\ tupleStore = 0
    /\ ~inplaceStore
    /\ ~AwaitsIndex /\ ~AwaitsManager
    /\ Len(stack) = Cardinality(StaysBehind)

=============================================================================
