------------------------------ MODULE Renderer ------------------------------
(***************************************************************************)
(* How ASTRender.cpp spells the statements that module StatementBuilder    *)
(* builds: print_src, with the parentheses that cmp_prec asks for.         *)
(*                                                                         *)
(* A statement becomes lines of tokens.  A token is a symbol, a name, or a *)
(* constant of module Nodes; blanks and line breaks inside a statement     *)
(* (the layout) are left out.                                              *)
(***************************************************************************)
EXTENDS Nodes, Integers

LOCAL S == INSTANCE SequencesExt

Flat(tss) == S!FlattenSeq(tss)
Separated(tss, sep) ==
  Flat([j \in DOMAIN tss |-> (IF j = 1 THEN <<>> ELSE <<Sym(sep)>>) \o tss[j]])
Commas(tss) == Separated(tss, ",")
Between(open, ts, close) == <<Sym(open)>> \o ts \o <<Sym(close)>>
Parens(ts) == Between("(", ts, ")")

----------------------------------------------------------------------------
(* Precedence.                                                             *)

BinaryText ==
  [ATTR |-> ".", POWER |-> "**", MULTIPLY |-> "*", DIVIDE |-> "/",
   FLOOR_DIVIDE |-> "//", MODULO |-> "%", ADD |-> "+", SUBTRACT |-> "-",
   LSHIFT |-> "<<", RSHIFT |-> ">>", AND |-> "&", XOR |-> "^", OR |-> "|",
   MAT_MULTIPLY |-> "@", IP_ADD |-> "+=", IP_SUBTRACT |-> "-=",
   IP_MULTIPLY |-> "*=", IP_DIVIDE |-> "/=", IP_MODULO |-> "%=",
   IP_POWER |-> "**=", IP_LSHIFT |-> "<<=", IP_RSHIFT |-> ">>=",
   IP_AND |-> "&=", IP_XOR |-> "^=", IP_OR |-> "|=",
   IP_FLOOR_DIVIDE |-> "//=", IP_MAT_MULTIPLY |-> "@="]

Augmented(op) == op \notin
  {"ATTR", "POWER", "MULTIPLY", "DIVIDE", "FLOOR_DIVIDE", "MODULO", "ADD",
   "SUBTRACT", "LSHIFT", "RSHIFT", "AND", "XOR", "OR", "MAT_MULTIPLY"}

\* 0: no arithmetic operator.
bin_arith_prec(op) ==
  CASE op = "POWER"                -> 7
    [] op \in {"MULTIPLY", "DIVIDE", "FLOOR_DIVIDE", "MODULO", "MAT_MULTIPLY"} -> 6
    [] op \in {"ADD", "SUBTRACT"}  -> 5
    [] op \in {"LSHIFT", "RSHIFT"} -> 4
    [] op = "AND"                  -> 3
    [] op = "XOR"                  -> 2
    [] op = "OR"                   -> 1
    [] OTHER                       -> 0

\* The order of the unary operators' numbers.
UnaryRank == [p \in {"+", "-", "~", "not", "*"} |->
  CASE p = "+" -> 0 [] p = "-" -> 1 [] p = "~" -> 2 [] p = "not" -> 3 [] p = "*" -> 4]

\* Mutant: an operand of the parent's precedence is never parenthesised.
BinaryInBinaryLoose(parent, child, right) ==
  LET pp == bin_arith_prec(parent)
      cp == bin_arith_prec(child)
  IN IF pp > 0 /\ cp > 0 THEN cp < pp ELSE parent = "ATTR" /\ child # "ATTR"

BinaryInBinary(parent, child, right) ==
  LET pp == bin_arith_prec(parent)
      cp == bin_arith_prec(child)
  IN IF pp > 0 /\ cp > 0
     THEN cp < pp \/ (cp = pp /\ (right # (parent = "POWER")))
     ELSE parent = "ATTR" /\ child # "ATTR"

\* Whether the child of parent is parenthesised; right: it is the right operand.
cmp_prec(parent, child, right) ==
  LET pt == parent.t  ct == child.t
      negation == pt = "unary" /\ parent.op = "not"
  IN CASE negation \/ ct \notin {"binary", "unary", "compare"} -> FALSE
       [] ~negation /\ ct = "binary" ->
            \/ pt = "binary" /\ BinaryInBinary(parent.op, child.op, right)
            \/ pt = "unary" /\ child.op \notin {"POWER", "ATTR"}
       [] ~negation /\ ct = "unary" ->
            \/ pt = "binary" /\ (child.op = "not" \/ (parent.op = "POWER" /\ ~right))
            \/ pt = "compare" /\ child.op = "not"
            \/ pt = "unary" /\ UnaryRank[child.op] > UnaryRank[parent.op]
       [] ~negation /\ ct = "compare" -> TRUE

----------------------------------------------------------------------------
(* Constants and expressions.                                              *)

RECURSIVE print_const(_)
print_const(o) ==
  LET items == Commas([j \in DOMAIN o.vs |-> print_const(o.vs[j])])
  IN CASE o.k = "tuple" ->
            Parens(items \o (IF Len(o.vs) = 1 THEN <<Sym(",")>> ELSE <<>>))
       [] o.k = "frozenset" -> <<Id("frozenset")>> \o Parens(Between("{", items, "}"))
       [] o.k = "int" /\ o.n < 0 -> <<Sym("-"), IntObj(0 - o.n)>>
       [] OTHER -> <<o>>

\* A key that is written as the name of a keyword argument.
isKwargIdentifier(v) == v \notin {"", "a b"}
IsKeyword(k) == k.t = "object" /\ k.obj.k = "str" /\ isKwargIdentifier(k.obj.v)

Conversion == <<"!s", "!r", "!a">>

IsInt(x) == x.t = "object" /\ x.obj.k = "int"
IsFrozenset(x) == x.t = "object" /\ x.obj.k = "frozenset" /\ x.obj.vs # <<>>
IsSpread(x) == x.t = "unary" /\ x.op = "*"

Annotation(f, name) ==
  LET named == SelectSeq(f.annots, LAMBDA p : p[1].obj.v = name)
  IN IF named = <<>> THEN Null ELSE named[1][2]

RECURSIVE print_src(_), print_formatted_value(_), Parameters(_)

print_all(xs) == [j \in DOMAIN xs |-> print_src(xs[j])]

print_ordered(parent, child, right) ==
  IF cmp_prec(parent, child, right) THEN Parens(print_src(child)) ELSE print_src(child)

\* A tuple of more than one element may do without its parentheses.
print_bare_tuple_value(x) ==
  IF x.t = "tuple" /\ Len(x.vs) > 1 THEN Commas(print_all(x.vs)) ELSE print_src(x)

print_binary(x) ==
  LET attrIntObj == x.t = "binary" /\ x.op = "ATTR" /\ IsInt(x.left)
      left == print_ordered(x, x.left, FALSE)
      froze == x.op \in {"in", "not in"} /\ IsFrozenset(x.right)
  IN (IF attrIntObj THEN Parens(left) ELSE left)
     \o <<Sym(IF x.t = "compare" THEN x.op ELSE BinaryText[x.op])>>
     \o (IF froze THEN Between("{", Commas([j \in DOMAIN x.right.obj.vs |->
                                      print_const(x.right.obj.vs[j])]), "}")
         ELSE print_ordered(x, x.right, TRUE))

\* Defaults belong to the last parameters, of either kind.
Parameters(f) ==
  LET code == f.obj
      n == code.n
      nk == Len(code.vs) - n
      param(j, default) ==
        LET at == Annotation(f, code.vs[j].v)
        IN <<Id(code.vs[j].v)>>
           \o (IF at = Null THEN <<>> ELSE <<Sym(":")>> \o print_src(at))
           \o (IF default = Null THEN <<>> ELSE <<Sym("=")>> \o print_src(default))
      plain(j)  == IF n - j < Len(f.vs) THEN f.vs[j - n + Len(f.vs)] ELSE Null
      kwonly(j) == IF nk - j < Len(f.kwdefs) THEN f.kwdefs[j - nk + Len(f.kwdefs)] ELSE Null
  IN Commas([j \in 1..n |-> param(j, plain(j))]
            \o (IF nk = 0 THEN <<>> ELSE <<<<Sym("*")>>>>)
            \o [j \in 1..nk |-> param(n + j, kwonly(j))])

Lambda(f) == <<Sym("lambda")>> \o Parameters(f) \o <<Sym(":"), Body(f.obj.v)>>

\* The parentheses of a lambda that is an argument are left out.
Argument(x) == IF x.t = "function" THEN Lambda(x) ELSE print_src(x)

Keyword(k, x) == <<Id(IF k.t = "name" THEN k.id ELSE k.obj.v), Sym("=")>> \o x

\* The mapping of a call is written as keyword arguments where all its keys
\* are names.
KwArguments(kw) ==
  LET kvs == CASE kw.t = "map" -> kw.kvs
               [] kw.t = "const_map" -> ConstMapEntries(kw)
               [] OTHER -> <<>>
      unrolled == kvs # <<>> /\ \A j \in DOMAIN kvs :
                                  kvs[j][1] = Null \/ IsKeyword(kvs[j][1])
  IN IF kw = Null THEN <<>>
     ELSE IF ~unrolled THEN <<<<Sym("**")>> \o print_src(kw)>>
     ELSE [j \in DOMAIN kvs |->
             IF kvs[j][1] = Null THEN <<Sym("**")>> \o print_src(kvs[j][2])
             ELSE Keyword(kvs[j][1], print_src(kvs[j][2]))]

\* Spread arguments: a tuple that holds a spread is spread out itself, an
\* empty one before a mapping is dropped.
VarArguments(x) ==
  LET isTuple == x.var.t = "tuple"
      spreadInline == /\ isTuple /\ Len(x.var.vs) > 1
                      /\ \E j \in DOMAIN x.var.vs : IsSpread(x.var.vs[j])
  IN IF x.var = Null \/ (isTuple /\ x.var.vs = <<>> /\ x.kw # Null) THEN <<>>
     ELSE IF spreadInline THEN print_all(x.var.vs)
     ELSE <<<<Sym("*")>> \o print_src(x.var)>>

print_call(x) ==
  print_src(x.func)
  \o Parens(Commas(
       [j \in DOMAIN x.vs |-> Argument(x.vs[j])]
       \o [j \in DOMAIN x.kvs |-> Keyword(x.kvs[j][1], Argument(x.kvs[j][2]))]
       \o VarArguments(x) \o KwArguments(x.kw)))

print_map(kvs) ==
  Between("{", Commas([j \in DOMAIN kvs |->
    IF kvs[j][1] = Null THEN <<Sym("**")>> \o print_src(kvs[j][2])
    ELSE print_src(kvs[j][1]) \o <<Sym(":")>> \o print_src(kvs[j][2])]), "}")

Pieces(xs) ==
  Flat([j \in DOMAIN xs |-> IF xs[j].t = "formatted" THEN print_formatted_value(xs[j])
                             ELSE <<xs[j].obj>>])

print_formatted_value(x) ==
  Between("{",
    print_src(x.arg)
    \o (IF x.n = 0 THEN <<>> ELSE <<Sym(Conversion[x.n])>>)
    \o (IF x.spec = Null THEN <<>>
        ELSE <<Sym(":")>> \o (CASE x.spec.t = "object"     -> <<x.spec.obj>>
                                [] x.spec.t = "joined_str" -> Pieces(x.spec.vs)
                                [] x.spec.t = "formatted"  -> print_formatted_value(x.spec)
                                [] OTHER                   -> print_src(x.spec))),
    "}")

FString(ts) == <<Sym("f'")>> \o ts \o <<Sym("'")>>

print_slice(x) ==
  (IF x.n % 2 = 1 THEN print_src(x.left) ELSE <<>>) \o <<Sym(":")>>
  \o (IF x.n > 1 THEN print_src(x.right) ELSE <<>>)

\* The null reference is written as None.
print_src(x) ==
  CASE x.t = "null"       -> <<NoneObj>>
    [] x.t = "object"     -> print_const(x.obj)
    [] x.t = "name"       -> <<Id(x.id)>>
    [] x.t \in {"binary", "compare"} -> print_binary(x)
    [] x.t = "unary"      -> <<Sym(x.op)>> \o print_ordered(x, x.arg, FALSE)
    [] x.t = "await"      -> <<Sym("await")>> \o print_src(x.arg)
    [] x.t = "call"       -> print_call(x)
    [] x.t = "subscr"     -> print_src(x.arg) \o Between("[", print_src(x.key), "]")
    [] x.t = "slice"      -> print_slice(x)
    [] x.t = "convert"    -> Between("backquote", print_src(x.arg), "backquote")
    [] x.t = "list"       -> Between("[", Commas(print_all(x.vs)), "]")
    [] x.t = "set"        -> Between("{", Commas(print_all(x.vs)), "}")
    [] x.t = "tuple"      ->
         Parens(Commas(print_all(x.vs)) \o (IF Len(x.vs) = 1 THEN <<Sym(",")>> ELSE <<>>))
    [] x.t = "map"        -> print_map(x.kvs)
    [] x.t = "const_map"  -> print_map(ConstMapEntries(x))
    [] x.t = "joined_str" -> FString(Pieces(x.vs))
    [] x.t = "formatted"  -> FString(print_formatted_value(x))
    [] x.t = "function"   -> Parens(Lambda(x))
    [] x.t = "walrus"     -> Parens(print_src(x.dest) \o <<Sym(":=")>> \o print_src(x.src))
    [] x.t = "yield_expr" -> Parens(<<Sym("yield")>> \o print_src(x.arg))
    [] x.t = "chain_store" ->
         Flat([j \in DOMAIN x.vs |-> print_src(x.vs[j]) \o <<Sym("=")>>])
         \o print_bare_tuple_value(x.src)
    [] x.t = "annotated"  -> <<Id(x.name.obj.v), Sym(":")>> \o print_src(x.arg)
    [] OTHER              -> <<Sym("?")>>      \* no source text

----------------------------------------------------------------------------
(* Statements.                                                             *)

ModuleName(x) == (IF x.id = "" THEN <<>> ELSE <<Id(x.id)>>)
Dots(n) == IF n < 1 THEN <<>> ELSE [j \in 1..n |-> Sym(".")]
As(src, dest) ==
  print_src(src) \o (IF src.id = dest.id THEN <<>> ELSE <<Sym("as")>> \o print_src(dest))

\* import a.b as c: the name bound without "as" is the first part.
PlainImport(x, dest) ==
  <<Sym("import"), Id(x.id)>>
  \o (IF dest.id = DottedParts(x.id)[1] THEN <<>> ELSE <<Sym("as")>> \o print_src(dest))

FromImport(x, names) ==
  <<Sym("from")>> \o Dots(x.n) \o ModuleName(x) \o <<Sym("import")>> \o Commas(names)

FromListNames(o) ==
  IF o.k = "tuple" THEN [j \in DOMAIN o.vs |-> <<Id(o.vs[j].v)>>] ELSE <<<<Id(o.v)>>>>

\* An import that is no value: its stores are the names it binds.
print_import(x) ==
  IF x.stores = <<>> THEN <<Sym("import"), Id(x.id)>>
  ELSE IF x.from = Null THEN PlainImport(x, x.stores[Len(x.stores)].dest)
  ELSE FromImport(x, [j \in DOMAIN x.stores |-> As(x.stores[j].src, x.stores[j].dest)])

Decorators(x) == [j \in DOMAIN x.decorators |-> <<Sym("@")>> \o print_src(x.decorators[j])]

DefLines(f, dest) ==
  LET returns == Annotation(f, "return")
  IN Decorators(f) \o
     <<<<Sym("def")>> \o print_src(dest) \o Parens(Parameters(f))
       \o (IF returns = Null THEN <<>> ELSE <<Sym("->")>> \o print_src(returns))
       \o <<Sym(":"), Body(f.obj.v)>>>>

ClassLines(c, dest) ==
  LET kvs == IF c.kw.t = "kw_names" THEN c.kw.kvs ELSE <<>>
      args == print_all(c.vs)
              \o [j \in DOMAIN kvs |-> Keyword(kvs[j][1], print_src(kvs[j][2]))]
  IN Decorators(c) \o
     <<<<Sym("class")>> \o print_src(dest)
       \o (IF args = <<>> THEN <<>> ELSE Parens(Commas(args)))
       \o <<Sym(":"), Body(dest.id)>>>>

\* The lines of an assignment.
StoreLines(src, dest) ==
  CASE src.t = "function" /\ src.obj.v = "<lambda>" ->
         <<print_src(dest) \o <<Sym("=")>> \o Lambda(src)>>
    [] src.t = "function" /\ src.obj.v # "<lambda>" -> DefLines(src, dest)
    [] src.t = "class"  -> ClassLines(src, dest)
    [] src.t = "import" ->
         <<IF src.from = Null THEN PlainImport(src, dest)
           ELSE FromImport(src, FromListNames(src.from.obj))>>
    [] src.t = "binary" /\ Augmented(src.op) -> <<print_src(src)>>
    [] OTHER ->
         <<print_bare_tuple_value(dest) \o <<Sym("=")>> \o print_bare_tuple_value(src)>>

print_print(x) ==
  <<Sym("print")>>
  \o Commas((IF x.stream = Null THEN <<>> ELSE <<<<Sym(">>")>> \o print_src(x.stream)>>)
            \o print_all(x.vs))
  \o (IF x.eol THEN <<>> ELSE <<Sym(",")>>)

\* The two namespaces of exec may be one node.
print_exec(x) ==
  <<Sym("exec")>> \o print_src(x.arg)
  \o (IF x.glob = Null THEN <<>> ELSE <<Sym("in")>> \o print_src(x.glob))
  \o (IF x.glob = Null \/ x.loc = Null \/ x.glob.at = x.loc.at THEN <<>>
      ELSE <<Sym(",")>> \o print_src(x.loc))

print_raise(x, ver) ==
  <<Sym("raise")>>
  \o Separated(print_all(x.vs), IF ver >= 300 /\ Len(x.vs) = 2 THEN "from" ELSE ",")

\* The lines of a statement.
print_stmt(x, ver) ==
  CASE x.t = "store"       -> StoreLines(x.src, x.dest)
    [] x.t = "import"      -> <<print_import(x)>>
    [] x.t = "delete"      -> <<<<Sym("del")>> \o print_src(x.arg)>>
    [] x.t = "raise"       -> <<print_raise(x, ver)>>
    [] x.t = "print"       -> <<print_print(x)>>
    [] x.t = "exec"        -> <<print_exec(x)>>
    [] x.t = "yield"       -> <<<<Sym("yield")>> \o print_bare_tuple_value(x.arg)>>
    [] OTHER               -> <<print_src(x)>>

\* The header of a block.
print_header(b) ==
  IF b.type = "for"
  THEN <<Sym("for")>> \o print_src(b.index) \o <<Sym("in")>> \o print_src(b.iter) \o <<Sym(":")>>
  ELSE <<Sym("with")>> \o print_src(b.expr)
       \o (IF b.var = Null THEN <<>> ELSE <<Sym("as")>> \o print_src(b.var)) \o <<Sym(":")>>

print_block(b, ver) ==
  (IF b.type = "main" THEN <<>> ELSE <<print_header(b)>>)
  \o Flat([j \in DOMAIN b.nodes |-> print_stmt(b.nodes[j], ver)])

\* The global statement comes first.  Names in it have no order.
Rendered(blocks, globals, ver) ==
  (IF globals = {} THEN <<>>
   ELSE <<<<Sym("global")>> \o Commas([j \in 1..Len(S!SetToSeq(globals)) |->
                                        <<Id(S!SetToSeq(globals)[j])>>])>>)
  \o Flat([j \in DOMAIN blocks |-> print_block(blocks[j], ver)])

=============================================================================
