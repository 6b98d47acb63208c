------------------------------- MODULE Nodes --------------------------------
(***************************************************************************)
(* The constants and the nodes of the syntax tree that straight-line code  *)
(* builds (classes ASTObject to ASTAnnotatedVar of ASTNode.h), and the     *)
(* operand stack they are built on (FastStack.h).                          *)
(*                                                                         *)
(* A constant and a node are records; field t is the node's type.  Null is *)
(* the null reference: it stands for a missing operand, for the constant   *)
(* None and for the interpreter's own NULL.                                *)
(***************************************************************************)
EXTENDS Naturals, Sequences

Obj(k, v, n, vs) == [k |-> k, v |-> v, n |-> n, vs |-> vs]

NoneObj      == Obj("none", "", 0, <<>>)
StrObj(v)    == Obj("str", v, 0, <<>>)
IntObj(n)    == Obj("int", "", n, <<>>)
TupleObj(vs) == Obj("tuple", "", 0, vs)
SetObj(vs)   == Obj("frozenset", "", 0, vs)
\* The code object called v: its parameters, the first n of them positional.
CodeObj(v, n, params) == Obj("code", v, n, params)

\* The tokens of source text: symbols and keywords, names, the text of a
\* nested code object; constants are tokens too.
Sym(s)  == Obj("sym", s, 0, <<>>)
Id(x)   == Obj("id", x, 0, <<>>)
Body(x) == Obj("body", x, 0, <<>>)

Null == [t |-> "null"]

\* The parts of a dotted module name, for the names that the model uses.
DottedParts(id) ==
  CASE id = "p.q"   -> <<"p", "q">>
    [] id = "p.q.r" -> <<"p", "q", "r">>
    [] OTHER        -> <<id>>

Object(o)        == [t |-> "object", obj |-> o]
Name(x)          == [t |-> "name", id |-> x]
Unary(op, x)     == [t |-> "unary", op |-> op, arg |-> x]
Binary(op, l, r) == [t |-> "binary", op |-> op, left |-> l, right |-> r]
Compare(op, l, r) == [t |-> "compare", op |-> op, left |-> l, right |-> r]
Attr(x, a)       == Binary("ATTR", x, Name(a))
\* n has bit 0 set when the lower bound is written, bit 1 when the upper is.
Slice(n, l, r)   == [t |-> "slice", n |-> n, left |-> l, right |-> r]
Subscr(x, key)   == [t |-> "subscr", arg |-> x, key |-> key]
Convert(x)       == [t |-> "convert", arg |-> x]
Await(x)         == [t |-> "await", arg |-> x]

List(vs)         == [t |-> "list", vs |-> vs]
Set(vs)          == [t |-> "set", vs |-> vs]
Tuple(vs)        == [t |-> "tuple", vs |-> vs]
Map(kvs)         == [t |-> "map", kvs |-> kvs]     \* pairs <<key, value>>
ConstMap(ks, vs) == [t |-> "const_map", obj |-> ks, vs |-> vs]
KwNamesMap(kvs)  == [t |-> "kw_names", kvs |-> kvs]
JoinedStr(vs)    == [t |-> "joined_str", vs |-> vs]
Formatted(x, conv, spec) ==
  [t |-> "formatted", arg |-> x, n |-> conv, spec |-> spec]

Call(f, ps, kvs) ==
  [t |-> "call", func |-> f, vs |-> ps, kvs |-> kvs, var |-> Null, kw |-> Null]

Function(code, defs, kwdefs, annots) ==
  [t |-> "function", obj |-> code, vs |-> defs, kwdefs |-> kwdefs,
   annots |-> annots, decorators |-> <<>>]

Class(fn, bases, name, kw) ==
  [t |-> "class", func |-> fn, vs |-> bases, name |-> name, kw |-> kw,
   decorators |-> <<>>]

\* The entries of a map whose keys are one constant.
ConstMapEntries(m) ==
  [j \in DOMAIN m.vs |-> <<Object(m.obj.vs[j]), m.vs[j]>>]

LoadBuildClass == [t |-> "build_class"]

Import(name, from, level) ==
  [t |-> "import", id |-> name, from |-> from, n |-> level, stores |-> <<>>]

Store(src, dest)      == [t |-> "store", src |-> src, dest |-> dest]
Walrus(src, dest)     == [t |-> "walrus", src |-> src, dest |-> dest]
ChainStore(src)       == [t |-> "chain_store", src |-> src, vs |-> <<>>]
AnnotatedVar(x, a)    == [t |-> "annotated", name |-> x, arg |-> a]
Delete(x)             == [t |-> "delete", arg |-> x]
Raise(vs)             == [t |-> "raise", vs |-> vs]
Exec(stmt, glob, loc) == [t |-> "exec", arg |-> stmt, glob |-> glob, loc |-> loc]
\* A print statement without a value is complete.
PrintNode(vs, stream) == [t |-> "print", vs |-> vs, stream |-> stream, eol |-> vs = <<>>]

\* Parentheses or brackets around a value are the renderer's: a yield that
\* is a statement and one that is a value are two kinds.
Yield(x)     == [t |-> "yield", arg |-> x]
YieldExpr(x) == [t |-> "yield_expr", arg |-> x]

----------------------------------------------------------------------------
(* FastStack: the top is the last element.  Reading below the bottom gives *)
(* Null, popping an empty stack leaves it empty.                           *)

Push(s, x) == Append(s, x)
Peek(s, i) == IF i \in 1..Len(s) THEN s[Len(s) + 1 - i] ELSE Null
Drop(s, n) == IF n < Len(s) THEN SubSeq(s, 1, Len(s) - n) ELSE <<>>

\* The n values on top, the deepest first.
Above(s, n) == [i \in 1..n |-> Peek(s, n + 1 - i)]

\* The n values on top replaced by x.
Fold(s, n, x) == Push(Drop(s, n), x)

=============================================================================
