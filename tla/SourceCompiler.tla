--------------------------- MODULE SourceCompiler ---------------------------
(***************************************************************************)
(* What CPython's compiler makes of straight-line source: the code that    *)
(* the decompiler is given, and what its output is compiled to again.      *)
(* Modelled from how the builder's handlers take that code apart.          *)
(*                                                                         *)
(* Source expressions are nodes of module Nodes, without the nodes that    *)
(* only the builder makes.  A context says for which version the code is,  *)
(* whether it is a function's, which names that only reads, and which are  *)
(* in cells or declared global; super: it is the body of a class with a    *)
(* method that refers to the class.                                        *)
(***************************************************************************)
EXTENDS ExpressionBuilder, FiniteSets, TLC

S == INSTANCE SequencesExt

Context(ver, fn, reads, cells, globals) ==
  [ver |-> ver, fn |-> fn, reads |-> reads, cells |-> cells, globals |-> globals,
   super |-> FALSE]

None == Object(NoneObj)

\* Statements.
Assign(targets, x)   == [t |-> "assign", vs |-> targets, arg |-> x]
AugAssign(x, op, y)  == [t |-> "augassign", dest |-> x, op |-> op, arg |-> y]
AnnAssign(x, ann, y) == [t |-> "annassign", id |-> x, ann |-> ann, arg |-> y]
ExprStmt(x)          == [t |-> "expr", arg |-> x]
ImportAs(id, as)     == [t |-> "import_as", id |-> id, as |-> as]
ImportFrom(id, level, names) ==
  [t |-> "import_from", id |-> id, n |-> level, names |-> names]
Def(name, decorators, f) ==
  [t |-> "def", id |-> name, decorators |-> decorators, arg |-> f]
ClassDef(name, decorators, bases, kvs) ==
  [t |-> "classdef", id |-> name, decorators |-> decorators, vs |-> bases, kvs |-> kvs]
For(x, iter)         == [t |-> "for", dest |-> x, arg |-> iter]
With(x, var)         == [t |-> "with", arg |-> x, dest |-> var]
Star(x)              == Unary("*", x)
ChainedComparison    == [t |-> "chained_comparison"]
Wrong                == [t |-> "wrong"]          \* no Python

----------------------------------------------------------------------------

\* Code of no straight-line program: a jump, or an error of the compiler.
NotStraight == <<Instr("JUMP_IF_FALSE_OR_POP", 0, NoneObj)>>
Rejected    == <<Instr("SYNTAX_ERROR", 0, NoneObj)>>

Op(op)          == Instr(op, 0, NoneObj)
Arg(op, n)      == Instr(op, n, NoneObj)
Named(op, x)    == Instr(op, 0, StrObj(x))
LoadConst(o)    == Instr("LOAD_CONST", 0, o)

Kind(x, c) ==
  CASE x \in c.globals -> "GLOBAL"
    [] x \notin c.globals /\ ~c.fn -> "NAME"
    [] x \notin c.globals /\ c.fn /\ x \in c.cells -> "DEREF"
    [] x \notin c.globals /\ c.fn /\ x \notin c.cells ->
         IF x \in c.reads THEN "GLOBAL" ELSE "FAST"

NameOps == [NAME   |-> <<"LOAD_NAME", "STORE_NAME", "DELETE_NAME">>,
            GLOBAL |-> <<"LOAD_GLOBAL", "STORE_GLOBAL", "DELETE_GLOBAL">>,
            FAST   |-> <<"LOAD_FAST", "STORE_FAST", "DELETE_FAST">>,
            DEREF  |-> <<"LOAD_DEREF", "STORE_DEREF", "DELETE_DEREF">>]
OnName(j, x, c) == Named(NameOps[Kind(x, c)][j], x)

AllConst(xs) == \A j \in DOMAIN xs : xs[j].t = "object"
Consts(xs)   == [j \in DOMAIN xs |-> xs[j].obj]
IsStar(x)    == x.t = "unary" /\ x.op = "*"
HasStar(xs)  == \E j \in DOMAIN xs : IsStar(xs[j])

\* A value under the NULL that a call takes with it since 3.11; the load of
\* a global brings its own.
Marked(xs, c) ==
  IF c.ver < 311 THEN xs
  ELSE IF xs[1].op = "LOAD_GLOBAL" /\ xs[1].arg = 0
  THEN [xs EXCEPT ![1].arg = 1]
  ELSE <<Op("PUSH_NULL")>> \o xs

\* The operators by number since 3.11, the augmented ones after the others.
Arithmetic ==
  <<"ADD", "AND", "FLOOR_DIVIDE", "LSHIFT", "MAT_MULTIPLY", "MULTIPLY", "MODULO",
    "OR", "POWER", "RSHIFT", "SUBTRACT", "DIVIDE", "XOR">>

BinaryCode(op, inplace, ver) ==
  LET number == CHOOSE j \in DOMAIN Arithmetic : Arithmetic[j] = op
      suffix == CASE op = "MAT_MULTIPLY"             -> "MATRIX_MULTIPLY"
                  [] op = "DIVIDE" /\ ver >= 300     -> "TRUE_DIVIDE"
                  [] OTHER                           -> op
  IN IF ver >= 311 THEN Arg("BINARY_OP", number - 1 + (IF inplace THEN 13 ELSE 0))
     ELSE Op((IF inplace THEN "INPLACE_" ELSE "BINARY_") \o suffix)

UnaryCode ==
  "+" :> "UNARY_POSITIVE" @@ "-" :> "UNARY_NEGATIVE" @@ "~" :> "UNARY_INVERT"
  @@ "not" :> "UNARY_NOT"

\* Membership and identity have opcodes of their own since 3.9.
CompareCode(op, ver) ==
  LET order == <<"<", "<=", "==", "!=", ">", ">=", "in", "not in", "is", "is not">>
      j == CHOOSE k \in DOMAIN order : order[k] = op
  IN CASE ver >= 309 /\ j \in 7..8  -> Arg("CONTAINS_OP", j - 7)
       [] ver >= 309 /\ j \in 9..10 -> Arg("IS_OP", j - 9)
       [] OTHER -> Arg("COMPARE_OP", IF ver = 312 THEN 16 * (j - 1) ELSE j - 1)

RECURSIVE Code(_, _), All(_, _), Starred(_, _, _, _, _), DictFrom(_, _, _, _)

All(xs, c) == S!FlattenSeq([j \in DOMAIN xs |-> Code(xs[j], c)])

\* A display with spread values: built up to the first, then extended.
Starred(xs, j, built, build, c) ==
  IF j > Len(xs) THEN <<>>
  ELSE IF IsStar(xs[j])
  THEN (IF built THEN <<>> ELSE <<Arg(build[1], j - 1)>>)
       \o Code(xs[j].arg, c) \o <<Arg(build[2], 1)>>
       \o Starred(xs, j + 1, TRUE, build, c)
  ELSE Code(xs[j], c) \o (IF built THEN <<Arg(build[3], 1)>> ELSE <<>>)
       \o Starred(xs, j + 1, built, build, c)

ListOps == <<"BUILD_LIST", "LIST_EXTEND", "LIST_APPEND">>
SetOps  == <<"BUILD_SET", "SET_UPDATE", "SET_ADD">>

TupleCode(xs, c) ==
  IF HasStar(xs) THEN Starred(xs, 1, FALSE, ListOps, c) \o <<Op("LIST_TO_TUPLE")>>
  ELSE IF AllConst(xs) THEN <<LoadConst(TupleObj(Consts(xs)))>>
  ELSE All(xs, c) \o <<Arg("BUILD_TUPLE", Len(xs))>>

SubDict(kvs, c) ==
  LET keys == [j \in DOMAIN kvs |-> kvs[j][1]]
      values == [j \in DOMAIN kvs |-> kvs[j][2]]
  IN IF Len(kvs) > 1 /\ AllConst(keys)
     THEN All(values, c)
          \o <<LoadConst(TupleObj(Consts(keys))), Arg("BUILD_CONST_KEY_MAP", Len(kvs))>>
     ELSE All(S!FlattenSeq(kvs), c) \o <<Arg("BUILD_MAP", Len(kvs))>>

\* kvs from j on; have says that a map is on the stack.  The key of a spread
\* mapping is Null.
DictFrom(kvs, j, have, c) ==
  LET spreads == {k \in j..Len(kvs) : kvs[k][1] = Null}
      next == IF spreads = {} THEN Len(kvs) + 1 ELSE CHOOSE k \in spreads : \A l \in spreads : k <= l
      update == <<Arg("DICT_UPDATE", 1)>>
      pairs == IF next = j THEN <<>>
               ELSE SubDict(SubSeq(kvs, j, next - 1), c) \o (IF have THEN update ELSE <<>>)
      have1 == have \/ next > j
  IN IF next > Len(kvs) THEN pairs \o (IF have1 THEN <<>> ELSE <<Arg("BUILD_MAP", 0)>>)
     ELSE pairs \o (IF have1 THEN <<>> ELSE <<Arg("BUILD_MAP", 0)>>)
          \o Code(kvs[next][2], c) \o update
          \o (IF next = Len(kvs) THEN <<>> ELSE DictFrom(kvs, next + 1, TRUE, c))

DictCode(kvs, c) ==
  IF c.ver >= 305 THEN DictFrom(kvs, 1, FALSE, c)
  ELSE IF c.ver < 206
  THEN <<Arg("BUILD_MAP", 0)>>
       \o S!FlattenSeq([j \in DOMAIN kvs |->
            <<Op("DUP_TOP")>> \o Code(kvs[j][2], c) \o <<Op("ROT_TWO")>>
            \o Code(kvs[j][1], c) \o <<Op("STORE_SUBSCR")>>])
  ELSE <<Arg("BUILD_MAP", Len(kvs))>>
       \o S!FlattenSeq([j \in DOMAIN kvs |->
            Code(kvs[j][2], c) \o Code(kvs[j][1], c) \o <<Op("STORE_MAP")>>])

Bound(x, c) == Code(IF x = Null THEN None ELSE x, c)

\* The last instruction of a subscript: how = 1 reads, 2 stores, 3 deletes.
SubscrCode(x, how, c) ==
  LET key == x.key
      old == <<<<"SLICE_0", "SLICE_1", "SLICE_2", "SLICE_3">>,
               <<"STORE_SLICE_0", "STORE_SLICE_1", "STORE_SLICE_2", "STORE_SLICE_3">>,
               <<"DELETE_SLICE_0", "DELETE_SLICE_1", "DELETE_SLICE_2", "DELETE_SLICE_3">>>>
      op == <<"BINARY_SUBSCR", "STORE_SUBSCR", "DELETE_SUBSCR">>
      simple == key.t = "slice" /\ key.left.t # "slice"
  IN IF simple /\ c.ver < 300
     THEN (IF key.left = Null THEN <<>> ELSE Code(key.left, c))
          \o (IF key.right = Null THEN <<>> ELSE Code(key.right, c))
          \o <<Op(old[how][key.n + 1])>>
     ELSE IF simple /\ c.ver >= 312 /\ how # 3
     THEN Bound(key.left, c) \o Bound(key.right, c)
          \o <<Op(<<"BINARY_SLICE", "STORE_SLICE">>[how])>>
     ELSE Code(key, c) \o <<Op(op[how])>>

\* Keyword arguments that follow one another are one mapping; a spread
\* mapping (its key is Null) is merged into it.
RECURSIVE KeywordGroups(_, _, _, _)
KeywordGroups(kvs, j, have, c) ==
  LET spreads == {k \in j..Len(kvs) : kvs[k][1] = Null}
      next == IF spreads = {} THEN Len(kvs) + 1 ELSE CHOOSE k \in spreads : \A l \in spreads : k <= l
      merge == <<Arg("DICT_MERGE", 1)>>
      pairs == IF next = j THEN <<>>
               ELSE SubDict(SubSeq(kvs, j, next - 1), c) \o (IF have THEN merge ELSE <<>>)
      have1 == have \/ next > j
  IN IF next > Len(kvs) THEN pairs
     ELSE pairs \o (IF have1 THEN <<>> ELSE <<Arg("BUILD_MAP", 0)>>)
          \o Code(kvs[next][2], c) \o merge
          \o (IF next = Len(kvs) THEN <<>> ELSE KeywordGroups(kvs, next + 1, TRUE, c))

KwNames(kvs) == TupleObj([j \in DOMAIN kvs |-> kvs[j][1].obj])

\* Arguments of a call before 3.11: keys and values, then what is spread.
OldArguments(x, c) ==
  LET plain == SelectSeq(x.vs, LAMBDA y : ~IsStar(y))
      stars == SelectSeq(x.vs, IsStar)
      kvs   == SelectSeq(x.kvs, LAMBDA q : q[1] # Null)
      kws   == SelectSeq(x.kvs, LAMBDA q : q[1] = Null)
      op == CASE stars # <<>> /\ kws # <<>> -> "CALL_FUNCTION_VAR_KW"
              [] stars # <<>> /\ kws = <<>> -> "CALL_FUNCTION_VAR"
              [] stars = <<>> /\ kws # <<>> -> "CALL_FUNCTION_KW"
              [] OTHER                      -> "CALL_FUNCTION"
  IN All(plain, c) \o All(S!FlattenSeq(kvs), c)
     \o All([j \in DOMAIN stars |-> stars[j].arg], c)
     \o All([j \in DOMAIN kws |-> kws[j][2]], c)
     \o <<Arg(op, Len(plain) + 256 * Len(kvs))>>

\* Since 3.11 the arguments are in x.vs, spread ones starred, and x.kvs.
SpreadArguments(x, c) ==
  (IF Len(x.vs) = 1 /\ HasStar(x.vs) THEN Code(x.vs[1].arg, c)
   ELSE TupleCode(x.vs, c))
  \o KeywordGroups(x.kvs, 1, FALSE, c)
  \o <<Arg("CALL_FUNCTION_EX", IF x.kvs = <<>> THEN 0 ELSE 1)>>

Arguments(x, extra, c) ==
  All(x.vs, c) \o All([j \in DOMAIN x.kvs |-> x.kvs[j][2]], c)
  \o (IF x.kvs = <<>> THEN <<>> ELSE <<Instr("KW_NAMES", 0, KwNames(x.kvs))>>)
  \o <<Arg("CALL", extra + Len(x.vs) + Len(x.kvs))>>

CallCode(x, c) ==
  LET method == x.func.t = "binary" /\ x.func.op = "ATTR"
      spread == HasStar(x.vs) \/ \E j \in DOMAIN x.kvs : x.kvs[j][1] = Null
  IN CASE c.ver >= 311 /\ spread ->
            Marked(Code(x.func, c), c) \o SpreadArguments(x, c)
       [] c.ver >= 311 /\ ~spread /\ method ->
            Code(x.func.left, c)
            \o <<IF c.ver >= 312 THEN Instr("LOAD_ATTR", 1, StrObj(x.func.right.id))
                 ELSE Named("LOAD_METHOD", x.func.right.id)>>
            \o Arguments(x, 0, c)
       [] c.ver >= 311 /\ ~spread /\ ~method ->
            Marked(Code(x.func, c), c) \o Arguments(x, 0, c)
       [] c.ver >= 307 /\ c.ver < 311 /\ method /\ ~spread /\ x.kvs = <<>> ->
            Code(x.func.left, c) \o <<Named("LOAD_METHOD", x.func.right.id)>>
            \o All(x.vs, c) \o <<Arg("CALL_METHOD", Len(x.vs))>>
       [] OTHER -> Code(x.func, c) \o OldArguments(x, c)

FunctionCode(f, c) ==
  LET nd == Len(f.vs)
      nk == Len(f.kwdefs)
      keys == TupleObj([j \in 1..nk |-> f.kwdefs[j][1].obj])
      values == [j \in 1..nk |-> f.kwdefs[j][2]]
      flags == (IF nd > 0 THEN 1 ELSE 0) + (IF nk > 0 THEN 2 ELSE 0)
               + (IF f.annots # <<>> THEN 4 ELSE 0)
  IN IF c.ver < 300
     THEN All(f.vs, c) \o <<LoadConst(f.obj), Arg("MAKE_FUNCTION", nd)>>
     ELSE (IF nd = 0 THEN <<>> ELSE TupleCode(f.vs, c))
          \o (IF nk = 0 THEN <<>>
              ELSE All(values, c) \o <<LoadConst(keys), Arg("BUILD_CONST_KEY_MAP", nk)>>)
          \o (IF f.annots = <<>> THEN <<>>
              ELSE All(S!FlattenSeq(f.annots), c)
                   \o <<Arg("BUILD_TUPLE", 2 * Len(f.annots))>>)
          \o <<LoadConst(f.obj)>>
          \o (IF c.ver < 311 THEN <<LoadConst(StrObj(f.obj.v))>> ELSE <<>>)
          \o <<Arg("MAKE_FUNCTION", flags)>>

Code(x, c) ==
  CASE x.t = "object" -> <<LoadConst(x.obj)>>
    [] x.t = "name"   -> <<OnName(1, x.id, c)>>
    [] x.t = "unary"  ->
         IF x.op = "-" /\ x.arg.t = "object" THEN <<LoadConst(IntObj(0 - x.arg.obj.n))>>
         ELSE Code(x.arg, c) \o <<Op(UnaryCode[x.op])>>
    [] x.t = "binary" ->
         IF x.op = "ATTR" THEN Code(x.left, c) \o <<Named("LOAD_ATTR", x.right.id)>>
         ELSE Code(x.left, c) \o Code(x.right, c) \o <<BinaryCode(x.op, FALSE, c.ver)>>
    [] x.t = "compare" ->
         LET member == /\ x.op \in {"in", "not in"} /\ x.right.t = "set"
                       /\ AllConst(x.right.vs)
         IN Code(x.left, c)
            \o (IF member THEN <<LoadConst(SetObj(Consts(x.right.vs)))>> ELSE Code(x.right, c))
            \o <<CompareCode(x.op, c.ver)>>
    [] x.t = "subscr" -> Code(x.arg, c) \o SubscrCode(x, 1, c)
    [] x.t = "slice" ->
         IF x.left.t = "slice"
         THEN Bound(x.left.left, c) \o Bound(x.left.right, c) \o Bound(x.right, c)
              \o <<Arg("BUILD_SLICE", 3)>>
         ELSE Bound(x.left, c) \o Bound(x.right, c) \o <<Arg("BUILD_SLICE", 2)>>
    [] x.t = "convert" -> Code(x.arg, c) \o <<Op("UNARY_CONVERT")>>
    [] x.t = "tuple" -> TupleCode(x.vs, c)
    [] x.t = "list" ->
         IF HasStar(x.vs) THEN Starred(x.vs, 1, FALSE, ListOps, c)
         ELSE IF c.ver >= 309 /\ AllConst(x.vs) /\ Len(x.vs) > 2
         THEN <<Arg("BUILD_LIST", 0), LoadConst(TupleObj(Consts(x.vs))), Arg("LIST_EXTEND", 1)>>
         ELSE All(x.vs, c) \o <<Arg("BUILD_LIST", Len(x.vs))>>
    [] x.t = "set" ->
         IF HasStar(x.vs) THEN Starred(x.vs, 1, FALSE, SetOps, c)
         ELSE IF c.ver >= 309 /\ AllConst(x.vs) /\ Len(x.vs) > 2
         THEN <<Arg("BUILD_SET", 0), LoadConst(SetObj(Consts(x.vs))), Arg("SET_UPDATE", 1)>>
         ELSE All(x.vs, c) \o <<Arg("BUILD_SET", Len(x.vs))>>
    [] x.t = "map" -> DictCode(x.kvs, c)
    [] x.t = "joined_str" ->
         All(x.vs, c) \o (IF Len(x.vs) = 1 THEN <<>> ELSE <<Arg("BUILD_STRING", Len(x.vs))>>)
    [] x.t = "formatted" ->
         Code(x.arg, c) \o (IF x.spec = Null THEN <<>> ELSE Code(x.spec, c))
         \o <<Arg("FORMAT_VALUE", x.n + IF x.spec = Null THEN 0 ELSE 4)>>
    [] x.t = "call" -> CallCode(x, c)
    [] x.t = "function" -> FunctionCode(x, c)
    [] x.t = "walrus" ->
         Code(x.src, c)
         \o <<IF c.ver >= 311 THEN Arg("COPY", 1) ELSE Op("DUP_TOP"), OnName(2, x.dest.id, c)>>
    [] x.t = "yield_expr" -> Code(x.arg, c) \o <<Op("YIELD_VALUE")>>
    [] x.t = "chained_comparison" -> NotStraight
    [] OTHER -> Rejected

----------------------------------------------------------------------------
(* Targets and statements.                                                 *)

RECURSIVE StoreCode(_, _)

Stars(xs) == {j \in DOMAIN xs : IsStar(xs[j])}
Bare(x) == IF IsStar(x) THEN x.arg ELSE x

UnpackCode(xs, c) ==
  LET stars == Stars(xs)
      at    == CHOOSE j \in stars : TRUE
  IN <<IF stars = {} THEN Arg("UNPACK_SEQUENCE", Len(xs))
       ELSE Arg("UNPACK_EX", (at - 1) + 256 * (Len(xs) - at))>>
     \o S!FlattenSeq([j \in DOMAIN xs |-> StoreCode(Bare(xs[j]), c)])

\* The store of the value on top to the target x.
StoreCode(x, c) ==
  CASE x.t = "name" -> <<OnName(2, x.id, c)>>
    [] x.t = "binary" -> Code(x.left, c) \o <<Named("STORE_ATTR", x.right.id)>>
    [] x.t = "subscr" -> Code(x.arg, c) \o SubscrCode(x, 2, c)
    [] x.t = "tuple"  -> UnpackCode(x.vs, c)
    [] OTHER          -> Rejected

\* A store to a local variable may move before another one: a SWAP that
\* stands before such stores only is taken out.
StaticSwap(n, stores) ==
  LET local == \A j \in 1..n : Len(stores[j]) = 1 /\ stores[j][1].op = "STORE_FAST"
  IN IF local
     THEN S!FlattenSeq([stores EXCEPT ![1] = stores[n], ![n] = stores[1]])
     ELSE <<Arg("SWAP", n)>> \o S!FlattenSeq(stores)

\* a, b = x, y without building the tuple.
ParallelCode(xs, vs, c) ==
  LET stores == [j \in DOMAIN xs |-> StoreCode(xs[j], c)]
      n == Len(xs)
      rot == <<<<>>, <<Op("ROT_TWO")>>, <<Op("ROT_THREE"), Op("ROT_TWO")>>>>
  IN All(vs, c) \o (IF c.ver >= 311 THEN StaticSwap(n, stores)
                    ELSE rot[n] \o S!FlattenSeq(stores))

AssignCode(xs, v, c) ==
  LET parallel == /\ Len(xs) = 1 /\ xs[1].t = "tuple" /\ v.t = "tuple"
                  /\ Len(xs[1].vs) = Len(v.vs) /\ Len(v.vs) \in 2..3
                  /\ ~HasStar(xs[1].vs) /\ ~HasStar(v.vs) /\ ~AllConst(v.vs)
      copy == IF c.ver >= 311 THEN Arg("COPY", 1) ELSE Op("DUP_TOP")
  IN IF parallel THEN ParallelCode(xs[1].vs, v.vs, c)
     ELSE Code(v, c)
          \o S!FlattenSeq([j \in DOMAIN xs |->
               (IF j < Len(xs) THEN <<copy>> ELSE <<>>) \o StoreCode(xs[j], c)])

AugAssignCode(x, op, v, c) ==
  LET new == c.ver >= 311
      dup == IF new THEN <<Arg("COPY", 1)>> ELSE <<Op("DUP_TOP")>>
      dup2 == IF new THEN <<Arg("COPY", 2), Arg("COPY", 2)>>
              ELSE IF c.ver < 300 THEN <<Arg("DUP_TOPX", 2)>> ELSE <<Op("DUP_TOP_TWO")>>
      rot == IF new THEN <<Arg("SWAP", 2)>> ELSE <<Op("ROT_TWO")>>
      rot2 == IF new THEN <<Arg("SWAP", 3), Arg("SWAP", 2)>> ELSE <<Op("ROT_THREE")>>
      done == Code(v, c) \o <<BinaryCode(op, TRUE, c.ver)>>
  IN CASE x.t = "name" -> <<OnName(1, x.id, c)>> \o done \o <<OnName(2, x.id, c)>>
       [] x.t = "binary" ->
            Code(x.left, c) \o dup \o <<Named("LOAD_ATTR", x.right.id)>> \o done
            \o rot \o <<Named("STORE_ATTR", x.right.id)>>
       [] x.t = "subscr" ->
            Code(x.arg, c) \o Code(x.key, c) \o dup2 \o <<Op("BINARY_SUBSCR")>> \o done
            \o rot2 \o <<Op("STORE_SUBSCR")>>
       [] OTHER -> Rejected

\* An annotation that is not in a function is kept.
AnnAssignCode(x, c) ==
  (IF x.arg = Null THEN <<>> ELSE Code(x.arg, c) \o <<OnName(2, x.id, c)>>)
  \o (IF c.fn THEN <<>>
      ELSE Code(x.ann, c) \o <<OnName(1, "__annotations__", c), LoadConst(StrObj(x.id)),
                               Op("STORE_SUBSCR")>>)

\* An import that is not relative has level -1 in Python 2.
Level(n, c) == LoadConst(IntObj(IF n = 0 /\ c.ver < 300 THEN -1 ELSE n))

ImportAsCode(x, c) ==
  LET parts == DottedParts(x.id)
      n == Len(parts)
      head == <<Level(0, c), LoadConst(NoneObj), Named("IMPORT_NAME", x.id)>>
      from(j) == Named("IMPORT_FROM", parts[j])
      swap == IF c.ver >= 311 THEN Arg("SWAP", 2) ELSE Op("ROT_TWO")
      middle == IF c.ver < 307
                THEN [j \in 1..(n - 1) |-> Named("LOAD_ATTR", parts[j + 1])]
                ELSE <<from(2)>> \o S!FlattenSeq([j \in 1..(n - 2) |->
                       <<swap, Op("POP_TOP"), from(j + 2)>>])
  IN IF x.as = "" \/ n = 1
     THEN head \o <<OnName(2, IF x.as = "" THEN parts[1] ELSE x.as, c)>>
     ELSE head \o middle \o <<OnName(2, x.as, c)>>
          \o (IF c.ver < 307 THEN <<>> ELSE <<Op("POP_TOP")>>)

ImportFromCode(x, c) ==
  LET names == TupleObj([j \in DOMAIN x.names |-> StrObj(x.names[j][1])])
      head == <<Level(x.n, c), LoadConst(names), Named("IMPORT_NAME", x.id)>>
  IN IF x.names[1][1] = "*" THEN head \o <<Op("IMPORT_STAR")>>
     ELSE head
          \o S!FlattenSeq([j \in DOMAIN x.names |->
               <<Named("IMPORT_FROM", x.names[j][1]), OnName(2, x.names[j][2], c)>>])
          \o <<Op("POP_TOP")>>

DeleteCode(x, c) ==
  CASE x.t = "name"   -> <<OnName(3, x.id, c)>>
    [] x.t = "binary" -> Code(x.left, c) \o <<Named("DELETE_ATTR", x.right.id)>>
    [] x.t = "subscr" -> Code(x.arg, c) \o SubscrCode(x, 3, c)
    [] OTHER          -> Rejected

PrintCode(x, c) ==
  LET to == x.stream # Null
      item(v) == IF to THEN <<Op("DUP_TOP")>> \o Code(v, c)
                            \o <<Op("ROT_TWO"), Op("PRINT_ITEM_TO")>>
                 ELSE Code(v, c) \o <<Op("PRINT_ITEM")>>
  IN (IF to THEN Code(x.stream, c) ELSE <<>>)
     \o S!FlattenSeq([j \in DOMAIN x.vs |-> item(x.vs[j])])
     \o (IF x.eol THEN <<Op(IF to THEN "PRINT_NEWLINE_TO" ELSE "PRINT_NEWLINE")>>
         ELSE IF to THEN <<Op("POP_TOP")>> ELSE <<>>)

ExecCode(x, c) ==
  Code(x.arg, c)
  \o (IF x.glob = Null THEN <<LoadConst(NoneObj), Op("DUP_TOP")>>
      ELSE Code(x.glob, c) \o (IF x.loc = Null THEN <<Op("DUP_TOP")>> ELSE Code(x.loc, c)))
  \o <<Op("EXEC_STMT")>>

Applied(decorators, c) ==
  S!FlattenSeq([j \in DOMAIN decorators |->
    <<IF c.ver >= 311 THEN Arg("CALL", 0) ELSE Arg("CALL_FUNCTION", 1)>>])

DefCode(x, c) ==
  All(x.decorators, c) \o FunctionCode(x.arg, c) \o Applied(x.decorators, c)
  \o <<OnName(2, x.id, c)>>

\* The body is a function of the class's name.
ClassCode(x, c) ==
  LET body == Function(CodeObj(x.id, 0, <<>>), <<>>, <<>>, <<>>)
      args == [Call(Null, x.vs, x.kvs) EXCEPT
                 !.vs = <<body, Object(StrObj(x.id))>> \o @]
      build == <<Op("LOAD_BUILD_CLASS")>>
  IN All(x.decorators, c)
     \o (IF HasStar(x.vs) THEN Marked(build, c) \o SpreadArguments(args, c)
         ELSE IF c.ver >= 311
         THEN Marked(build, c) \o Arguments(args, 0, c)
         ELSE build \o OldArguments(args, c))
     \o Applied(x.decorators, c) \o <<OnName(2, x.id, c)>>

StatementCode(x, c) ==
  CASE x.t = "assign"      -> AssignCode(x.vs, x.arg, c)
    [] x.t = "augassign"   -> AugAssignCode(x.dest, x.op, x.arg, c)
    [] x.t = "annassign"   -> AnnAssignCode(x, c)
    [] x.t = "expr"        -> Code(x.arg, c) \o <<Op("POP_TOP")>>
    [] x.t = "yield"       -> Code(x.arg, c) \o <<Op("YIELD_VALUE"), Op("POP_TOP")>>
    [] x.t = "import_as"   -> ImportAsCode(x, c)
    [] x.t = "import_from" -> ImportFromCode(x, c)
    [] x.t = "delete"      -> DeleteCode(x.arg, c)
    [] x.t = "raise"       -> All(x.vs, c) \o <<Arg("RAISE_VARARGS", Len(x.vs))>>
    [] x.t = "print"       -> PrintCode(x, c)
    [] x.t = "exec"        -> ExecCode(x, c)
    [] x.t = "def"         -> DefCode(x, c)
    [] x.t = "classdef"    -> ClassCode(x, c)
    [] x.t = "for"         -> Code(x.arg, c) \o <<Op("GET_ITER"), Op("FOR_ITER")>>
                              \o StoreCode(x.dest, c)
    [] x.t = "with"        -> Code(x.arg, c)
                              \o <<Op(IF c.ver >= 311 THEN "BEFORE_WITH" ELSE "SETUP_WITH")>>
                              \o (IF x.dest = Null THEN <<Op("POP_TOP")>>
                                  ELSE StoreCode(x.dest, c))
    [] OTHER -> Rejected

\* Names are numbered by their first use.  The operand of a load of a global
\* (and, since 3.12, of an attribute) has a low bit that is no part of the
\* name's number.
Pool(op) ==
  CASE op \in {"LOAD_FAST", "STORE_FAST", "DELETE_FAST"}    -> "locals"
    [] op \in {"LOAD_DEREF", "STORE_DEREF", "DELETE_DEREF"} -> "cells"
    [] OTHER                                                -> "names"

NamedOps ==
  {NameOps[k][j] : k \in DOMAIN NameOps, j \in 1..3}
  \cup {"LOAD_ATTR", "STORE_ATTR", "DELETE_ATTR", "LOAD_METHOD", "IMPORT_NAME",
        "IMPORT_FROM"}

\* The instruction i after the numbered ones in out.
Numbered(i, out, c) ==
  LET scale(op) == IF \/ op = "LOAD_GLOBAL" /\ c.ver >= 311
                      \/ op = "LOAD_ATTR" /\ c.ver >= 312 THEN 2 ELSE 1
      pool == {q \in DOMAIN out : out[q].op \in NamedOps /\ Pool(out[q].op) = Pool(i.op)}
      same == {q \in pool : out[q].obj.v = i.obj.v}
      number == IF same = {} THEN Cardinality({out[q].obj.v : q \in pool})
                ELSE LET q == CHOOSE q \in same : TRUE IN out[q].arg \div scale(out[q].op)
  IN IF i.op \notin NamedOps THEN i
     ELSE [i EXCEPT !.arg = scale(i.op) * number + @]

Annotates(x) == x.t = "annassign"

CodeOf(xs, c) ==
  (IF ~c.fn /\ c.ver >= 306 /\ \E j \in DOMAIN xs : Annotates(xs[j])
   THEN <<Op("SETUP_ANNOTATIONS")>> ELSE <<>>)
  \o S!FlattenSeq([j \in DOMAIN xs |-> StatementCode(xs[j], c)])
  \o (IF c.super THEN <<Named("LOAD_CLOSURE", "__class__"),
                        IF c.ver >= 311 THEN Arg("COPY", 1) ELSE Op("DUP_TOP"),
                        Named("STORE_NAME", "__classcell__")>>
      ELSE <<>>)

Compile(xs, c) ==
  S!FoldLeft(LAMBDA out, i : Append(out, Numbered(i, out, c)), <<>>, CodeOf(xs, c))

=============================================================================
