-------------------------- MODULE ExpressionBuilder -------------------------
(***************************************************************************)
(* The handlers of class CodeBuilder (ASTree.cpp) that only rearrange the  *)
(* operand stack: each maps the stack, the instruction and the version to  *)
(* the stack it leaves.                                                    *)
(*                                                                         *)
(* An instruction has an opcode, an operand and the name or the constant   *)
(* the operand selects.  A version is 100 * major + minor.                 *)
(***************************************************************************)
EXTENDS Nodes, Integers

Instr(op, arg, obj) == [op |-> op, arg |-> arg, obj |-> obj]

NotEmpty(s) == s # <<>>
TypeAt(s, i) == Peek(s, i).t
IsNone(x)   == x.t = "null" \/ (x.t = "object" /\ x.obj = NoneObj)

Objects(os) == [i \in DOMAIN os |-> Object(os[i])]

----------------------------------------------------------------------------
(* Operators.                                                              *)

FromOpcode ==
  [BINARY_ADD |-> "ADD", BINARY_SUBTRACT |-> "SUBTRACT",
   BINARY_MULTIPLY |-> "MULTIPLY", BINARY_DIVIDE |-> "DIVIDE",
   BINARY_TRUE_DIVIDE |-> "DIVIDE", BINARY_FLOOR_DIVIDE |-> "FLOOR_DIVIDE",
   BINARY_MODULO |-> "MODULO", BINARY_POWER |-> "POWER",
   BINARY_LSHIFT |-> "LSHIFT", BINARY_RSHIFT |-> "RSHIFT",
   BINARY_AND |-> "AND", BINARY_XOR |-> "XOR", BINARY_OR |-> "OR",
   BINARY_MATRIX_MULTIPLY |-> "MAT_MULTIPLY",
   INPLACE_ADD |-> "IP_ADD", INPLACE_SUBTRACT |-> "IP_SUBTRACT",
   INPLACE_MULTIPLY |-> "IP_MULTIPLY", INPLACE_DIVIDE |-> "IP_DIVIDE",
   INPLACE_TRUE_DIVIDE |-> "IP_DIVIDE",
   INPLACE_FLOOR_DIVIDE |-> "IP_FLOOR_DIVIDE", INPLACE_MODULO |-> "IP_MODULO",
   INPLACE_POWER |-> "IP_POWER", INPLACE_LSHIFT |-> "IP_LSHIFT",
   INPLACE_RSHIFT |-> "IP_RSHIFT", INPLACE_AND |-> "IP_AND",
   INPLACE_XOR |-> "IP_XOR", INPLACE_OR |-> "IP_OR",
   INPLACE_MATRIX_MULTIPLY |-> "IP_MAT_MULTIPLY"]

\* By the operand of BINARY_OP, from 0.
FromBinaryOp ==
  <<"ADD", "AND", "FLOOR_DIVIDE", "LSHIFT", "MAT_MULTIPLY", "MULTIPLY",
    "MODULO", "OR", "POWER", "RSHIFT", "SUBTRACT", "DIVIDE", "XOR",
    "IP_ADD", "IP_AND", "IP_FLOOR_DIVIDE", "IP_LSHIFT", "MAT_MULTIPLY",
    "IP_MULTIPLY", "IP_MODULO", "IP_OR", "IP_POWER", "IP_RSHIFT",
    "IP_SUBTRACT", "IP_DIVIDE", "IP_XOR">>

InplaceOps ==
  {"IP_ADD", "IP_SUBTRACT", "IP_MULTIPLY", "IP_DIVIDE", "IP_MODULO",
   "IP_POWER", "IP_LSHIFT", "IP_RSHIFT", "IP_AND", "IP_XOR", "IP_OR",
   "IP_FLOOR_DIVIDE", "IP_MAT_MULTIPLY"}

UnaryOps ==
  [UNARY_INVERT |-> "~", UNARY_NEGATIVE |-> "-", UNARY_NOT |-> "not",
   UNARY_POSITIVE |-> "+"]

CompareOps ==
  <<"<", "<=", "==", "!=", ">", ">=", "in", "not in", "is", "is not",
    "exception match">>

BinaryOp(i) ==
  IF i.op # "BINARY_OP" THEN FromOpcode[i.op]
  ELSE IF i.arg < Len(FromBinaryOp) THEN FromBinaryOp[i.arg + 1] ELSE "INVALID"

handleUnaryOp(s, i) ==
  LET x == Peek(s, 1)
  IN Fold(s, 1, IF i.op = "UNARY_CALL" THEN Call(x, <<>>, <<>>)
                ELSE IF i.op = "UNARY_CONVERT" THEN Convert(x)
                ELSE Unary(UnaryOps[i.op], x))

handleBinaryOp(s, i) == Fold(s, 2, Binary(BinaryOp(i), Peek(s, 2), Peek(s, 1)))

\* A chain of comparisons holds a short circuit, which straight-line code
\* does not: chainCmp stays 0 and the left side is no chain.
handleIsContainsOp(s, i) ==
  LET op == IF i.op = "CONTAINS_OP" THEN IF i.arg = 0 THEN "in" ELSE "not in"
            ELSE IF i.arg = 0 THEN "is" ELSE "is not"
  IN Fold(s, 2, Compare(op, Peek(s, 2), Peek(s, 1)))

handleCompareOp(s, i, ver) ==
  LET arg == IF ver = 312 THEN i.arg \div 16
             ELSE IF ver >= 313 THEN i.arg \div 32 ELSE i.arg
  IN Fold(s, 2, Compare(CompareOps[arg + 1], Peek(s, 2), Peek(s, 1)))

----------------------------------------------------------------------------
(* Loads.                                                                  *)

handleLoadConst(s, i) ==
  Push(s, IF i.obj = TupleObj(<<>>) THEN Tuple(<<>>)
          ELSE IF i.obj = NoneObj THEN Null ELSE Object(i.obj))

NameLoads == {"LOAD_NAME", "LOAD_FAST", "LOAD_DEREF", "LOAD_CLASSDEREF"}

\* next: the opcode after this one.
handleLoad(s, i, ver, next) ==
  LET x      == Peek(s, 1)
      attr   == Attr(x, i.obj.v)
      marked == i.arg % 2 = 1        \* a NULL is pushed below the value
  IN CASE i.op \in NameLoads -> Push(s, Name(i.obj.v))
       [] i.op = "LOAD_GLOBAL" ->
            Push(IF ver >= 311 /\ marked THEN Push(s, Null) ELSE s, Name(i.obj.v))
       [] i.op = "LOAD_ATTR" ->
            IF x.t = "import" THEN s
            ELSE IF ver >= 312 /\ marked THEN Push(Fold(s, 1, Null), attr)
            ELSE Fold(s, 1, attr)
       [] i.op = "LOAD_METHOD" ->
            IF ver >= 311 THEN Push(Fold(s, 1, Null), attr) ELSE Fold(s, 1, attr)
       [] i.op = "LOAD_BUILD_CLASS" -> Push(s, LoadBuildClass)
       [] i.op = "LOAD_CLOSURE" ->
            IF ver >= 306 /\ next \in {"BUILD_TUPLE", "LOAD_CLOSURE"}
            THEN Push(s, Name(i.obj.v)) ELSE s

----------------------------------------------------------------------------
(* Collections.                                                            *)

\* <<k1, v1, k2, v2>> as pairs.
Pairs(vs) == [j \in 1..(Len(vs) \div 2) |-> <<vs[2 * j - 1], vs[2 * j]>>]

BuildSlice(start, end) ==
  LET l == IF IsNone(start) THEN Null ELSE start
      r == IF IsNone(end) THEN Null ELSE end
  IN Slice((IF l = Null THEN 0 ELSE 1) + (IF r = Null THEN 0 ELSE 2), l, r)

\* A slice with a step is a slice whose lower bound is the slice without it.
SteppedSlice(start, end, step) ==
  IF IsNone(step) THEN Slice(1, BuildSlice(start, end), Null)
  ELSE Slice(3, BuildSlice(start, end), step)

handleBuildCollection(s, i, ver) ==
  LET vs == Above(s, i.arg)
  IN CASE i.op = "BUILD_LIST"   -> Fold(s, i.arg, List(vs))
       [] i.op = "BUILD_SET"    -> Fold(s, i.arg, Set(vs))
       [] i.op = "BUILD_STRING" -> Fold(s, i.arg, JoinedStr(vs))
       [] i.op = "BUILD_TUPLE"  ->
            IF TypeAt(s, 1) = "build_class" THEN s ELSE Fold(s, i.arg, Tuple(vs))
       [] i.op = "BUILD_MAP" ->
            IF ver >= 305 THEN Fold(s, 2 * i.arg, Map(Pairs(Above(s, 2 * i.arg))))
            ELSE Push(IF TypeAt(s, 1) = "chain_store" THEN Drop(s, 1) ELSE s,
                      Map(<<>>))
       [] i.op = "BUILD_CONST_KEY_MAP" ->
            Fold(s, i.arg + 1, ConstMap(Peek(s, 1).obj, Above(Drop(s, 1), i.arg)))
       [] i.op = "BUILD_SLICE" ->
            Fold(s, i.arg, IF i.arg = 2 THEN BuildSlice(vs[1], vs[2])
                           ELSE SteppedSlice(vs[1], vs[2], vs[3]))

handleStoreMap(s) ==
  LET m == Peek(s, 3)
  IN Fold(s, 3, [m EXCEPT !.kvs = Append(@, <<Peek(s, 1), Peek(s, 2)>>)])

\* The entries rhs adds to the map below it.
MergedEntries(op, rhs) ==
  IF op = "DICT_UPDATE" /\ rhs.t = "map" THEN rhs.kvs
  ELSE IF op = "DICT_UPDATE" /\ rhs.t = "const_map" THEN ConstMapEntries(rhs)
  ELSE <<<<Null, rhs>>>>

\* What an extension adds to the display below it.
Spread(rhs, constant) ==
  IF rhs.t = "object" /\ rhs.obj.k = constant THEN Objects(rhs.obj.vs)
  ELSE <<Unary("*", rhs)>>

Extended(x, vs) == [x EXCEPT !.vs = @ \o vs]

handleCollectionUpdate(s, i) ==
  LET x    == Peek(s, 1)
      y    == Peek(s, 2)
      rest == Drop(s, 1)
      Appended(type) == IF y.t = type THEN Fold(s, 2, Extended(y, <<x>>))
                        ELSE Push(rest, Subscr(y, x))
  IN CASE i.op = "LIST_APPEND" -> Appended("list")
       [] i.op = "SET_ADD"     -> Appended("set")
       [] i.op = "MAP_ADD" ->
            IF Peek(s, 3).t = "map"
            THEN Fold(s, 3, [Peek(s, 3) EXCEPT !.kvs = Append(@, <<y, x>>)])
            ELSE Push(Drop(s, 2), Subscr(Peek(s, 3), y))
       [] i.op = "LIST_EXTEND" -> Fold(s, 2, Extended(y, Spread(x, "tuple")))
       [] i.op = "SET_UPDATE"  -> Fold(s, 2, Extended(y, Spread(x, "frozenset")))
       [] i.op \in {"DICT_UPDATE", "DICT_MERGE"} ->
            IF y.t \notin {"map", "const_map"} THEN rest
            ELSE LET kvs == IF y.t = "map" THEN y.kvs ELSE ConstMapEntries(y)
                 IN Fold(s, 2, Map(kvs \o MergedEntries(i.op, x)))
       [] i.op = "LIST_TO_TUPLE" ->
            IF x.t = "list" THEN Fold(s, 1, Tuple(x.vs)) ELSE s

----------------------------------------------------------------------------
(* Subscripts.  The Python 2 opcodes name the bounds that are written.     *)

SliceBounds(op) ==
  CASE op \in {"SLICE_0", "STORE_SLICE_0", "DELETE_SLICE_0"} -> 0
    [] op \in {"SLICE_1", "STORE_SLICE_1", "DELETE_SLICE_1"} -> 1
    [] op \in {"SLICE_2", "STORE_SLICE_2", "DELETE_SLICE_2"} -> 2
    [] OTHER                                                 -> 3

\* How many values a subscript takes from the stack.
SubscrArity(op) ==
  IF op \in {"BINARY_SUBSCR", "STORE_SUBSCR", "DELETE_SUBSCR"} THEN 2
  ELSE IF op \in {"BINARY_SLICE", "STORE_SLICE"} THEN 3
  ELSE CASE SliceBounds(op) = 0 -> 1 [] SliceBounds(op) = 3 -> 3 [] OTHER -> 2

SubscrOnTop(s, op) ==
  LET vs == Above(s, SubscrArity(op))
      n  == SliceBounds(op)
  IN Subscr(vs[1],
       IF op \in {"BINARY_SUBSCR", "STORE_SUBSCR", "DELETE_SUBSCR"} THEN vs[2]
       ELSE IF op \in {"BINARY_SLICE", "STORE_SLICE"} THEN BuildSlice(vs[2], vs[3])
       ELSE CASE n = 0 -> Slice(0, Null, Null)
              [] n = 1 -> Slice(1, vs[2], Null)
              [] n = 2 -> Slice(2, Null, vs[2])
              [] n = 3 -> Slice(3, vs[2], vs[3]))

handleSubscript(s, i) == Fold(s, SubscrArity(i.op), SubscrOnTop(s, i.op))

----------------------------------------------------------------------------
(* Shuffles.  A chain store marks a value that DUP_TOP copied.             *)

\* DUP_TOP and the COPY of a chained assignment.
Duplicate(s) ==
  IF TypeAt(s, 1) = "chain_store"
  THEN LET rest == Drop(s, 1) IN rest \o <<Peek(rest, 1), Peek(s, 1)>>
  ELSE s \o <<Peek(s, 1), ChainStore(Peek(s, 1))>>

\* The top goes below the n - 1 values under it; a mark above the deepest
\* of them is dropped.
Rotate(s, n) ==
  LET top   == Above(s, n - 1)
      below == Drop(s, n - 1)
      base  == IF TypeAt(below, 1) = "chain_store" THEN Drop(below, 1) ELSE below
  IN Fold(base, 1, top[n - 1]) \o <<Peek(base, 1)>> \o SubSeq(top, 1, n - 2)

handleStackManip(s, i) ==
  CASE i.op = "DUP_TOP" ->
         IF Peek(s, 1) = Null THEN Push(s, Null) ELSE Duplicate(s)
    [] i.op = "DUP_TOP_TWO" -> s \o Above(s, 2)
    [] i.op = "DUP_TOPX"    -> s \o Above(s, i.arg)
    [] i.op = "ROT_TWO"     -> Rotate(s, 2)
    [] i.op = "ROT_THREE"   -> Rotate(s, 3)
    [] i.op = "ROT_FOUR"    -> Rotate(s, 4)

----------------------------------------------------------------------------
(* Wrappers, keyword names, functions.                                     *)

handleExprWrap(s, i) ==
  IF i.op = "GET_AWAITABLE" THEN Fold(s, 1, Await(Peek(s, 1)))
  ELSE IF (i.arg \div 4) % 2 = 1
  THEN Fold(s, 2, Formatted(Peek(s, 2), i.arg % 4, Peek(s, 1)))
  ELSE Fold(s, 1, Formatted(Peek(s, 1), i.arg % 4, Null))

\* The map holds the pairs as they come off the stack, the last one first.
handleKwNames(s, i) ==
  LET n == Len(i.obj.vs)
  IN Fold(s, n, KwNamesMap([j \in 1..n |->
                  <<Object(i.obj.vs[n + 1 - j]), Peek(s, j)>>]))

Bit(n, b) == (n \div b) % 2 = 1

\* The defaults a MAKE_FUNCTION finds in one value.
Defaults(x) ==
  IF x = Null THEN <<>>
  ELSE IF x.t = "tuple" THEN x.vs
  ELSE IF x.t = "object" /\ x.obj.k = "tuple" THEN Objects(x.obj.vs)
  ELSE <<x>>

KwDefaults(x) ==
  IF x = Null THEN <<>>
  ELSE IF x.t = "const_map" THEN x.vs
  ELSE IF x.t = "map" THEN [j \in DOMAIN x.kvs |-> x.kvs[j][2]]
  ELSE <<x>>

\* Name and annotation in turn, in a tuple; a null annotation is None.  The
\* mapping that code before 3.10 has would need byte strings as its keys to
\* give any: its keys are strings, and there are none.
Annotations(x) ==
  LET flat == IF x.t = "tuple" THEN x.vs
              ELSE IF x.t = "object" /\ x.obj.k = "tuple" THEN Objects(x.obj.vs)
              ELSE <<>>
      keyed == SelectSeq(Pairs(flat),
                 LAMBDA p : p[1].t = "object" /\ p[1].obj.k = "str")
  IN [j \in DOMAIN keyed |->
        <<keyed[j][1], IF keyed[j][2] = Null THEN Object(NoneObj) ELSE keyed[j][2]>>]

\* The values under the code object, the last pushed first: closure cells,
\* annotations, keyword-only and positional defaults.
handleMakeFunction(s, i, ver) ==
  LET named == ~(Peek(s, 1).t = "object" /\ Peek(s, 1).obj.k = "code")
      s0 == IF named THEN Drop(s, 1) ELSE s       \* the qualified name
      fc == Peek(s0, 1).obj
      s1 == Drop(s0, 1)
      s2 == IF Bit(i.arg, 8) THEN Drop(s1, 1) ELSE s1
      s3 == IF Bit(i.arg, 4) THEN Drop(s2, 1) ELSE s2
      s4 == IF Bit(i.arg, 2) THEN Drop(s3, 1) ELSE s3
      s5 == IF Bit(i.arg, 1) THEN Drop(s4, 1) ELSE s4
      nd == i.arg % 256
      nk == (i.arg \div 256) % 256
  IN IF ver >= 306
     THEN Push(s5, Function(fc,
            IF Bit(i.arg, 1) THEN Defaults(Peek(s4, 1)) ELSE <<>>,
            IF Bit(i.arg, 2) THEN KwDefaults(Peek(s3, 1)) ELSE <<>>,
            IF Bit(i.arg, 4) THEN Annotations(Peek(s2, 1)) ELSE <<>>))
     ELSE Fold(s1, nd + nk,
            Function(fc, Above(s1, nd), Above(Drop(s1, nd), nk), <<>>))

----------------------------------------------------------------------------
(* Calls.                                                                  *)

\* The operand of a call before 3.11 counts the positional arguments and the
\* keyword arguments, each a key and a value on the stack.
Positional(arg) == arg % 256
Keywords(arg)   == (arg \div 256) % 256

\* The call of the function under its arguments, all of them on the stack.
PlainCall(s, arg, var, kw) ==
  LET k == Keywords(arg)
      p == Positional(arg)
      s1 == Drop(s, 2 * k)
      call == Call(Peek(s1, p + 1), Above(s1, p), Pairs(Above(s, 2 * k)))
  IN Fold(s1, p + 1, [call EXCEPT !.var = var, !.kw = kw])

\* CALL_FUNCTION_EX: an iterable of arguments and, when bit 0 is set, a
\* mapping.  A class whose bases are spread is called this way.
StarCall(s, arg) ==
  LET marked == arg % 2 = 1
      kw   == IF marked THEN Peek(s, 1) ELSE Null
      s1   == IF marked THEN Drop(s, 1) ELSE s
      var  == Peek(s1, 1)
      func == Peek(s1, 2)
      rest == Drop(s1, IF Peek(s1, 3) = Null THEN 3 ELSE 2)
      isClass == /\ func.t = "build_class" /\ kw = Null
                 /\ var.t = "tuple" /\ Len(var.vs) >= 2 /\ var.vs[1].t = "function"
  IN Push(rest,
       IF isClass
       THEN Class(var.vs[1], SubSeq(var.vs, 3, Len(var.vs)), var.vs[2], Null)
       ELSE IF func = Null THEN [Call(var, <<>>, <<>>) EXCEPT !.kw = kw]
       ELSE [Call(func, <<>>, <<>>) EXCEPT !.var = var, !.kw = kw])

handleSpreadCall(s, i) ==
  CASE i.op = "CALL_FUNCTION_VAR" ->
         PlainCall(Drop(s, 1), i.arg, Peek(s, 1), Null)
    [] i.op = "CALL_FUNCTION_KW" ->
         PlainCall(Drop(s, 1), i.arg, Null, Peek(s, 1))
    [] i.op = "CALL_FUNCTION_VAR_KW" ->
         PlainCall(Drop(s, 2), i.arg, Peek(s, 2), Peek(s, 1))
    [] i.op = "CALL_FUNCTION_EX" -> StarCall(s, i.arg)

\* A function defined where its decorator is applied: the definition becomes
\* a statement of its own and the call takes its name.
IsDefinition(x) == x.t = "function" /\ x.obj.v # "<lambda>"
NameOf(x) == IF IsDefinition(x) THEN Name(x.obj.v) ELSE x
\* The last argument is taken off the stack first.
Hoisted(ps) ==
  LET defs[j \in 0..Len(ps)] ==
        IF j = 0 THEN <<>>
        ELSE IF IsDefinition(ps[j]) THEN <<Store(ps[j], NameOf(ps[j]))>> \o defs[j - 1]
        ELSE defs[j - 1]
  IN defs[Len(ps)]

\* The value under n others is the call of a class body under its builder.
BuildsClass(s, n) ==
  /\ n > 0
  /\ Peek(s, n + 1).t = "function"
  /\ Peek(s, n + 2).t = "build_class"
  /\ \A j \in 1..n : Peek(s, j).t \notin {"null", "function"}

WithoutMark(s) == IF Peek(s, 1) = Null THEN Drop(s, 1) ELSE s

BuiltClass(s, n, kw) ==
  Push(WithoutMark(Drop(s, n + 2)),
       Class(Peek(s, n + 1), Above(s, n - 1), Peek(s, n), kw))

\* What a CALL without arguments is applied to by the value under it.
IsDecorated(x) ==
  \/ IsDefinition(x)
  \/ x.t = "class" /\ x.name.t = "object" /\ x.name.obj.k = "str"
  \/ x.t = "call"

=============================================================================
