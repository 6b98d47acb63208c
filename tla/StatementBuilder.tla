-------------------------- MODULE StatementBuilder --------------------------
(***************************************************************************)
(* How class CodeBuilder (ASTree.cpp) turns straight-line code into        *)
(* statements: one pass over the instructions, an operand stack of nodes,  *)
(* and the accumulators that gather a statement spread over several        *)
(* instructions (an unpacking, a chained, parallel, augmented or annotated *)
(* assignment, an import, a print statement, the header of a for or with). *)
(*                                                                         *)
(* Code holds no jump: the machine stops at the end of a block's code.     *)
(* RESUME, PRECALL and CACHE, which every part of the builder skips, are   *)
(* left out of the code, and positions count instructions.                 *)
(***************************************************************************)
EXTENDS ExpressionBuilder

CONSTANTS Codes,           \* records: the code and the version it is for
          MaxDecorators    \* how many decorators a definition may have

\* What is in a sequence says which set it is a sequence over.
IsSequence(s) == s \in Seq({s[j] : j \in DOMAIN s})

\* Operands are numbers, and that of KW_NAMES selects a tuple of names.
IsInstruction(i) ==
  /\ i.arg \in Nat
  /\ i.op = "KW_NAMES" => IsSequence(i.obj.vs)

ASSUME CodesAssumption ==
  \A c \in Codes : /\ IsSequence(c.code)
                   /\ \A p \in DOMAIN c.code : IsInstruction(c.code[p])

VARIABLES
  code, ver,               \* the instructions, the Python version
  pos,                     \* the instruction about to be handled
  stack,                   \* the operand stack
  blocks,                  \* the open blocks, the innermost last
  unpack,                  \* targets the innermost unpacking still wants
  unpackStar,              \* the value of unpack at the starred target
  unpackNest,              \* unpack of the unpackings around it
  tupleStore,              \* stores left in a run of parallel assignments
  tupleStoreTargets, tupleStoreValues,
  inplaceStore,            \* an augmented assignment awaits its store
  variable_annotations,    \* SETUP_ANNOTATIONS was seen
  globals,                 \* names declared global
  processed,               \* nodes that are not to be emitted again
  cleanBuild               \* nothing was thrown so far

unpacking == <<unpack, unpackStar, unpackNest>>
tuples    == <<tupleStore, tupleStoreTargets, tupleStoreValues>>
flags     == <<inplaceStore, variable_annotations, globals, processed, cleanBuild>>
vars == <<code, ver, pos, stack, blocks, unpacking, tuples, flags>>

----------------------------------------------------------------------------
(* The scans that run before the first instruction is handled.             *)

NameStores == {"STORE_NAME", "STORE_FAST", "STORE_GLOBAL", "STORE_DEREF"}
StoreOps   == NameStores \cup {"STORE_ATTR", "STORE_SUBSCR"}
Unpackings == {"UNPACK_SEQUENCE", "UNPACK_EX"}

IsCopy(p) == p \in DOMAIN code /\ code[p].op = "COPY" /\ code[p].arg = 1

\* How many targets an unpacking has.
Arity(i) ==
  IF i.op = "UNPACK_EX" THEN (i.arg % 256) + (i.arg \div 256) + 1 ELSE i.arg

\* The end of the store group at p: a target, or an unpacking and its
\* targets; 0 when something else stands there.  d counts the operands of a
\* target, k the targets still to come.
parseStoreGroup(start) ==
  LET Wanted(op) ==
        CASE op \in NameStores \cup Unpackings -> 0
          [] op = "STORE_ATTR"   -> 1
          [] op = "STORE_SUBSCR" -> 2
      Pushed(i) ==
        CASE i.op \in {"LOAD_FAST", "LOAD_NAME", "LOAD_DEREF", "LOAD_CONST",
                       "LOAD_CLASSDEREF"} -> 1
          [] i.op = "LOAD_GLOBAL"   -> 1 + (i.arg % 2)
          [] i.op = "LOAD_ATTR"     -> 0
          [] i.op = "BINARY_SUBSCR" -> -1
      Loads == {"LOAD_FAST", "LOAD_NAME", "LOAD_DEREF", "LOAD_CONST",
                "LOAD_CLASSDEREF", "LOAD_GLOBAL", "LOAD_ATTR", "BINARY_SUBSCR"}
      end[p \in Nat, d \in Int, k \in Nat] ==
        IF k = 0 THEN p
        ELSE IF p > Len(code) THEN 0
        ELSE IF code[p].op \in Loads THEN end[p + 1, d + Pushed(code[p]), k]
        ELSE IF code[p].op \notin StoreOps \cup Unpackings THEN 0
        ELSE IF d # Wanted(code[p].op) THEN 0
        ELSE end[p + 1, 0,
                 k - 1 + IF code[p].op \in Unpackings THEN Arity(code[p]) ELSE 0]
  IN end[start, 0, 1]

\* A COPY belongs to a chained assignment when store groups, each after a
\* copy, follow it up to one that is not.
chainCopyOffsets(c) ==
  LET chained[p \in Nat] ==
        LET next == parseStoreGroup(p + 1)
        IN /\ IsCopy(p)
           /\ next # 0
           /\ IF IsCopy(next) THEN chained[next] ELSE parseStoreGroup(next) # 0
  IN chained[c]

\* The operands are compared as the code holds them: a LOAD_GLOBAL's has a
\* low bit of its own since 3.11.
selfStore(p) ==
  /\ p > 2
  /\ \E kind \in {<<"LOAD_FAST", "STORE_FAST">>, <<"LOAD_NAME", "STORE_NAME">>,
                  <<"LOAD_GLOBAL", "STORE_GLOBAL">>, <<"LOAD_DEREF", "STORE_DEREF">>} :
       code[p - 2].op = kind[1] /\ code[p].op = kind[2]
  /\ code[p - 2].arg = code[p].arg

walrusStores(p) ==
  /\ p \in DOMAIN code
  /\ code[p].op \in NameStores
  /\ IsCopy(p - 1)
  /\ ~chainCopyOffsets(p - 1)
  /\ ~selfStore(p)
  /\ code[p].obj.v # "__classcell__"

walrusCopies(p) == walrusStores(p + 1)

\* The first instruction from p on that is no store to a name.
storesEnd(p) ==
  LET ends == {q \in p..(Len(code) + 1) : q > Len(code) \/ code[q].op \notin NameStores}
  IN CHOOSE q \in ends : \A r \in ends : q <= r

\* The length of the run of stores to names that starts at p and may be a
\* parallel assignment; 0 when none does.
tupleAssignStart(p) ==
  LET before == IF p = 1 THEN "" ELSE code[p - 1].op
      run    == storesEnd(p) - p
  IN IF before \in NameStores \cup {"COPY"} \cup Unpackings \/ run < 2
     THEN 0 ELSE run

----------------------------------------------------------------------------
(* Blocks and nodes.                                                       *)

Block(type, inited, iter) ==
  [type |-> type, inited |-> inited, iter |-> iter, index |-> Null,
   expr |-> Null, var |-> Null, nodes |-> <<>>]

curblock == blocks[Len(blocks)]
AwaitsIndex   == curblock.type = "for" /\ ~curblock.inited
AwaitsManager == curblock.type = "with" /\ ~curblock.inited

WithCur(b) == [blocks EXCEPT ![Len(blocks)] = b]
WithNodes(ns) == WithCur([curblock EXCEPT !.nodes = ns])
append(x) == WithNodes(Append(curblock.nodes, x))
setIndex(x) == WithCur([curblock EXCEPT !.index = x, !.inited = TRUE])
setExpr(x, var) ==
  WithCur([curblock EXCEPT !.expr = x, !.var = var, !.inited = TRUE])

HasLast == curblock.nodes # <<>>
LastNode == curblock.nodes[Len(curblock.nodes)]
ReplaceLast(x) == [curblock.nodes EXCEPT ![Len(curblock.nodes)] = x]

\* A node remembers the instruction that made it; two references to one
\* node are thereby told from two equal nodes.
Stamped(s) ==
  LET x == Peek(s, 1)
  IN IF s # <<>> /\ x # Null /\ "at" \notin DOMAIN x
     THEN Fold(s, 1, [f \in DOMAIN x \cup {"at"} |-> IF f = "at" THEN pos ELSE x[f]])
     ELSE s
SameNode(x, y) ==
  \/ x = Null /\ y = Null
  \/ x # Null /\ y # Null /\ x.at = y.at

Ins == code[pos]
At(ops) == cleanBuild /\ pos <= Len(code) /\ Ins.op \in ops
NextOp == IF pos < Len(code) THEN code[pos + 1].op ELSE ""

----------------------------------------------------------------------------
(* Expressions.                                                            *)

UnaryOpcodes  == DOMAIN UnaryOps \cup {"UNARY_CONVERT", "UNARY_CALL"}
BinaryOpcodes == DOMAIN FromOpcode \cup {"BINARY_OP"}
LoadOpcodes   == NameLoads \cup {"LOAD_GLOBAL", "LOAD_ATTR", "LOAD_METHOD",
                                 "LOAD_BUILD_CLASS", "LOAD_CLOSURE"}
CollectionOpcodes == {"BUILD_LIST", "BUILD_SET", "BUILD_STRING", "BUILD_TUPLE",
                      "BUILD_MAP", "BUILD_CONST_KEY_MAP", "BUILD_SLICE"}
UpdateOpcodes == {"LIST_APPEND", "SET_ADD", "MAP_ADD", "LIST_EXTEND",
                  "SET_UPDATE", "DICT_UPDATE", "DICT_MERGE", "LIST_TO_TUPLE"}
SubscriptOpcodes == {"BINARY_SUBSCR", "BINARY_SLICE", "SLICE_0", "SLICE_1",
                     "SLICE_2", "SLICE_3"}
ShuffleOpcodes == {"DUP_TOP", "DUP_TOP_TWO", "DUP_TOPX", "ROT_TWO", "ROT_THREE",
                   "ROT_FOUR"}
ExpressionOpcodes ==
  UnaryOpcodes \cup BinaryOpcodes \cup LoadOpcodes \cup CollectionOpcodes
  \cup UpdateOpcodes \cup SubscriptOpcodes \cup ShuffleOpcodes
  \cup {"IS_OP", "CONTAINS_OP", "COMPARE_OP", "LOAD_CONST", "STORE_MAP",
        "FORMAT_VALUE", "GET_AWAITABLE", "KW_NAMES", "MAKE_FUNCTION", "GET_ITER",
        "PUSH_NULL", "IMPORT_NAME", "IMPORT_FROM", "COPY", "CALL_FUNCTION_VAR",
        "CALL_FUNCTION_KW", "CALL_FUNCTION_VAR_KW", "CALL_FUNCTION_EX"}

handleImport(s, i) ==
  IF i.op = "IMPORT_FROM" THEN Push(s, Name(i.obj.v))
  ELSE IF ver >= 205
  THEN LET level == Peek(s, 2)
       IN Fold(s, 2, Import(i.obj.v, Peek(s, 1),
                 IF level.t = "object" /\ level.obj.k = "int" THEN level.obj.n ELSE 0))
  ELSE Fold(s, 1, Import(i.obj.v, Peek(s, 1), 0))

\* A chained assignment's copy opens or keeps the mark under which the value
\* is copied, a walrus's copies nothing: its store leaves the value.
handleCopy(s, i) ==
  LET value == IF Peek(s, 1) = Null THEN Object(NoneObj) ELSE Peek(s, 1)
  IN IF i.arg = 1 /\ chainCopyOffsets(pos)
     THEN IF TypeAt(s, 1) = "chain_store" THEN Duplicate(s)
          ELSE Duplicate(Fold(s, 1, value))
     ELSE IF i.arg = 1 /\ walrusCopies(pos) THEN s
     ELSE Push(s, Peek(s, i.arg))

\* What an instruction that only works on the stack leaves there.
Evaluated(s, i) ==
  CASE i.op \in UnaryOpcodes      -> handleUnaryOp(s, i)
    [] i.op \in BinaryOpcodes     -> handleBinaryOp(s, i)
    [] i.op \in LoadOpcodes       -> handleLoad(s, i, ver, NextOp)
    [] i.op \in CollectionOpcodes -> handleBuildCollection(s, i, ver)
    [] i.op \in UpdateOpcodes     -> handleCollectionUpdate(s, i)
    [] i.op \in SubscriptOpcodes  -> handleSubscript(s, i)
    [] i.op \in ShuffleOpcodes    -> handleStackManip(s, i)
    [] i.op \in {"IS_OP", "CONTAINS_OP"}           -> handleIsContainsOp(s, i)
    [] i.op = "COMPARE_OP"                         -> handleCompareOp(s, i, ver)
    [] i.op = "LOAD_CONST"                         -> handleLoadConst(s, i)
    [] i.op = "STORE_MAP"                          -> handleStoreMap(s)
    [] i.op \in {"FORMAT_VALUE", "GET_AWAITABLE"}  -> handleExprWrap(s, i)
    [] i.op = "KW_NAMES"                           -> handleKwNames(s, i)
    [] i.op = "MAKE_FUNCTION"                      -> handleMakeFunction(s, i, ver)
    [] i.op \in {"IMPORT_NAME", "IMPORT_FROM"}     -> handleImport(s, i)
    [] i.op = "COPY"                               -> handleCopy(s, i)
    [] i.op = "PUSH_NULL"                          -> Push(s, Null)
    [] i.op = "GET_ITER"                           -> s
    [] OTHER                                       -> handleSpreadCall(s, i)

\* An augmented operation starts an augmented assignment.
Evaluate ==
  /\ At(ExpressionOpcodes)
  /\ stack' = Stamped(Evaluated(stack, Ins))
  /\ inplaceStore' =
       (inplaceStore \/ (Ins.op \in BinaryOpcodes /\ BinaryOp(Ins) \in InplaceOps))
  /\ pos' = pos + 1
  /\ UNCHANGED <<code, ver, blocks, unpacking, tuples, variable_annotations,
                 globals, processed, cleanBuild>>

----------------------------------------------------------------------------
(* Calls that may emit a statement, and yields.                            *)

Emitted(xs) == WithNodes(curblock.nodes \o xs)

KwMapOnTop == ver >= 311 /\ TypeAt(stack, 1) = "kw_names"
UnderKwMap == IF KwMapOnTop THEN Drop(stack, 1) ELSE stack

\* __build_class__(body, name, bases...)
CallBuildClass ==
  /\ At({"CALL", "CALL_FUNCTION"})
  /\ \E n \in 1..Len(stack) :
       /\ BuildsClass(UnderKwMap, n)
       /\ stack' = Stamped(BuiltClass(UnderKwMap, n,
                             IF KwMapOnTop THEN Peek(stack, 1) ELSE Null))
  /\ pos' = pos + 1
  /\ UNCHANGED <<code, ver, blocks, unpacking, tuples, flags>>

\* Arguments, then what is called; CALL takes the NULL under it too, or is a
\* decorator's call of the definition on top of it.
HandleCall ==
  LET kvs  == IF KwMapOnTop THEN [j \in DOMAIN Peek(stack, 1).kvs |->
                    Peek(stack, 1).kvs[Len(Peek(stack, 1).kvs) + 1 - j]]
              ELSE IF ver >= 311 \/ Ins.op = "CALL_METHOD" THEN <<>>
              ELSE Pairs(Above(stack, 2 * Keywords(Ins.arg)))
      s1   == IF KwMapOnTop THEN UnderKwMap ELSE Drop(stack, 2 * Len(kvs))
      pparams == IF KwMapOnTop THEN Positional(Ins.arg) - Len(kvs)
                 ELSE Positional(Ins.arg)
      n    == IF pparams < 0 THEN 0 ELSE pparams
      ps   == Above(s1, n)
      func == Peek(s1, n + 1)
      rest == Drop(s1, n + 1)
      decorator == /\ Ins.op = "CALL" /\ pparams = 0 /\ Keywords(Ins.arg) = 0
                   /\ Peek(rest, 1) # Null
                   /\ IsDecorated(func)
      target == IF func.t = "class" THEN Name(func.name.obj.v) ELSE NameOf(func)
      defs == Hoisted(ps) \o (IF decorator /\ func.t # "call"
                              THEN <<Store(func, target)>> ELSE <<>>)
      call == IF decorator THEN Call(Peek(rest, 1), <<target>>, <<>>)
              ELSE Call(func, [j \in DOMAIN ps |-> NameOf(ps[j])], kvs)
      left == IF decorator THEN Drop(rest, 1)
              ELSE IF Ins.op = "CALL" THEN WithoutMark(rest) ELSE rest
  IN /\ At({"CALL", "CALL_FUNCTION", "CALL_METHOD"})
     /\ Ins.op = "CALL_METHOD" \/ \A m \in 1..Len(stack) : ~BuildsClass(UnderKwMap, m)
     /\ stack' = Stamped(Push(left, call))
     /\ blocks' = Emitted(defs)
     /\ pos' = pos + 1
     /\ UNCHANGED <<code, ver, unpacking, tuples, flags>>

\* A yield whose value is used is an expression; it has been one since 2.5.
YieldValue ==
  /\ At({"YIELD_VALUE"})
  /\ IF ver >= 205 /\ NextOp \notin {"POP_TOP", ""}
     THEN /\ stack' = Stamped(Fold(stack, 1, YieldExpr(Peek(stack, 1))))
          /\ UNCHANGED blocks
     ELSE /\ stack' = Drop(stack, 1)
          /\ blocks' = append(Yield(Peek(stack, 1)))
  /\ pos' = pos + 1
  /\ UNCHANGED <<code, ver, unpacking, tuples, flags>>

----------------------------------------------------------------------------
(* Stores.  A target's operands lie on the value it takes.                 *)

TargetArity == CASE Ins.op \in NameStores  -> 0
                 [] Ins.op = "STORE_ATTR"   -> 1
                 [] Ins.op = "STORE_SUBSCR" -> 2
StoreTarget == CASE Ins.op \in NameStores  -> Name(Ins.obj.v)
                 [] Ins.op = "STORE_ATTR"   -> Attr(Peek(stack, 1), Ins.obj.v)
                 [] Ins.op = "STORE_SUBSCR" -> SubscrOnTop(stack, Ins.op)

\* What takes a value besides a statement of its own.
Takers ==
  [STORE_NAME   |-> {"index", "import", "manager", "decorators"},
   STORE_FAST   |-> {"index", "import", "manager", "decorators"},
   STORE_DEREF  |-> {"index", "manager", "decorators"},
   STORE_GLOBAL |-> {"import", "decorators"},
   STORE_ATTR   |-> {"index"},
   STORE_SUBSCR |-> {"index"}]
UnpackTakers == IF Ins.op \in NameStores THEN {"index", "manager"} ELSE {}

\* The nth value inwards from x, each the only argument of a call.
Inner(x, n) ==
  LET in[j \in Nat] ==
        IF j = 0 THEN x
        ELSE LET y == in[j - 1]
             IN IF y.t = "call" /\ Len(y.vs) = 1 /\ y.kvs = <<>> THEN y.vs[1] ELSE Null
  IN in[n]

\* The value x calls n decorators on the definition just stored under name.
tryAttachDecorators(x, name, n) ==
  /\ HasLast
  /\ LastNode.t = "store"
  /\ IsDefinition(LastNode.src) \/ LastNode.src.t = "class"
  /\ LastNode.dest.t = "name" /\ LastNode.dest.id = name.id
  /\ Inner(x, n).t = "name" /\ Inner(x, n).id = name.id

\* Mutant: the definition is taken out of the block and not put back.
DecoratedLost(x, n) == SubSeq(curblock.nodes, 1, Len(curblock.nodes) - 1)

Decorated(x, n) ==
  ReplaceLast([LastNode EXCEPT !.src.decorators =
                 @ \o [j \in 1..n |-> Inner(x, j - 1).func]])

\* The value x of a chained assignment gets one target more.  The copy under
\* it is dropped; the statement is complete when nothing is left below.
append_to_chain_store(chain, x, s) ==
  LET longer == [chain EXCEPT !.vs = Append(@, x)]
      rest   == Drop(s, 1)
  IN IF Peek(rest, 1) = Null THEN stack' = rest /\ blocks' = append(longer)
     ELSE stack' = Push(rest, longer) /\ UNCHANGED blocks

\* The value v, no longer on the stack s, is bound to the target x.
Bind(takers, v, x, s) ==
  LET toIndex   == "index" \in takers /\ AwaitsIndex
      toImport  == "import" \in takers /\ TypeAt(s, 1) = "import"
      toManager == "manager" \in takers /\ AwaitsManager
      decorates == "decorators" \in takers
                   /\ \E n \in 1..MaxDecorators : tryAttachDecorators(v, x, n)
  IN \/ toIndex /\ stack' = s /\ blocks' = setIndex(x)
     \/ /\ ~toIndex /\ toImport
        /\ stack' = Fold(s, 1, [Peek(s, 1) EXCEPT !.stores = Append(@, Store(v, x))])
        /\ UNCHANGED blocks
     \/ /\ ~toIndex /\ ~toImport /\ toManager
        /\ stack' = s /\ blocks' = setExpr(v, x)
     \/ /\ ~toIndex /\ ~toImport /\ ~toManager /\ v.t = "chain_store"
        /\ append_to_chain_store(v, x, s)
     \/ /\ ~toIndex /\ ~toImport /\ ~toManager /\ v.t # "chain_store" /\ decorates
        /\ \E n \in 1..MaxDecorators :
             /\ tryAttachDecorators(v, x, n)
             /\ stack' = s /\ blocks' = WithNodes(Decorated(v, n))
     \/ /\ ~toIndex /\ ~toImport /\ ~toManager /\ v.t # "chain_store" /\ ~decorates
        /\ stack' = s /\ blocks' = append(Store(v, x))

\* Every store but one of a slice ends an augmented assignment; a store to a
\* global name that is no walrus's and no parallel assignment's declares it.
\* A starred target is no name: declaring it throws.
\* Mutant: every target that is declared global is taken for a starred one.
StoredThrows(declares) ==
  LET global == declares /\ Ins.op = "STORE_GLOBAL"
  IN /\ At(StoreOps)
     /\ pos' = pos + 1
     /\ inplaceStore' = FALSE
     /\ cleanBuild' = ~global
     /\ UNCHANGED <<code, ver, globals, variable_annotations, processed>>

Stored(declares) ==
  LET global  == declares /\ Ins.op = "STORE_GLOBAL"
      starred == unpack > 0 /\ unpack = unpackStar
  IN /\ At(StoreOps)
     /\ pos' = pos + 1
     /\ inplaceStore' = FALSE
     /\ globals' = globals \cup (IF global /\ ~starred THEN {Ins.obj.v} ELSE {})
     /\ cleanBuild' = ~(global /\ starred)
     /\ UNCHANGED <<code, ver, variable_annotations, processed>>

StoreWalrus ==
  /\ Stored(FALSE)
  /\ walrusStores(pos)
  /\ stack' = Stamped(Fold(stack, 1, Walrus(Peek(stack, 1), StoreTarget)))
  /\ UNCHANGED <<blocks, unpacking, tuples>>

\* n values that a run of stores can take: none is a mark or an import.
tupleAssignSafe(n) ==
  /\ ~AwaitsIndex /\ ~AwaitsManager
  /\ \A j \in 1..n : TypeAt(stack, j) \notin {"null", "chain_store", "import"}

\* The stores the parallel assignment at hand still has, this one included.
\* Mutant: a run starts while an unpacking is open.
InRunUnpacking ==
  LET run == tupleAssignStart(pos)
  IN IF tupleStore = 0 /\ run > 0 /\ tupleAssignSafe(run) THEN run ELSE tupleStore

InRun ==
  LET run == tupleAssignStart(pos)
  IN IF tupleStore = 0 /\ unpack = 0 /\ run > 0 /\ tupleAssignSafe(run)
     THEN run ELSE tupleStore

Backwards(xs) == [j \in DOMAIN xs |-> xs[Len(xs) + 1 - j]]

tupleStoreStep ==
  LET targets == Append(tupleStoreTargets, StoreTarget)
      values  == Append(tupleStoreValues, Peek(stack, 1))
  IN /\ Stored(FALSE)
     /\ Ins.op \in NameStores
     /\ ~walrusStores(pos)
     /\ InRun > 0
     /\ tupleStore' = InRun - 1
     /\ stack' = Drop(stack, 1)
     /\ IF InRun = 1
        THEN /\ blocks' = append(Store(Tuple(Backwards(values)),
                                       Tuple(Backwards(targets))))
             /\ tupleStoreTargets' = <<>> /\ tupleStoreValues' = <<>>
        ELSE /\ tupleStoreTargets' = targets /\ tupleStoreValues' = values
             /\ UNCHANGED blocks
     /\ UNCHANGED unpacking

NotYetStored ==
  Ins.op \in NameStores => ~walrusStores(pos) /\ InRun = 0

AddTo(tuple, x) == IF tuple.t = "tuple" THEN Extended(tuple, <<x>>) ELSE tuple

\* The target joins the tuple on top.  A tuple that is complete joins the one
\* below it; when the outermost is, it takes the value under it.
StoreUnpacked ==
  LET target == IF unpack = unpackStar THEN Unary("*", StoreTarget) ELSE StoreTarget
      s      == Drop(stack, TargetArity)
      depth  == Len(unpackNest)
      Left(k) == IF k = 0 THEN unpack - 1 ELSE unpackNest[depth + 1 - k] - 1
      tup[k \in 0..depth] ==
        IF k = 0 THEN AddTo(Peek(s, 1), target) ELSE AddTo(Peek(s, k + 1), tup[k - 1])
  IN /\ Stored(TRUE)
     /\ NotYetStored
     /\ unpack > 0
     /\ \E k \in 0..depth :
          /\ \A j \in 0..(k - 1) : Left(j) <= 0
          /\ k = depth \/ Left(k) > 0
          /\ unpack' = Left(k)
          /\ unpackNest' = SubSeq(unpackNest, 1, depth - k)
          /\ IF Left(k) > 0
             THEN /\ stack' = Fold(s, k + 1, tup[k])
                  /\ UNCHANGED blocks
             ELSE Bind(UnpackTakers, Peek(s, k + 2), tup[k], Drop(s, k + 2))
     /\ UNCHANGED <<unpackStar, tuples>>

IsAnnotation ==
  /\ Ins.op = "STORE_SUBSCR" /\ variable_annotations
  /\ TypeAt(stack, 2) = "name" /\ Peek(stack, 2).id = "__annotations__"

\* __annotations__[x] = type, alone or after x = value.
StoreAnnotation ==
  LET key == Peek(stack, 1)
      annotated == AnnotatedVar(key, Peek(stack, 3))
      sameTarget == /\ HasLast /\ LastNode.t = "store" /\ LastNode.dest.t = "name"
                    /\ key.t = "object" /\ key.obj = StrObj(LastNode.dest.id)
  IN /\ Stored(FALSE)
     /\ unpack = 0 /\ IsAnnotation
     /\ stack' = Drop(stack, 3)
     /\ blocks' = IF sameTarget THEN WithNodes(ReplaceLast(Store(LastNode.src, annotated)))
                  ELSE append(annotated)
     /\ UNCHANGED <<unpacking, tuples>>

\* An entry of a display that is being built takes no statement: every
\* reference to the display has it.
StoreMapEntry ==
  /\ Stored(FALSE)
  /\ Ins.op = "STORE_SUBSCR"
  /\ unpack = 0 /\ ~IsAnnotation /\ ~AwaitsIndex
  /\ TypeAt(stack, 2) = "map"
  /\ LET m     == Peek(stack, 2)
         rest  == Drop(stack, 3)
         entry == <<Peek(stack, 1), Peek(stack, 3)>>
     IN stack' = [j \in DOMAIN rest |->
                    IF SameNode(rest[j], m) THEN [m EXCEPT !.kvs = Append(@, entry)]
                    ELSE rest[j]]
  /\ UNCHANGED <<blocks, unpacking, tuples>>

StorePlain ==
  /\ Stored(TRUE)
  /\ NotYetStored
  /\ unpack = 0
  /\ Ins.op = "STORE_SUBSCR" => ~IsAnnotation /\ (AwaitsIndex \/ TypeAt(stack, 2) # "map")
  /\ Ins.op = "STORE_NAME" => Ins.obj.v # "__classcell__"
  /\ Bind(Takers[Ins.op], Peek(stack, TargetArity + 1), StoreTarget,
          Drop(stack, TargetArity + 1))
  /\ UNCHANGED <<unpacking, tuples>>

\* The cell of a class body is not the program's.
StoreClassCell ==
  /\ Stored(FALSE)
  /\ NotYetStored
  /\ unpack = 0
  /\ Ins.op = "STORE_NAME" /\ Ins.obj.v = "__classcell__"
  /\ stack' = Drop(stack, 1)
  /\ UNCHANGED <<blocks, unpacking, tuples>>

----------------------------------------------------------------------------
(* Unpackings and parallel assignments to other targets than names.        *)

\* UNPACK_SEQUENCE of no value has no store to wait for.
UnpackNone ==
  LET x == Tuple(<<>>)
      v == Peek(stack, 1)
  IN /\ At({"UNPACK_SEQUENCE"})
     /\ Ins.arg = 0
     /\ unpack' = 0 /\ unpackStar' = -1
     /\ \/ AwaitsIndex /\ blocks' = setIndex(x) /\ UNCHANGED stack
        \/ ~AwaitsIndex /\ v.t = "chain_store"
           /\ append_to_chain_store(v, x, Drop(stack, 1))
        \/ ~AwaitsIndex /\ v.t # "chain_store"
           /\ stack' = Drop(stack, 1) /\ blocks' = append(Store(v, x))
     /\ pos' = pos + 1
     /\ UNCHANGED <<code, ver, unpackNest, tuples, flags>>

\* The targets are gathered in a tuple on the stack.  Only the plain form
\* remembers the unpacking it stands in.
\* Mutant: the unpacking around this one is forgotten.
handleUnpackFlat ==
  /\ At(Unpackings)
  /\ Arity(Ins) > 0
  /\ unpack' = Arity(Ins)
  /\ unpackStar' = IF Ins.op = "UNPACK_EX" THEN (Ins.arg \div 256) + 1 ELSE -1
  /\ stack' = Stamped(Push(stack, Tuple(<<>>)))
  /\ pos' = pos + 1
  /\ UNCHANGED <<code, ver, blocks, unpackNest, tuples, flags>>

handleUnpack ==
  /\ At(Unpackings)
  /\ Arity(Ins) > 0
  /\ unpack' = Arity(Ins)
  /\ IF Ins.op = "UNPACK_EX"
     THEN unpackStar' = (Ins.arg \div 256) + 1 /\ UNCHANGED unpackNest
     ELSE /\ unpackStar' = -1
          /\ unpackNest' = IF unpack > 0 THEN Append(unpackNest, unpack) ELSE unpackNest
  /\ stack' = Stamped(Push(stack, Tuple(<<>>)))
  /\ pos' = pos + 1
  /\ UNCHANGED <<code, ver, blocks, tuples, flags>>

\* The top exchanged for the value at depth n.
Exchanged(s, n) ==
  Drop(s, n) \o [Above(s, n) EXCEPT ![1] = Peek(s, 1), ![n] = Peek(s, n)]

\* SWAP 2, POP_TOP drops the value below the top; the walk down a dotted
\* import keeps the import instead of the attribute.
SwapAndPop ==
  LET below == Peek(stack, 2)
      walk  == below.t = "import" /\ IsNone(below.from) /\ below.n = 0
  IN /\ At({"SWAP"})
     /\ Ins.arg = 2 /\ NextOp = "POP_TOP" /\ Peek(stack, 1) # Null
     /\ stack' = Fold(stack, 2, IF walk THEN below ELSE Peek(stack, 1))
     /\ pos' = pos + 2
     /\ UNCHANGED <<code, ver, blocks, unpacking, tuples, flags>>

Exchanges ==
  \/ NextOp \in Unpackings /\ Peek(stack, Ins.arg) # Null
  \/ inplaceStore

SwapExchanges ==
  /\ At({"SWAP"})
  /\ ~(Ins.arg = 2 /\ NextOp = "POP_TOP" /\ Peek(stack, 1) # Null)
  /\ Exchanges
  /\ stack' = Exchanged(stack, Ins.arg)
  /\ pos' = pos + 1
  /\ UNCHANGED <<code, ver, blocks, unpacking, tuples, flags>>

\* Any other SWAP starts a parallel assignment: the values are a tuple that
\* is unpacked.
SwapOpensTuple ==
  /\ At({"SWAP"})
  /\ ~(Ins.arg = 2 /\ NextOp = "POP_TOP" /\ Peek(stack, 1) # Null)
  /\ ~Exchanges
  /\ unpack' = Ins.arg
  /\ stack' = Stamped(Push(Fold(stack, Ins.arg, Tuple(Above(stack, Ins.arg))),
                           Tuple(<<>>)))
  /\ pos' = pos + 1
  /\ UNCHANGED <<code, ver, blocks, unpackStar, unpackNest, tuples, flags>>

----------------------------------------------------------------------------
(* Statements of one instruction.                                          *)

\* Statement x made of the n values on top.
Statement(n, x) ==
  /\ stack' = Drop(stack, n)
  /\ blocks' = append(x)
  /\ pos' = pos + 1
  /\ UNCHANGED <<code, ver, unpacking, tuples>>

SliceStores  == {"STORE_SLICE", "STORE_SLICE_0", "STORE_SLICE_1", "STORE_SLICE_2",
                 "STORE_SLICE_3"}
SliceDeletes == {"DELETE_SLICE_0", "DELETE_SLICE_1", "DELETE_SLICE_2",
                 "DELETE_SLICE_3"}

handleStoreSlice ==
  /\ At(SliceStores)
  /\ LET n == SubscrArity(Ins.op)
     IN Statement(n + 1, Store(Peek(stack, n + 1), SubscrOnTop(stack, Ins.op)))
  /\ UNCHANGED flags

NameDeletes == {"DELETE_NAME", "DELETE_FAST", "DELETE_GLOBAL"}

handleDelete ==
  /\ At(NameDeletes \cup SliceDeletes \cup {"DELETE_ATTR", "DELETE_SUBSCR"})
  /\ CASE Ins.op \in NameDeletes -> Statement(0, Delete(Name(Ins.obj.v)))
       [] Ins.op = "DELETE_ATTR" ->
            Statement(1, Delete(Attr(Peek(stack, 1), Ins.obj.v)))
       [] OTHER ->
            Statement(SubscrArity(Ins.op), Delete(SubscrOnTop(stack, Ins.op)))
  /\ globals' = globals \cup (IF Ins.op = "DELETE_GLOBAL" THEN {Ins.obj.v} ELSE {})
  /\ UNCHANGED <<inplaceStore, variable_annotations, processed, cleanBuild>>

handleRaiseVarargs ==
  /\ At({"RAISE_VARARGS"})
  /\ Statement(Ins.arg, Raise(Above(stack, Ins.arg)))
  /\ UNCHANGED flags

\* A mark left by the copy of a value is dropped first.
handleExecStmt ==
  LET s == IF TypeAt(stack, 1) = "chain_store" THEN Drop(stack, 1) ELSE stack
  IN /\ At({"EXEC_STMT"})
     /\ Statement(Len(stack) - Len(Drop(s, 3)), Exec(Peek(s, 3), Peek(s, 2), Peek(s, 1)))
     /\ UNCHANGED flags

ImportStar ==
  /\ At({"IMPORT_STAR"})
  /\ Statement(1, Store(Peek(stack, 1), Null))
  /\ UNCHANGED flags

\* An item joins the print statement before it when that has the same stream
\* and is still open; a newline ends such a statement, and takes a value from
\* the stack if there is one.  The item None is no node.
handlePrint ==
  LET toStream == Ins.op \in {"PRINT_ITEM_TO", "PRINT_NEWLINE_TO"}
      item     == Ins.op \in {"PRINT_ITEM", "PRINT_ITEM_TO"}
      stream   == IF toStream THEN Peek(stack, 1) ELSE Null
      s        == IF toStream THEN Drop(stack, 1) ELSE stack
      values   == IF item /\ Peek(s, 1) # Null THEN <<Peek(s, 1)>> ELSE <<>>
      joins    == /\ HasLast /\ LastNode.t = "print"
                  /\ SameNode(LastNode.stream, stream)
                  /\ ~LastNode.eol
  IN /\ At({"PRINT_ITEM", "PRINT_ITEM_TO", "PRINT_NEWLINE", "PRINT_NEWLINE_TO"})
     /\ blocks' =
          IF ~joins THEN append(PrintNode(values, stream))
          ELSE WithNodes(ReplaceLast(
                 IF item THEN Extended(LastNode, <<Peek(s, 1)>>)
                 ELSE [LastNode EXCEPT !.eol = TRUE]))
     /\ stack' = Drop(s, 1)
     /\ processed' = processed \cup (IF stream = Null THEN {} ELSE {stream.at})
     /\ pos' = pos + 1
     /\ UNCHANGED <<code, ver, unpacking, tuples, inplaceStore,
                    variable_annotations, globals, cleanBuild>>

SetupAnnotations ==
  /\ At({"SETUP_ANNOTATIONS"})
  /\ variable_annotations' = TRUE
  /\ pos' = pos + 1
  /\ UNCHANGED <<code, ver, stack, blocks, unpacking, tuples, inplaceStore, globals,
                 processed, cleanBuild>>

----------------------------------------------------------------------------
(* Expression statements and the headers of blocks.                        *)

\* POP_TOP ends an expression statement.  Where a header awaits its target it
\* says that there is none; a value already printed is not printed again.
handlePopTop ==
  LET x == Peek(stack, 1)
      dropped == x = Null \/ ("at" \in DOMAIN x /\ x.at \in processed)
  IN /\ At({"POP_TOP"})
     /\ stack' = Drop(stack, 1)
     /\ blocks' = IF AwaitsManager THEN setExpr(x, Null)
                  ELSE IF ~curblock.inited THEN WithCur([curblock EXCEPT !.inited = TRUE])
                  ELSE IF dropped THEN blocks
                  ELSE append(x)
     /\ pos' = pos + 1
     /\ UNCHANGED <<code, ver, unpacking, tuples, flags>>

\* The iterator stays on the stack since 3.12, with a NULL for its item.
handleForIter ==
  /\ At({"FOR_ITER"})
  /\ stack' = Push(IF ver < 312 THEN Drop(stack, 1) ELSE stack, Null)
  /\ blocks' = Append(blocks, Block("for", FALSE, Peek(stack, 1)))
  /\ pos' = pos + 1
  /\ UNCHANGED <<code, ver, unpacking, tuples, flags>>

\* The manager stays on the stack: it is the value that the header takes.
handleSetupWith ==
  /\ At({"SETUP_WITH", "BEFORE_WITH"})
  /\ blocks' = Append(blocks, Block("with", FALSE, Null))
  /\ pos' = pos + 1
  /\ UNCHANGED <<code, ver, stack, unpacking, tuples, flags>>

\* The build ends where an opcode has no handler.
Unsupported ==
  /\ At({"DELETE_DEREF"})
  /\ cleanBuild' = FALSE
  /\ UNCHANGED <<code, ver, pos, stack, blocks, unpacking, tuples, inplaceStore,
                 variable_annotations, globals, processed>>

----------------------------------------------------------------------------

Init ==
  /\ \E c \in Codes : code = c.code /\ ver = c.ver
  /\ pos = 1
  /\ stack = <<>>
  /\ blocks = <<Block("main", TRUE, Null)>>
  /\ unpack = 0 /\ unpackStar = -1 /\ unpackNest = <<>>
  /\ tupleStore = 0 /\ tupleStoreTargets = <<>> /\ tupleStoreValues = <<>>
  /\ inplaceStore = FALSE /\ variable_annotations = FALSE
  /\ globals = {} /\ processed = {} /\ cleanBuild = TRUE

Stores ==
  \/ StoreWalrus \/ tupleStoreStep \/ StoreUnpacked \/ StoreAnnotation
  \/ StoreMapEntry \/ StorePlain \/ StoreClassCell

Step ==
  \/ Evaluate \/ CallBuildClass \/ HandleCall \/ YieldValue
  \/ Stores
  \/ UnpackNone \/ handleUnpack
  \/ SwapAndPop \/ SwapExchanges \/ SwapOpensTuple
  \/ handleStoreSlice \/ handleDelete \/ handleRaiseVarargs \/ handleExecStmt
  \/ ImportStar \/ handlePrint \/ SetupAnnotations
  \/ handlePopTop \/ handleForIter \/ handleSetupWith \/ Unsupported

Done == pos > Len(code) \/ ~cleanBuild

\* The build is over; the machine rests.
Finished == Done /\ UNCHANGED vars

Next == Step \/ Finished

Spec == Init /\ [][Next]_vars /\ WF_vars(Step)

----------------------------------------------------------------------------
(* Properties.                                                             *)

\* Once a parallel assignment has taken its first store, as many stores to
\* names as tupleStore counts come next, one value is kept for each target,
\* and no unpacking is open: the statement will be complete.
RunAhead ==
  /\ Len(tupleStoreTargets) = Len(tupleStoreValues)
  /\ tupleStore = 0 <=> tupleStoreTargets = <<>>
  /\ tupleStore > 0 =>
       /\ unpack = 0
       /\ \A p \in pos..(pos + tupleStore - 1) :
            p \in DOMAIN code /\ code[p].op \in NameStores

\* How a later instruction completes the statement before it: a print
\* statement takes an item or its newline, an assignment its annotation, a
\* definition its decorators.
Completes(new, old) ==
  \/ new.t = "print" /\ old.t = "print" /\ ~old.eol /\ new.stream = old.stream
  \/ /\ new.t = "store" /\ old.t = "store"
     /\ \/ new.src = old.src /\ new.dest.t = "annotated"
        \/ new.dest = old.dest /\ new.src.t = old.src.t /\ new.src.t \in {"function", "class"}

\* Statements that are out stay out, in their order: a step leaves the outer
\* blocks alone, and of the statements of the innermost one it completes the
\* last at most (append, removeLast and setDecorators on curblock).
EmittedStays ==
  [][/\ Len(blocks') >= Len(blocks)
     /\ \A j \in 1..(Len(blocks) - 1) : blocks'[j] = blocks[j]
     /\ LET old == curblock.nodes
            new == blocks'[Len(blocks)].nodes
        IN /\ Len(new) >= Len(old)
           /\ \A j \in 1..(Len(old) - 1) : new[j] = old[j]
           /\ old # <<>> =>
                \/ new[Len(old)] = old[Len(old)]
                \/ Completes(new[Len(old)], old[Len(old)])]_vars

\* Code that the builder gives up on: the delete of a cell's name, and a
\* starred target that is declared global.
Beyond ==
  \E p \in DOMAIN code :
    \/ code[p].op = "DELETE_DEREF"
    \/ /\ code[p].op = "UNPACK_EX"
       /\ code[p + 1 + (code[p].arg % 256)].op = "STORE_GLOBAL"

\* The builder reads the code to its end: every instruction finds on the
\* stack what its handler takes.  Code that is beyond it is reported
\* (cleanBuild, which the output ends on).
AllRead == <>(IF Beyond THEN ~cleanBuild ELSE pos > Len(code))

=============================================================================
