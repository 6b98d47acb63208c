------------------------------ MODULE Programs ------------------------------
(***************************************************************************)
(* Small sources for CodeBuilder, as suites of ConditionalCompiler.        *)
(***************************************************************************)
EXTENDS Epilogues, ConditionalCompiler

\* Every name is the same here: a value is known by the place it is loaded at.
N     == Name(0)
IfExp == Ternary(CondBlock("IF", 0, N, FALSE), N, N)

IfStmt(c, body) == [CondBlock("IF", 0, c, FALSE) EXCEPT !.nodes = body]
Else(body)      == [Block("ELSE", 0) EXCEPT !.nodes = body]

\* All ifs, without and with an else, of these parts.
IfElse(conds, thens, elses) ==
  {<<IfStmt(c, b)>> : c \in conds, b \in thens}
    \cup {<<IfStmt(c, b), Else(e)>> : c \in conds, b \in thens, e \in elses}

\* The suites of S, and those with a statement before or behind them.
Preceded(S) == {<<N>> \o s : s \in S}
Then(S, ns) == {s \o ns : s \in {t \in S : Falls(t)}}
Followed(S) == Then(S, <<N>>)

Named(c) == [i \in 1..Len(c) |-> IF c[i].op = "LOAD" THEN Instr("LOAD", i) ELSE c[i]]

\* A function body, and that with one statement more.
Body(s)    == Named(Compile(s))
Program(s) == Body(s \o <<N>>)

\* The shapes of ns, an if that has an else, that are not rebuilt as they were:
\* the else starts with an if and goes on; the then-branch only leaves through an
\* inner if's false condition; the else is an if whose then-branch returns, and
\* the else of that one branches, or the outer if ends an arm (over).
ElseIfThenMore(ns) == ns[2].nodes[1].type = "IF" /\ Rest(ns[2].nodes) # <<>>
EndSkipped(ns)     == Falls(ns[1].nodes) /\ ~EndReached(ns[1].nodes)
ElseAfterReturn(ns, over) ==
  LET in == ns[2].nodes
  IN /\ in[1].type = "IF" /\ HasElse(Chain(in)) /\ ~EndReached(in[1].nodes)
     /\ over \/ \E i \in 1..Len(in[2].nodes) : in[2].nodes[i].type \in {"IF", "TERNARY"}

RECURSIVE Regular(_, _)
\* None of these shapes occurs in the suite.
Regular(ns, over) ==
  ns = <<>> \/
    LET last == Rest(ns) = <<>>
        more == HasElse(Chain(ns))
    IN /\ Regular(Rest(ns), over)
       /\ ns[1].type = "IF" => Regular(ns[1].nodes, more \/ (last /\ over))
       /\ ns[1].type = "IF" /\ more =>
            /\ Regular(ns[2].nodes, last /\ over)
            /\ ~ElseIfThenMore(ns) /\ ~EndSkipped(ns) /\ ~ElseAfterReturn(ns, last /\ over)

\* An if at the end whose else, behind an `and', or whose then-branch, behind an
\* `or', is only the return of None that ends the function anyway.
BareReturn(ns) ==
  /\ Rest(ns) = <<>>
  /\ \/ ns[1].cond.type = "AND" /\ HasElse(Chain(ns)) /\ ns[2].nodes = <<Return(Null)>>
     \/ ns[1].cond.type = "OR" /\ ns[1].nodes = <<Return(Null)>>

----------------------------------------------------------------------------
(* What the tree owes the program.                                         *)

RECURSIVE Names(_), AllNames(_)
Names(n) ==
  CASE n.type = "NAME"           -> <<n.name>>
    [] n.type = "NOT"            -> Names(n.arg)
    [] n.type \in {"AND", "OR"}  -> Names(n.left) \o Names(n.right)
    [] n.type = "TERNARY"        -> Names(n.cond) \o Names(n.then) \o Names(n.else)
    [] n.type = "RETURN"         -> Names(n.value)
    [] n.type \in BlockTypes     -> Names(n.cond) \o AllNames(n.nodes)
    [] OTHER                     -> <<>>
AllNames(ns) == IF ns = <<>> THEN <<>> ELSE Names(Head(ns)) \o AllNames(Tail(ns))

Loaded == {p \in 1..(IF pc \in {"unwind", "exec"} THEN curpos - 1 ELSE pos - 1) : Op(p) = "LOAD"}

\* A value that was loaded is in the tree or on the operand stack, once: blocks
\* that close, stacks that are restored and conditional expressions that are put
\* together neither lose nor repeat one.
EachValueOnce ==
  LET ns == AllNames(blocks) \o AllNames(stack)
  IN Len(ns) = Cardinality(Loaded) /\ {ns[i] : i \in 1..Len(ns)} = Loaded

\* The finished tree mentions the values in the order they are loaded in.
SourceOrder ==
  pc = "done" =>
    LET ns == AllNames(blocks) IN \A i \in 1..(Len(ns) - 1) : ns[i] < ns[i + 1]

\* A statement or a condition goes into a block that has not ended: every end is
\* noticed in time, whatever jumps land on it.
NothingLate ==
  pc = "exec" /\ Op(curpos) \in CondJumps \cup {"POP_TOP", "RETURN_VALUE"} =>
    curblock.type = "MAIN" \/ curpos < curblock.end

\* At the end of the code only the body is open, and no value is left over.
NothingLeftOpen == pc = "next" /\ pos > Len(code) => Len(blocks) = 1 /\ stack = <<>>

\* build() gets to the end, and the source that is printed compiles to the code:
\* "decompiled source that recompiles to the same byte-code", README.markdown:6.
Recompiles == Stopped => pc = "done" /\ Compile(Printed) = code
=============================================================================
