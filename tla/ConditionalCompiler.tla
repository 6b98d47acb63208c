------------------------ MODULE ConditionalCompiler ------------------------
(***************************************************************************)
(* The other side of CodeBuilder: the 3.11 compiler, on the statements     *)
(* CodeBuilder rebuilds.  It is not part of the repository.                *)
(*                                                                         *)
(* A suite is a sequence of nodes in the form CodeBuilder leaves them in,  *)
(* an if followed by its elif and else blocks, so that one definition      *)
(* compiles a source and recompiles what was decompiled.                   *)
(*                                                                         *)
(* What a LOAD stands for is longer than the exits that are copied to the  *)
(* place of a jump to them; so is a return in the source, for its line.    *)
(***************************************************************************)
EXTENDS Integers, Sequences, FiniteSets

LOCAL S == INSTANCE SequencesExt

\* block: of a condition's jump, the age of the block it ends (below).
I(op, arg) == [op |-> op, arg |-> arg, block |-> <<>>]

\* A suite that is not a program: an empty one, an else without its if.
NotASuite == <<I("NOP", 0)>>

ReturnNone == <<I("LOAD_CONST", 0), I("RETURN_VALUE", 0)>>

CondJump(sense, d, b) ==
  [op |-> IF sense THEN "POP_JUMP_FORWARD_IF_TRUE" ELSE "POP_JUMP_FORWARD_IF_FALSE",
   arg |-> d, block |-> b]

----------------------------------------------------------------------------
(* The compiler makes a block before what is in it, and that of an else or *)
(* of what follows before the blocks of the body.  A block's age is a      *)
(* sequence; what is made in the course of t is older the smaller t is.    *)

Follows(t) == t \o <<1>>
ElseOf(t)  == t \o <<2>>
TestOf(t)  == t \o <<3>>
BodyOf(t)  == t \o <<4>>
WithinElse(t) == t \o <<5>>

Older(s, t) ==
  \/ Len(s) < Len(t) /\ SubSeq(t, 1, Len(s)) = s
  \/ \E i \in 1..(IF Len(s) < Len(t) THEN Len(s) ELSE Len(t)) :
       SubSeq(s, 1, i - 1) = SubSeq(t, 1, i - 1) /\ s[i] < t[i]

RECURSIVE Test(_, _, _, _, _), AfterTest(_, _, _, _)

\* One operand that decides jumps as the whole does.
Decides(c, sense) == (c.type = "OR") = sense

\* The block in which control goes on behind a condition: where it was
\* decided early and the other way there is a label, made before.
AfterTest(c, sense, t, new) ==
  CASE c.type = "NOT" -> AfterTest(c.arg, ~sense, t, new)
    [] c.type \in {"AND", "OR"} ->
         IF Decides(c, sense) THEN AfterTest(c.right, sense, t \o <<2>>, new) ELSE t \o <<0>>
    [] OTHER -> new

\* Falls through if the condition is not `sense', else jumps d further.
Test(c, sense, d, b, t) ==
  CASE c.type = "NAME" -> <<I("LOAD", c.name), CondJump(sense, d, b)>>
    [] c.type = "NULL" -> <<I("LOAD_CONST", 0), CondJump(sense, d, b)>>
    [] c.type = "NOT"  -> Test(c.arg, ~sense, d, b, t)
    [] c.type \in {"AND", "OR"} ->
         LET first == IF Decides(c, sense) THEN sense ELSE ~sense
             r == Test(c.right, sense, d, AfterTest(c.left, first, t \o <<1>>, t \o <<2>>),
                       t \o <<2>>)
             l == Test(c.left, first, IF Decides(c, sense) THEN Len(r) + d ELSE Len(r), b, t \o <<1>>)
         IN l \o r

\* A block's condition, jumping when it does not hold.
BlockTest(b, d, blk, t) == Test(b.cond, b.neg, d, blk, t)

RECURSIVE Value(_, _)

\* The result of a value is wanted x after its end: a jump to a jump goes where
\* that one leads.
Value(v, x) ==
  CASE v.type = "NAME" -> <<I("LOAD", v.name)>>
    [] v.type = "NULL" -> <<I("LOAD_CONST", 0)>>
    [] v.type = "TERNARY" ->
         LET e == Value(v.else, x)
             t == Value(v.then, 1 + Len(e) + x)
         IN BlockTest(v.cond, Len(t) + 1, <<>>, <<>>) \o t
              \o <<I("JUMP_FORWARD", Len(e) + x)>> \o e
    [] OTHER -> NotASuite

----------------------------------------------------------------------------
\* The statement a suite starts with: an if takes its elifs and its else along.
Chain(ns) ==
  LET last == CHOOSE k \in 1..Len(ns) :
        /\ \A i \in 2..k : ns[i].type \in {"ELIF", "ELSE"} /\ ns[i - 1].type \in {"IF", "ELIF"}
        /\ k < Len(ns) => ~(ns[k + 1].type \in {"ELIF", "ELSE"} /\ ns[k].type \in {"IF", "ELIF"})
  IN SubSeq(ns, 1, last)

Rest(ns) == SubSeq(ns, Len(Chain(ns)) + 1, Len(ns))

HasElse(arms) == arms[Len(arms)].type = "ELSE"

RECURSIVE Falls(_), EndReached(_)

\* Control can leave the suite at its end.
Falls(ns) ==
  \/ ns = <<>>
  \/ /\ CASE Head(ns).type = "RETURN" -> FALSE
          [] Head(ns).type = "IF" ->
               ~HasElse(Chain(ns)) \/ \E i \in 1..Len(Chain(ns)) : Falls(ns[i].nodes)
          [] OTHER -> TRUE
     /\ Falls(Rest(ns))

\* Control runs into, or a condition jumps to, the place after its last instruction.
EndReached(ns) ==
  IF ns = <<>> THEN TRUE
  ELSE IF Rest(ns) # <<>> /\ Falls(Chain(ns)) THEN EndReached(Rest(ns))
  ELSE CASE Head(ns).type = "RETURN" -> FALSE
         [] Head(ns).type = "IF" ->
              ~HasElse(Chain(ns)) \/ EndReached(ns[Len(Chain(ns))].nodes)
         [] OTHER -> TRUE

\* The code c with the return that is not in the source behind it, where it ends
\* the function.  Conditions that jump to it get a copy each, behind it, but for
\* one if nothing runs into it; if nothing leads to it at all, it goes.
WithExit(c) ==
  LET end == Len(c) + 1
      jumping == {p \in DOMAIN c : c[p].block # <<>> /\ p + 1 + c[p].arg = end}
      first   == IF c[end - 1].op = "RETURN_VALUE" THEN 1 ELSE 0
      exits   == Cardinality(jumping) + 1 - first
      Rank(p) == Cardinality({q \in jumping : Older(c[q].block, c[p].block)})
  IN [p \in DOMAIN c |->
        IF p \in jumping THEN [c[p] EXCEPT !.arg = @ + 2 * (Rank(p) + 1 - first)] ELSE c[p]]
       \o S!FlattenSeq([k \in 1..exits |-> ReturnNone])

RECURSIVE Suite(_, _, _, _, _), If(_, _, _, _, _)

\* The suite's end is wanted x after its last instruction; it starts in block b.
\* over: its end is that of the function.
Suite(ns, x, over, b, t) ==
  IF ns = <<>> THEN NotASuite
  ELSE
    LET arms == Chain(ns)
        rest == Rest(ns)
        s    == Head(ns)
        out  == IF rest = <<>> THEN x ELSE 0
        c    == CASE s.type = "RETURN" -> Value(s.value, 0) \o <<I("RETURN_VALUE", 0)>>
                  [] s.type = "IF" -> If(arms, out, rest = <<>> /\ over, b, t)
                  [] s.type \in {"NAME", "NULL", "TERNARY"} ->
                       Value(s, 0) \o <<I("POP_TOP", 0)>>
                  [] OTHER -> NotASuite
        next == IF s.type \in {"IF", "TERNARY"} THEN Follows(t) ELSE b
    IN IF rest = <<>> \/ ~Falls(arms) THEN c
       ELSE c \o Suite(rest, x, over, next, [t EXCEPT ![Len(t)] = @ + 1])

\* A branch the function ends with has the return at its end, not a jump to it.
If(arms, x, over, b, t) ==
  LET more == Len(arms) > 1
      e == IF ~more THEN <<>>
           ELSE IF arms[2].type = "ELSE"
             THEN Suite(arms[2].nodes, x, over, ElseOf(t), WithinElse(t) \o <<1>>)
             ELSE If(Tail(arms), x, over, ElseOf(t), WithinElse(t))
      jump == IF more /\ EndReached(arms[1].nodes) /\ ~over
                THEN <<I("JUMP_FORWARD", Len(e) + x)>> ELSE <<>>
      suite == Suite(arms[1].nodes, IF more /\ ~over THEN Len(jump) + Len(e) + x ELSE x, over,
                     AfterTest(arms[1].cond, arms[1].neg, TestOf(t), BodyOf(t)),
                     BodyOf(t) \o <<1>>)
      body == IF more /\ over THEN WithExit(suite) ELSE suite
  IN BlockTest(arms[1], Len(body) + Len(jump), b, TestOf(t)) \o body \o jump \o e

Compile(ns) ==
  LET c    == Suite(ns, 0, TRUE, <<0>>, <<1>>)
      full == IF Falls(ns) THEN WithExit(c) ELSE c
  IN [p \in DOMAIN full |-> [op |-> full[p].op, arg |-> full[p].arg]]

=============================================================================
