---------------------------- MODULE CodeBuilder ----------------------------
(***************************************************************************)
(* The block machine of the decompiler (class CodeBuilder of ASTree.cpp)   *)
(* on 3.11 code without loops, exception handlers, short-circuit values    *)
(* and conditions that mix and with or: expression statements, returns,    *)
(* if/elif/else and conditional expressions.  It reads the instructions    *)
(* once, in order, and rebuilds the suites they were compiled from on a    *)
(* stack of open blocks.                                                   *)
(*                                                                         *)
(* An instruction is one position; a whole expression without control flow *)
(* is one LOAD.  On such code every pre-scan table of build() but          *)
(* opEndingBefore, fwdJumps and retPadCanon is empty; those three are the  *)
(* operators over the code below.  One action is one part of an iteration  *)
(* of build()'s loop, or one round of a loop inside it.                    *)
(***************************************************************************)
EXTENDS Integers, Sequences

CONSTANT Codes     \* the code objects: sequences of instructions

CondJumps == {"POP_JUMP_FORWARD_IF_FALSE", "POP_JUMP_FORWARD_IF_TRUE"}
Jumps     == CondJumps \cup {"JUMP_FORWARD"}
Opcodes   == Jumps \cup {"LOAD", "LOAD_CONST", "POP_TOP", "RETURN_VALUE"}

\* arg: the name a LOAD stands for, the distance of a jump.  The only
\* LOAD_CONST is that of None.
Instr(op, arg) == [op |-> op, arg |-> arg]

\* Jumps lead to instructions.
IsCode(c) ==
  /\ c \in Seq([op : Opcodes, arg : Nat])
  /\ \A p \in 1..Len(c) : c[p].op \in Jumps => p + 1 + c[p].arg \in 1..Len(c)

ASSUME CodesAssumption == \A c \in Codes : IsCode(c)

VARIABLES
  code,             \* the instructions
  pos,              \* position of the next one
  curpos,           \* position of the one being dispatched
  pc,               \* where in the iteration: see the actions
  blocks,           \* open blocks, outermost first; the last is curblock
  stack,            \* operand stack
  stack_hist,       \* saved operand stacks
  elifPendingElse,  \* for each position, the end of the else it may start, or 0
  else_pop,         \* the block on top ends where the next instruction starts
  push              \* local of handleJumpForward

vars == <<code, pos, curpos, pc, blocks, stack, stack_hist, elifPendingElse,
          else_pop, push>>

Top(s) == s[Len(s)]
Pop(s) == SubSeq(s, 1, Len(s) - 1)

PopIfAny(s) == IF s = <<>> THEN s ELSE Pop(s)

----------------------------------------------------------------------------
(* Nodes of the syntax tree.                                               *)

Null          == [type |-> "NULL"]
Name(x)       == [type |-> "NAME", name |-> x]
Not(n)        == [type |-> "NOT", arg |-> n]
Bin(op, l, r) == [type |-> op, left |-> l, right |-> r]
Return(v)     == [type |-> "RETURN", value |-> v]
Ternary(b, x, y) == [type |-> "TERNARY", cond |-> b, then |-> x, else |-> y]

CondBlock(type, end, cond, neg) ==
  [type |-> type, end |-> end, cond |-> cond, neg |-> neg, nodes |-> <<>>]

Block(type, end) == CondBlock(type, end, Null, FALSE)

Arms       == {"IF", "ELIF", "ELSE"}
BlockTypes == Arms \cup {"MAIN"}

\* Negating a negation removes it.
NegateCond(n) ==
  IF n.type = "NOT" THEN n.arg ELSE IF n = Null THEN n ELSE Not(n)

\* FastStack::top(): an empty stack answers with a null node.
StackTop(s) == IF s = <<>> THEN Null ELSE Top(s)

----------------------------------------------------------------------------
(* What the pre-scans and the look-aheads know of the code.                *)

Op(p) == code[p].op

\* Positions in from..to-1 holding one of these instructions.
Among(from, to, ops) == {p \in from..(to - 1) : p <= Len(code) /\ Op(p) \in ops}

SetMin(S) == CHOOSE x \in S : \A y \in S : x <= y

Target(p) == p + 1 + code[p].arg

fwdJumps == Among(1, Len(code) + 1, {"JUMP_FORWARD"})

ReturnsNone(p) ==
  /\ p + 1 <= Len(code)
  /\ Op(p) = "LOAD_CONST" /\ Op(p + 1) = "RETURN_VALUE"

\* All copies of `return None` count as the first of them.
canonTarget(p) ==
  IF ReturnsNone(p) THEN SetMin({q \in 1..p : ReturnsNone(q)}) ELSE p

\* What is expected of an instruction run that leaves a value behind.
Pure(from, to) == Among(from, to, {"POP_TOP", "RETURN_VALUE"}) = {}

----------------------------------------------------------------------------
curblock == Top(blocks)
offs     == Target(curpos)          \* where the jump being dispatched leads

\* Pop a block and append it to the one below.
Close(bs) ==
  LET n == Len(bs)
  IN [SubSeq(bs, 1, n - 1) EXCEPT ![n - 1].nodes = Append(@, bs[n])]

AppendNode(bs, node) == [bs EXCEPT ![Len(bs)].nodes = Append(@, node)]

\* CheckIfExpr: an empty if and an empty else on an operand stack holding
\* their values were a conditional expression.
IsIfExpr(bs, st) ==
  LET nodes == Top(bs).nodes
      n     == Len(nodes)
  IN /\ st # <<>> /\ n >= 2
     /\ nodes[n].type = "ELSE"   /\ nodes[n].nodes = <<>>
     /\ nodes[n - 1].type = "IF" /\ nodes[n - 1].nodes = <<>>

TakeIfExpr(bs) ==
  [bs EXCEPT ![Len(bs)].nodes = SubSeq(@, 1, Len(@) - 2)]

IfExpr_Kept(bs, st) ==
  LET nodes == Top(bs).nodes
      rest  == Pop(st)
  IN Append(rest, Ternary(nodes[Len(nodes) - 1], StackTop(rest), Top(st)))

IfExpr_Swapped(bs, st) ==
  LET nodes == Top(bs).nodes
      rest  == Pop(st)
  IN Append(PopIfAny(rest), Ternary(nodes[Len(nodes) - 1], Top(st), StackTop(rest)))

IfExpr(bs, st) ==
  LET nodes == Top(bs).nodes
      rest  == Pop(st)
  IN Append(PopIfAny(rest), Ternary(nodes[Len(nodes) - 1], StackTop(rest), Top(st)))

Init ==
  /\ code \in Codes
  /\ pos = 1 /\ curpos = 0
  /\ pc = "next"
  /\ blocks = <<Block("MAIN", 0)>>
  /\ stack = <<>> /\ stack_hist = <<>>
  /\ elifPendingElse = [p \in 1..Len(code) |-> 0]
  /\ else_pop = FALSE /\ push = TRUE

----------------------------------------------------------------------------
(* Start of an iteration, pc = "next".                                     *)

\* The end of the else that starts at pos behind an elif whose condition
\* jumped here, or 0 when the code at pos is not an else: the else runs to its
\* own return, or, behind an elif that returned, to the end of the chain.
PendingElseEnd ==
  LET cap   == elifPendingElse[pos]
      stops == Among(pos, cap, Jumps \cup {"RETURN_VALUE"})
  IN IF stops # {}
       THEN IF Op(SetMin(stops)) = "RETURN_VALUE" THEN SetMin(stops) + 1 ELSE 0
       ELSE IF pos > 1 /\ Op(pos - 1) = "RETURN_VALUE" /\ cap > pos /\ ~ReturnsNone(cap)
         THEN cap ELSE 0

StartsPendingElse ==
  /\ elifPendingElse[pos] # 0
  /\ curblock.type = "ELIF" /\ curblock.end = pos
  /\ stack = <<>>
  /\ PendingElseEnd # 0

\* Read the next instruction.
Fetch ==
  /\ pc = "next" /\ pos <= Len(code)
  /\ curpos' = pos /\ pos' = pos + 1
  /\ IF StartsPendingElse
       THEN /\ blocks' = Append(Close(blocks), Block("ELSE", PendingElseEnd))
            /\ stack_hist' = Append(stack_hist, stack)
       ELSE UNCHANGED <<blocks, stack_hist>>
  /\ IF else_pop /\ Op(pos) \notin Jumps
       THEN pc' = "unwind" /\ else_pop' = FALSE
       ELSE pc' = "exec"   /\ UNCHANGED else_pop
  /\ UNCHANGED <<code, stack, elifPendingElse, push>>

\* End of the code: blocks still open are closed into their parents.
Finish ==
  /\ pc = "next" /\ pos > Len(code)
  /\ IF Len(blocks) > 1
       THEN blocks' = Close(blocks) /\ UNCHANGED <<pc, stack_hist>>
       ELSE pc' = "done" /\ stack_hist' = <<>> /\ UNCHANGED blocks
  /\ UNCHANGED <<code, pos, curpos, stack, elifPendingElse, else_pop, push>>

----------------------------------------------------------------------------
(* Before the dispatch, pc = "unwind": blocks that ended are closed.       *)

Unwinds == curblock.end < pos /\ curblock.type # "MAIN" /\ curblock.end # 0

Unwind ==
  /\ pc = "unwind" /\ Unwinds
  /\ stack_hist' = PopIfAny(stack_hist)
  /\ LET bs == Close(blocks)
     IN IF IsIfExpr(bs, stack)
          THEN blocks' = TakeIfExpr(bs) /\ stack' = IfExpr(bs, stack)
          ELSE blocks' = bs /\ UNCHANGED stack
  /\ UNCHANGED <<code, pos, curpos, pc, elifPendingElse, else_pop, push>>

Unwound ==
  /\ pc = "unwind" /\ ~Unwinds
  /\ pc' = "exec"
  /\ UNCHANGED <<code, pos, curpos, blocks, stack, stack_hist, elifPendingElse,
                 else_pop, push>>

----------------------------------------------------------------------------
(* The dispatch, pc = "exec".                                              *)

EndsAt_NotElse(bs, p) == Top(bs).type \in {"IF", "ELIF"} /\ Top(bs).end = p

EndsAt(bs, p) == Top(bs).type \in Arms /\ Top(bs).end = p

\* The end of an iteration that resumes at p.
NextAt(p) == pc' = "next" /\ pos' = p /\ else_pop' = EndsAt(blocks', p)

Executes(ops) == pc = "exec" /\ Op(curpos) \in ops

Load ==
  /\ Executes({"LOAD", "LOAD_CONST"})
  /\ stack' = Append(stack, IF Op(curpos) = "LOAD" THEN Name(code[curpos].arg) ELSE Null)
  /\ UNCHANGED blocks
  /\ NextAt(pos)
  /\ UNCHANGED <<code, curpos, stack_hist, elifPendingElse, push>>

PopTop ==
  /\ Executes({"POP_TOP"})
  /\ stack' = PopIfAny(stack)
  /\ blocks' = IF StackTop(stack) = Null THEN blocks ELSE AppendNode(blocks, Top(stack))
  /\ NextAt(pos)
  /\ UNCHANGED <<code, curpos, stack_hist, elifPendingElse, push>>

\* A return closes the if or the else it stands in (but not an elif).
ReturnCloses == curblock.type \in {"IF", "ELSE"} /\ stack_hist # <<>>

\* What is left of a block after its return may be copies of `return None`,
\* which are skipped.
OnlyPads(from, to) ==
  /\ from < to /\ (to - from) % 2 = 0
  /\ \A k \in 0..((to - from) \div 2 - 1) : ReturnsNone(from + 2 * k)

PadParentOk(parent) ==
  \/ parent.type = "MAIN"
  \/ parent.type \in Arms /\ (parent.end = 0 \/ parent.end > curblock.end)

SkipsPads ==
  PadParentOk(blocks[Len(blocks) - 1]) /\ OnlyPads(pos, curblock.end)

ReturnValue ==
  /\ Executes({"RETURN_VALUE"})
  /\ LET bs == AppendNode(blocks, Return(StackTop(stack)))
     IN IF ReturnCloses
          THEN /\ blocks' = Close(bs)
               /\ stack' = Top(stack_hist)
               /\ stack_hist' = Pop(stack_hist)
               /\ NextAt(IF SkipsPads THEN curblock.end ELSE pos)
          ELSE /\ blocks' = bs
               /\ stack' = PopIfAny(stack)
               /\ UNCHANGED stack_hist
               /\ NextAt(pos)
  /\ UNCHANGED <<code, curpos, elifPendingElse, push>>

----------------------------------------------------------------------------
(* handleConditionalJump.                                                  *)

Stale == curblock.type \in Arms /\ curblock.end > 0 /\ curblock.end < curpos

PeelStale_Stuck == Executes(CondJumps) /\ Stale /\ UNCHANGED vars

\* Blocks that ended before the condition are closed first.
PeelStale ==
  /\ Executes(CondJumps) /\ Stale
  /\ blocks' = Close(blocks)
  /\ stack_hist' = PopIfAny(stack_hist)
  /\ UNCHANGED <<code, pos, curpos, pc, stack, elifPendingElse, else_pop, push>>

BranchInElse ==
  /\ curblock.type = "ELSE" /\ curblock.nodes = <<>>
  /\ pos < offs /\ offs < curblock.end

\* Inside an else: the condition of an inner conditional expression, whose
\* value is that of the outer one, or which is evaluated for a statement.
ternaryElseArm ==
  /\ BranchInElse /\ PopIfAny(stack) # <<>>
  /\ \E j \in fwdJumps : pos < j /\ j < offs /\ Target(j) = curblock.end
  /\ Pure(pos, offs)

ternaryAssignElse ==
  /\ BranchInElse /\ PopIfAny(stack) = <<>>
  /\ LET joins == {j \in fwdJumps : pos < j /\ j < offs
                                      /\ Target(j) > offs /\ Target(j) < curblock.end}
     IN joins # {} /\ Pure(pos, Target(SetMin(joins)))

BecomesElif_Always == curblock.type = "ELSE" /\ curblock.nodes = <<>>

\* The else so far holds nothing: it is taken to be an elif.
BecomesElif ==
  /\ curblock.type = "ELSE" /\ curblock.nodes = <<>>
  /\ ~ternaryElseArm /\ ~ternaryAssignElse

\* Mutant: an if that has a body is replaced.
JoinsCondition_Full == curblock.type \in {"IF", "ELIF"} /\ curblock.end <= offs

\* An if without a body yet, whose jump goes no further: `and' or `or'.
JoinsCondition_Further ==
  curblock.type \in {"IF", "ELIF"} /\ curblock.nodes = <<>> /\ curblock.end < offs

JoinsCondition ==
  curblock.type \in {"IF", "ELIF"} /\ curblock.nodes = <<>> /\ curblock.end <= offs

Joined(top, cond, neg) ==
  LET isAnd    == \/ canonTarget(top.end) = canonTarget(offs)
                  \/ top.end = curpos /\ ~top.neg
      firstNeg == IF isAnd THEN top.neg ELSE ~top.neg
  IN Bin(IF isAnd THEN "AND" ELSE "OR",
         IF firstNeg THEN NegateCond(top.cond) ELSE top.cond,
         IF neg THEN NegateCond(cond) ELSE cond)

ElseMayFollow_AtEnd == curblock.end >= offs

\* Behind the elif there is room for the else of the whole chain.
ElseMayFollow == curblock.end > offs

Branch ==
  /\ Executes(CondJumps) /\ ~Stale
  /\ stack' = PopIfAny(stack)
  /\ LET cond == StackTop(stack)
         neg  == Op(curpos) = "POP_JUMP_FORWARD_IF_TRUE"
     IN IF BecomesElif THEN
          /\ blocks' = Append(Pop(blocks), CondBlock("ELIF", offs, cond, neg))
          /\ elifPendingElse' = IF ElseMayFollow
                                  THEN [elifPendingElse EXCEPT ![offs] = curblock.end]
                                  ELSE elifPendingElse
          /\ UNCHANGED stack_hist
        ELSE IF JoinsCondition THEN
          /\ blocks' = Append(Pop(blocks),
                              CondBlock(curblock.type, offs, Joined(curblock, cond, neg), FALSE))
          /\ stack_hist' = Append(PopIfAny(stack_hist), stack')
          /\ UNCHANGED elifPendingElse
        ELSE
          /\ blocks' = Append(blocks, CondBlock("IF", offs, cond, neg))
          /\ stack_hist' = Append(stack_hist, stack')
          /\ UNCHANGED elifPendingElse
  /\ NextAt(pos)
  /\ UNCHANGED <<code, curpos, push>>

----------------------------------------------------------------------------
(* handleJumpForward: the jump over an else, or over the rest of an if     *)
(* chain.  pc = "close": the loop that closes blocks.                      *)

JumpForward ==
  /\ Executes({"JUMP_FORWARD"})
  /\ stack' = IF stack = <<>> /\ stack_hist # <<>> THEN Top(stack_hist) ELSE stack
  /\ stack_hist' = PopIfAny(stack_hist)
  /\ push' = TRUE
  /\ pc' = "close"
  /\ UNCHANGED <<code, pos, curpos, blocks, elifPendingElse, else_pop>>

\* The enclosing blocks that do not decide whether the if on top is the last
\* statement of an arm the jump leaves.
Passes(b) ==
  \/ b.type \in {"IF", "ELIF"} /\ b.end = curpos
  \/ b.type = "ELSE" /\ curpos <= b.end /\ b.end <= offs

LastInArm ==
  /\ curblock.end = curpos
  /\ \E i \in 1..(Len(blocks) - 1) :
       /\ blocks[i].type \in {"IF", "ELIF"}
       /\ curpos < blocks[i].end /\ blocks[i].end < offs
       /\ \A j \in (i + 1)..(Len(blocks) - 1) : Passes(blocks[j])

\* A jump of distance 0 only closes the block.
CloseOnly ==
  /\ pc = "close" /\ curblock.type \in {"IF", "ELIF"} /\ code[curpos].arg = 0
  /\ blocks' = Close(blocks)
  /\ NextAt(pos)
  /\ UNCHANGED <<code, curpos, stack, stack_hist, elifPendingElse, push>>

CloseInnerIf ==
  /\ pc = "close" /\ curblock.type \in {"IF", "ELIF"} /\ code[curpos].arg # 0
  /\ LastInArm
  /\ blocks' = Close(blocks)
  /\ UNCHANGED <<code, pos, curpos, pc, stack, stack_hist, elifPendingElse,
                 else_pop, push>>

OpenElse_NotSaved ==
  /\ pc = "close" /\ curblock.type \in {"IF", "ELIF"} /\ code[curpos].arg # 0
  /\ ~LastInArm
  /\ blocks' = Append(Close(blocks), Block("ELSE", offs))
  /\ NextAt(pos)
  /\ UNCHANGED <<code, curpos, stack, stack_hist, elifPendingElse, push>>

OpenElse ==
  /\ pc = "close" /\ curblock.type \in {"IF", "ELIF"} /\ code[curpos].arg # 0
  /\ ~LastInArm
  /\ blocks' = Append(Close(blocks), Block("ELSE", offs))
  /\ stack_hist' = IF push THEN Append(stack_hist, stack) ELSE stack_hist
  /\ NextAt(pos)
  /\ UNCHANGED <<code, curpos, stack, elifPendingElse, push>>

Underflows_Early == stack_hist = <<>>

\* "except-else block/stack underflow": the tree built so far is returned.
Underflows == ~push /\ stack_hist = <<>>

\* An else ends with the arm it is the last statement of; the arm is closed
\* in the next round.
CloseElse ==
  /\ pc = "close" /\ curblock.type = "ELSE"
  /\ blocks' = Close(blocks)
  /\ push' = FALSE
  /\ IF push \/ stack_hist = <<>>
       THEN UNCHANGED <<stack, stack_hist>>
       ELSE stack' = Top(stack_hist) /\ stack_hist' = Pop(stack_hist)
  /\ IF Underflows THEN
       pc' = "threw" /\ UNCHANGED <<pos, else_pop>>
     ELSE IF blocks[Len(blocks) - 1].type = "MAIN"
       THEN NextAt(pos)
       ELSE UNCHANGED <<pc, pos, else_pop>>
  /\ UNCHANGED <<code, curpos, elifPendingElse>>

\* The body itself is popped.  What follows reads a block stack that is empty.
CloseMain ==
  /\ pc = "close" /\ curblock.type = "MAIN"
  /\ pc' = "lost"
  /\ UNCHANGED <<code, pos, curpos, blocks, stack, stack_hist, elifPendingElse,
                 else_pop, push>>

----------------------------------------------------------------------------
Stopped == pc \in {"done", "threw", "lost"}

Dispatch == Load \/ PopTop \/ ReturnValue \/ PeelStale \/ Branch \/ JumpForward
CloseStep == CloseOnly \/ CloseInnerIf \/ OpenElse \/ CloseElse \/ CloseMain

Next == Fetch \/ Finish \/ Unwind \/ Unwound \/ Dispatch \/ CloseStep

Spec     == Init /\ [][Next]_vars
FairSpec == Spec /\ WF_vars(Next)

----------------------------------------------------------------------------
(* What every code object, compiled from a source or not, is owed.         *)

\* s is a sequence, whatever of.
IsSeq(s) == s \in Seq({s[i] : i \in DOMAIN s})

IsBlock(b) ==
  /\ DOMAIN b = {"type", "end", "cond", "neg", "nodes"}
  /\ b.end \in 0..(Len(code) + 1)
  /\ IsSeq(b.nodes)

\* The state of build(): the open blocks are the body and, inside it, arms of
\* ifs; the bound kept for a pending else is beyond the place it is kept for.
TypeOK ==
  /\ IsCode(code)
  /\ pos \in 1..(Len(code) + 1)
  /\ curpos \in 0..Len(code) /\ curpos < pos
  /\ pc \in {"next", "unwind", "exec", "close", "done", "threw", "lost"}
  /\ pc \in {"unwind", "exec", "close"} => curpos >= 1 /\ pos = curpos + 1
  /\ pc = "close" => Op(curpos) = "JUMP_FORWARD"
  /\ IsSeq(blocks) /\ blocks # <<>>
  /\ \A i \in 1..Len(blocks) :
       IsBlock(blocks[i]) /\ blocks[i].type \in (IF i = 1 THEN {"MAIN"} ELSE Arms)
  /\ IsSeq(stack) /\ IsSeq(stack_hist)
  /\ \A i \in 1..Len(stack_hist) : IsSeq(stack_hist[i])
  /\ elifPendingElse \in [1..Len(code) -> 0..(Len(code) + 1)]
  /\ \A p \in 1..Len(code) : elifPendingElse[p] = 0 \/ elifPendingElse[p] > p
  /\ else_pop \in BOOLEAN /\ push \in BOOLEAN

\* Every arm that is open has its operand stack saved: the pops of stack_hist
\* that closing an arm does, in five places, never outnumber the pushes.  While
\* a jump closes blocks, the copy it took is still owed to one of them.
ArmsAreSaved ==
  Len(blocks) - 1 <= Len(stack_hist) + (IF pc = "close" /\ push THEN 1 ELSE 0)

\* build() never gives up with an underflow of the saved stacks.
NeverThrows == pc # "threw"

\* The i-th statement of block k of bs is there in cs, or went with its block,
\* the one on top, into the block below.
StillThere(bs, cs, k, i) ==
  \/ k \in DOMAIN cs /\ i \in DOMAIN cs[k].nodes /\ cs[k].nodes[i] = bs[k].nodes[i]
  \/ /\ k = Len(bs) /\ k - 1 \in DOMAIN cs /\ cs[k - 1].nodes # <<>>
     /\ LET arm == Top(cs[k - 1].nodes)
        IN arm.type \in Arms /\ i \in DOMAIN arm.nodes /\ arm.nodes[i] = bs[k].nodes[i]

\* Node x, an if without a body, is the condition of the value on top of st.
IsCondition(x, st) ==
  x.type = "IF" /\ x.nodes = <<>> /\ Top(st).type = "TERNARY" /\ Top(st).cond = x

\* What build() has put into a block stays in it, in its place: when blocks are
\* closed, and when an else becomes an elif or two conditions become one, which
\* puts a block in place of another.  Only ifs without a body are taken out
\* again, for conditional expressions.
StatementsStay ==
  [][\A k \in 1..Len(blocks) : \A i \in DOMAIN blocks[k].nodes :
       StillThere(blocks, blocks', k, i) \/ IsCondition(blocks[k].nodes[i], stack')]_vars

\* The decompiler comes to an end on every code object.
Terminates == <>Stopped

=============================================================================
