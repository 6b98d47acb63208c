------------------------- MODULE CodeBuilder_proofs -------------------------
(***************************************************************************)
(* What holds of the block machine on every code object, whoever made it:  *)
(* the block stack is well formed, every open arm has its operand stack    *)
(* saved, the underflow of handleJumpForward cannot happen, the build      *)
(* ends, and what build() has put into a block stays in it, in its place.  *)
(***************************************************************************)
EXTENDS CodeBuilder, SequenceTheorems, WellFoundedInduction, TLAPS

(* TypeOK in parts, so that a step has to show only the parts it disturbs.   *)
OpenBlocks(bs) ==
  /\ IsSeq(bs) /\ bs # <<>>
  /\ \A i \in 1..Len(bs) :
       IsBlock(bs[i]) /\ bs[i].type \in (IF i = 1 THEN {"MAIN"} ELSE Arms)

SavedStacks(h) == IsSeq(h) /\ \A i \in 1..Len(h) : IsSeq(h[i])

PosOK ==
  /\ pos \in 1..(Len(code) + 1)
  /\ curpos \in 0..Len(code) /\ curpos < pos
  /\ pc \in {"next", "unwind", "exec", "close", "done", "threw", "lost"}
  /\ pc \in {"unwind", "exec", "close"} => curpos >= 1 /\ pos = curpos + 1
  /\ pc = "close" => Op(curpos) = "JUMP_FORWARD"

FlagsOK == else_pop \in BOOLEAN /\ push \in BOOLEAN

StacksOK == IsSeq(stack) /\ SavedStacks(stack_hist)

PendingOK ==
  /\ elifPendingElse \in [1..Len(code) -> 0..(Len(code) + 1)]
  /\ \A p \in 1..Len(code) : elifPendingElse[p] = 0 \/ elifPendingElse[p] > p

IInv == TypeOK /\ ArmsAreSaved /\ NeverThrows

LEMMA TypeParts ==
  TypeOK <=> /\ IsCode(code) /\ PosOK /\ FlagsOK
             /\ OpenBlocks(blocks) /\ StacksOK /\ PendingOK
BY DEF TypeOK, PosOK, FlagsOK, OpenBlocks, StacksOK, SavedStacks, PendingOK

----------------------------------------------------------------------------
(* Sequences of whatever elements.                                         *)

\* A sequence over some set is a sequence.
LEMMA IsSeqOf ==
  ASSUME NEW S, NEW s \in Seq(S)
  PROVE  IsSeq(s) /\ Len(s) \in Nat /\ DOMAIN s = 1..Len(s)
<1>1. Len(s) \in Nat /\ s \in [1..Len(s) -> S] /\ DOMAIN s = 1..Len(s)
  BY LenProperties
<1>2. s \in [1..Len(s) -> {s[i] : i \in DOMAIN s}]
  BY <1>1
<1>3. s \in Seq({s[i] : i \in DOMAIN s})
  BY <1>1, <1>2, SeqDef
<1>4. QED
  BY <1>1, <1>3 DEF IsSeq

LEMMA IsSeqLen ==
  ASSUME NEW s, IsSeq(s)
  PROVE  Len(s) \in Nat /\ (s = <<>> <=> Len(s) = 0)
<1>1. PICK S : s \in Seq(S)
  BY DEF IsSeq
<1>2. QED
  BY <1>1, EmptySeq, LenProperties

LEMMA AppendIsSeq ==
  ASSUME NEW s, IsSeq(s), NEW e
  PROVE  /\ IsSeq(Append(s, e)) /\ Len(Append(s, e)) = Len(s) + 1
         /\ \A i \in 1..Len(s) : Append(s, e)[i] = s[i]
         /\ Append(s, e)[Len(s) + 1] = e
<1>1. PICK S : s \in Seq(S)
  BY DEF IsSeq
<1>2. s \in Seq(S \cup {e})
  BY <1>1, SeqMonotonic
<1>3. Append(s, e) \in Seq(S \cup {e})
  BY <1>2
<1>4. IsSeq(Append(s, e))
  BY <1>3, IsSeqOf
<1>5. QED
  BY <1>2, <1>4

LEMMA PrefixIsSeq ==
  ASSUME NEW s, IsSeq(s), NEW n \in 0..Len(s)
  PROVE  /\ IsSeq(SubSeq(s, 1, n)) /\ Len(SubSeq(s, 1, n)) = n
         /\ \A i \in 1..n : SubSeq(s, 1, n)[i] = s[i]
<1>1. PICK S : s \in Seq(S)
  BY DEF IsSeq
<1>2. Len(s) \in Nat
  BY IsSeqLen
<1>3. \A i \in 1..n : s[i] \in S
  BY <1>1, <1>2, ElementOfSeq
<1>4. /\ SubSeq(s, 1, n) \in Seq(S)
      /\ Len(SubSeq(s, 1, n)) = IF 1 <= n THEN n - 1 + 1 ELSE 0
      /\ \A i \in 1..(n - 1 + 1) : SubSeq(s, 1, n)[i] = s[1 + i - 1]
  BY <1>2, <1>3, SubSeqProperties
<1>5. IsSeq(SubSeq(s, 1, n))
  BY <1>4, IsSeqOf
<1>6. Len(SubSeq(s, 1, n)) = n
  BY <1>2, <1>4
<1>7. \A i \in 1..n : SubSeq(s, 1, n)[i] = s[1 + i - 1] /\ 1 + i - 1 = i
  BY <1>2, <1>4
<1>8. QED
  BY <1>5, <1>6, <1>7

LEMMA ReplaceIsSeq ==
  ASSUME NEW s, IsSeq(s), NEW k \in 1..Len(s), NEW e
  PROVE  /\ IsSeq([s EXCEPT ![k] = e]) /\ Len([s EXCEPT ![k] = e]) = Len(s)
         /\ \A i \in 1..Len(s) : [s EXCEPT ![k] = e][i] = IF i = k THEN e ELSE s[i]
<1>1. PICK S : s \in Seq(S)
  BY DEF IsSeq
<1>2. s \in Seq(S \cup {e})
  BY <1>1, SeqMonotonic
<1>3. /\ [s EXCEPT ![k] = e] \in Seq(S \cup {e})
      /\ Len([s EXCEPT ![k] = e]) = Len(s)
      /\ \A i \in 1..Len(s) : [s EXCEPT ![k] = e][i] = IF i = k THEN e ELSE s[i]
  BY <1>2, ExceptSeq
<1>4. IsSeq([s EXCEPT ![k] = e])
  BY <1>3, IsSeqOf
<1>5. QED
  BY <1>3, <1>4

LEMMA PopIsSeq ==
  ASSUME NEW s, IsSeq(s)
  PROVE  /\ IsSeq(PopIfAny(s))
         /\ Len(PopIfAny(s)) = IF Len(s) = 0 THEN 0 ELSE Len(s) - 1
         /\ \A i \in 1..Len(PopIfAny(s)) : i \in 1..Len(s) /\ PopIfAny(s)[i] = s[i]
<1>1. Len(s) \in Nat /\ (s = <<>> <=> Len(s) = 0)
  BY IsSeqLen
<1>2. CASE s = <<>>
  BY <1>1, <1>2 DEF PopIfAny
<1>3. CASE s # <<>>
  <2>1. Len(s) - 1 \in 0..Len(s)
    BY <1>1, <1>3
  <2>2. PopIfAny(s) = SubSeq(s, 1, Len(s) - 1)
    BY <1>3 DEF PopIfAny, Pop
  <2>3. IsSeq(SubSeq(s, 1, Len(s) - 1))
    BY <2>1, PrefixIsSeq
  <2>4. /\ Len(SubSeq(s, 1, Len(s) - 1)) = Len(s) - 1
        /\ \A i \in 1..(Len(s) - 1) : SubSeq(s, 1, Len(s) - 1)[i] = s[i]
    BY <2>1, PrefixIsSeq
  <2>5. QED
    BY <1>1, <1>3, <2>2, <2>3, <2>4
<1>4. QED
  BY <1>2, <1>3

LEMMA EmptyIsSeq == IsSeq(<<>>) /\ Len(<<>>) = 0
BY EmptySeq, IsSeqOf

----------------------------------------------------------------------------
(* The block stack.                                                        *)

\* A block whose nodes are another sequence is a block of the same type.
LEMMA NodesBlock ==
  ASSUME NEW b, IsBlock(b), NEW ns, IsSeq(ns)
  PROVE  IsBlock([b EXCEPT !.nodes = ns]) /\ [b EXCEPT !.nodes = ns].type = b.type
<1> DEFINE d == [b EXCEPT !.nodes = ns]
<1>1. DOMAIN d = DOMAIN b /\ "nodes" \in DOMAIN b /\ "end" \in DOMAIN b /\ "type" \in DOMAIN b
  BY DEF IsBlock
<1>2. d.nodes = ns /\ d.end = b.end /\ d.type = b.type
  BY <1>1
<1> HIDE DEF d
<1>3. IsBlock(d)
  BY <1>1, <1>2 DEF IsBlock
<1>4. QED
  BY <1>2, <1>3 DEF d

\* A new block that ends in the code.
LEMMA NewBlock ==
  ASSUME NEW type, NEW end \in 0..(Len(code) + 1), NEW cond, NEW neg
  PROVE  IsBlock(CondBlock(type, end, cond, neg)) /\ CondBlock(type, end, cond, neg).type = type
<1>1. IsSeq(CondBlock(type, end, cond, neg).nodes)
  BY EmptyIsSeq DEF CondBlock
<1>2. QED
  BY <1>1 DEF CondBlock, IsBlock

LEMMA NewArm ==
  ASSUME NEW type \in Arms, NEW end \in 0..(Len(code) + 1), NEW cond, NEW neg
  PROVE  /\ IsBlock(CondBlock(type, end, cond, neg))
         /\ CondBlock(type, end, cond, neg).type \in Arms
         /\ IsBlock(Block(type, end)) /\ Block(type, end).type \in Arms
<1>1. IsBlock(CondBlock(type, end, cond, neg)) /\ CondBlock(type, end, cond, neg).type = type
  BY NewBlock
<1>2. IsBlock(Block(type, end)) /\ Block(type, end).type = type
  BY NewBlock DEF Block
<1>3. QED
  BY <1>1, <1>2

\* The block on top, and where there is one below it.
LEMMA TopBlock ==
  ASSUME NEW bs, OpenBlocks(bs)
  PROVE  /\ Len(bs) \in Nat /\ Len(bs) >= 1
         /\ IsBlock(Top(bs))
         /\ Top(bs).type \in Arms \cup {"MAIN"}
         /\ Top(bs).type # "MAIN" <=> Len(bs) > 1
         /\ Top(bs).type \in Arms <=> Len(bs) > 1
<1>1. Len(bs) \in Nat /\ Len(bs) >= 1
  <2>1. Len(bs) \in Nat
    BY IsSeqLen DEF OpenBlocks
  <2>2. Len(bs) # 0
    BY IsSeqLen DEF OpenBlocks
  <2>3. \A n \in Nat : n # 0 => n >= 1
    OBVIOUS
  <2>4. QED
    BY <2>1, <2>2, <2>3
<1>2. Len(bs) \in 1..Len(bs)
  BY <1>1
<1>3. IsBlock(bs[Len(bs)]) /\ bs[Len(bs)].type \in (IF Len(bs) = 1 THEN {"MAIN"} ELSE Arms)
  BY <1>2 DEF OpenBlocks
<1>4. IsBlock(Top(bs))
  BY <1>3 DEF Top
<1>5. Top(bs).type \in (IF Len(bs) = 1 THEN {"MAIN"} ELSE Arms)
  BY <1>3 DEF Top
<1>6. "MAIN" \notin Arms
  BY DEF Arms
<1>7. Len(bs) > 1 <=> Len(bs) # 1
  <2>1. \A n \in Nat : n >= 1 => (n > 1 <=> n # 1)
    OBVIOUS
  <2>2. QED
    BY <1>1, <2>1
<1>8. CASE Len(bs) = 1
  BY <1>1, <1>4, <1>5, <1>6, <1>7, <1>8
<1>9. CASE Len(bs) # 1
  BY <1>1, <1>4, <1>5, <1>6, <1>7, <1>9
<1>10. QED
  BY <1>8, <1>9

\* Opening an arm.
LEMMA OpenArm ==
  ASSUME NEW bs, OpenBlocks(bs), NEW b, IsBlock(b), b.type \in Arms
  PROVE  OpenBlocks(Append(bs, b)) /\ Len(Append(bs, b)) = Len(bs) + 1
<1>1. Len(bs) \in Nat /\ Len(bs) >= 1
  BY TopBlock
<1>2. IsSeq(Append(bs, b))
  BY AppendIsSeq DEF OpenBlocks
<1>3. /\ Len(Append(bs, b)) = Len(bs) + 1
      /\ \A i \in 1..Len(bs) : Append(bs, b)[i] = bs[i]
      /\ Append(bs, b)[Len(bs) + 1] = b
  BY AppendIsSeq DEF OpenBlocks
<1>4. Append(bs, b) # <<>>
  BY <1>1, <1>2, <1>3, IsSeqLen
<1>5. ASSUME NEW i \in 1..Len(Append(bs, b))
      PROVE  /\ IsBlock(Append(bs, b)[i])
             /\ Append(bs, b)[i].type \in (IF i = 1 THEN {"MAIN"} ELSE Arms)
  <2>1. CASE i \in 1..Len(bs)
    BY <1>3, <2>1 DEF OpenBlocks
  <2>2. CASE i = Len(bs) + 1
    BY <1>1, <1>3, <2>2
  <2>3. QED
    BY <1>1, <1>3, <2>1, <2>2
<1>6. QED
  BY <1>2, <1>3, <1>4, <1>5 DEF OpenBlocks

\* Replacing a block by one that may stand at its place.
WithBlock(bs, k, b) == [bs EXCEPT ![k] = b]

LEMMA ReplaceBlock ==
  ASSUME NEW bs, OpenBlocks(bs), NEW k \in 1..Len(bs),
         NEW b, IsBlock(b), b.type = bs[k].type
  PROVE  OpenBlocks(WithBlock(bs, k, b)) /\ Len(WithBlock(bs, k, b)) = Len(bs)
<1> DEFINE cs == [bs EXCEPT ![k] = b]
<1>1. Len(bs) \in Nat /\ Len(bs) >= 1
  BY TopBlock
<1>2. IsSeq(cs)
  BY ReplaceIsSeq DEF OpenBlocks
<1>3. /\ Len(cs) = Len(bs)
      /\ \A i \in 1..Len(bs) : cs[i] = IF i = k THEN b ELSE bs[i]
  BY ReplaceIsSeq DEF OpenBlocks
<1> HIDE DEF cs
<1>4. cs # <<>>
  BY <1>1, <1>2, <1>3, IsSeqLen
<1>5. ASSUME NEW i \in 1..Len(cs)
      PROVE  IsBlock(cs[i]) /\ cs[i].type \in (IF i = 1 THEN {"MAIN"} ELSE Arms)
  <2>1. IsBlock(bs[i]) /\ bs[i].type \in (IF i = 1 THEN {"MAIN"} ELSE Arms)
    BY <1>3 DEF OpenBlocks
  <2>2. CASE i = k
    BY <1>3, <2>1, <2>2
  <2>3. CASE i # k
    BY <1>3, <2>1, <2>3
  <2>4. QED
    BY <2>2, <2>3
<1>6. OpenBlocks(cs)
  BY <1>2, <1>4, <1>5 DEF OpenBlocks
<1>7. QED
  BY <1>3, <1>6 DEF cs, WithBlock

\* Adding a node to, or taking nodes from, a block of the stack.
WithNodes(bs, k, ns) == [bs EXCEPT ![k].nodes = ns]

LEMMA ChangeNodes ==
  ASSUME NEW bs, OpenBlocks(bs), NEW k \in 1..Len(bs), NEW ns, IsSeq(ns)
  PROVE  OpenBlocks(WithNodes(bs, k, ns)) /\ Len(WithNodes(bs, k, ns)) = Len(bs)
<1>1. IsBlock(bs[k])
  BY DEF OpenBlocks
<1>2. IsBlock([bs[k] EXCEPT !.nodes = ns]) /\ [bs[k] EXCEPT !.nodes = ns].type = bs[k].type
  BY <1>1, NodesBlock
<1>3. WithNodes(bs, k, ns) = WithBlock(bs, k, [bs[k] EXCEPT !.nodes = ns])
  BY DEF WithNodes, WithBlock
<1> DEFINE d == [bs[k] EXCEPT !.nodes = ns]
<1>4. IsBlock(d) /\ d.type = bs[k].type /\ WithNodes(bs, k, ns) = WithBlock(bs, k, d)
  BY <1>2, <1>3
<1> HIDE DEF d
<1>5. QED
  BY <1>4, ReplaceBlock

\* The stack without its top.
LEMMA BelowTop ==
  ASSUME NEW bs, OpenBlocks(bs), Len(bs) > 1
  PROVE  /\ OpenBlocks(SubSeq(bs, 1, Len(bs) - 1))
         /\ Len(SubSeq(bs, 1, Len(bs) - 1)) = Len(bs) - 1
<1> DEFINE cs == SubSeq(bs, 1, Len(bs) - 1)
<1>1. Len(bs) \in Nat /\ Len(bs) - 1 \in 0..Len(bs) /\ Len(bs) - 1 # 0
  <2>1. Len(bs) \in Nat
    BY TopBlock
  <2>2. \A n \in Nat : n > 1 => n - 1 \in 0..n /\ n - 1 # 0
    OBVIOUS
  <2>3. QED
    BY <2>1, <2>2
<1>2. IsSeq(cs)
  BY <1>1, PrefixIsSeq DEF OpenBlocks
<1>3. Len(cs) = Len(bs) - 1 /\ \A i \in 1..(Len(bs) - 1) : cs[i] = bs[i]
  BY <1>1, PrefixIsSeq DEF OpenBlocks
<1> HIDE DEF cs
<1>4. cs # <<>>
  BY <1>1, <1>2, <1>3, IsSeqLen
<1>5. ASSUME NEW i \in 1..Len(cs)
      PROVE  IsBlock(cs[i]) /\ cs[i].type \in (IF i = 1 THEN {"MAIN"} ELSE Arms)
  <2>1. i \in 1..Len(bs) /\ cs[i] = bs[i]
    BY <1>1, <1>3
  <2>2. QED
    BY <2>1 DEF OpenBlocks
<1>6. OpenBlocks(cs)
  BY <1>2, <1>4, <1>5 DEF OpenBlocks
<1>7. QED
  BY <1>3, <1>6 DEF cs

\* Closing the block on top.
LEMMA CloseArm ==
  ASSUME NEW bs, OpenBlocks(bs), Len(bs) > 1
  PROVE  OpenBlocks(Close(bs)) /\ Len(Close(bs)) = Len(bs) - 1
<1> DEFINE cs == SubSeq(bs, 1, Len(bs) - 1)
           k  == Len(bs) - 1
           ns == Append(cs[k].nodes, bs[Len(bs)])
<1>1. OpenBlocks(cs) /\ Len(cs) = k
  BY BelowTop
<1>2. k \in 1..Len(cs)
  BY <1>1, TopBlock
<1>3. Close(bs) = WithNodes(cs, k, ns)
  BY DEF Close, WithNodes
<1> HIDE DEF cs, k, ns
<1>4. IsBlock(cs[k])
  BY <1>1, <1>2 DEF OpenBlocks
<1>5. IsSeq(cs[k].nodes)
  BY <1>4 DEF IsBlock
<1>6. IsSeq(ns)
  BY <1>5, AppendIsSeq DEF ns
<1>7. OpenBlocks(WithNodes(cs, k, ns)) /\ Len(WithNodes(cs, k, ns)) = Len(cs)
  BY <1>1, <1>2, <1>6, ChangeNodes
<1>8. QED
  BY <1>1, <1>3, <1>7 DEF k

\* Putting an arm in the place of the one on top.
LEMMA ReplaceTop ==
  ASSUME NEW bs, OpenBlocks(bs), Len(bs) > 1, NEW b, IsBlock(b), b.type \in Arms
  PROVE  OpenBlocks(Append(Pop(bs), b)) /\ Len(Append(Pop(bs), b)) = Len(bs)
<1>1. OpenBlocks(Pop(bs)) /\ Len(Pop(bs)) = Len(bs) - 1
  BY BelowTop DEF Pop
<1>2. OpenBlocks(Append(Pop(bs), b)) /\ Len(Append(Pop(bs), b)) = Len(Pop(bs)) + 1
  BY <1>1, OpenArm
<1>3. Len(bs) \in Nat
  BY TopBlock
<1>4. QED
  BY <1>1, <1>2, <1>3

\* A statement is added to the block on top.
LEMMA AddNode ==
  ASSUME NEW bs, OpenBlocks(bs), NEW x
  PROVE  OpenBlocks(AppendNode(bs, x)) /\ Len(AppendNode(bs, x)) = Len(bs)
<1> DEFINE ns == Append(bs[Len(bs)].nodes, x)
<1>1. Len(bs) \in 1..Len(bs)
  BY TopBlock
<1>2. IsSeq(bs[Len(bs)].nodes)
  BY TopBlock DEF Top, IsBlock
<1>3. IsSeq(ns)
  BY <1>2, AppendIsSeq
<1>4. AppendNode(bs, x) = WithNodes(bs, Len(bs), ns)
  BY DEF AppendNode, WithNodes
<1> HIDE DEF ns
<1>5. QED
  BY <1>1, <1>3, <1>4, ChangeNodes

\* The arms of a conditional expression are taken off the block on top.
LEMMA TakeArms ==
  ASSUME NEW bs, OpenBlocks(bs), NEW st, IsIfExpr(bs, st)
  PROVE  OpenBlocks(TakeIfExpr(bs)) /\ Len(TakeIfExpr(bs)) = Len(bs)
<1> DEFINE old == bs[Len(bs)].nodes
           ns  == SubSeq(old, 1, Len(old) - 2)
<1>1. Len(bs) \in 1..Len(bs)
  BY TopBlock
<1>2. IsSeq(old)
  BY TopBlock DEF Top, IsBlock
<1>3. Len(old) - 2 \in 0..Len(old)
  BY <1>2, IsSeqLen DEF IsIfExpr, Top
<1>4. IsSeq(ns)
  BY <1>2, <1>3, PrefixIsSeq
<1>5. TakeIfExpr(bs) = WithNodes(bs, Len(bs), ns)
  BY DEF TakeIfExpr, WithNodes
<1> HIDE DEF ns, old
<1>6. QED
  BY <1>1, <1>4, <1>5, ChangeNodes

----------------------------------------------------------------------------
(* The saved operand stacks.                                               *)

LEMMA SaveStack ==
  ASSUME NEW h, SavedStacks(h), NEW st, IsSeq(st)
  PROVE  SavedStacks(Append(h, st)) /\ Len(Append(h, st)) = Len(h) + 1
<1>1. Len(h) \in Nat
  BY IsSeqLen DEF SavedStacks
<1>2. IsSeq(Append(h, st))
  BY AppendIsSeq DEF SavedStacks
<1>3. /\ Len(Append(h, st)) = Len(h) + 1
      /\ \A i \in 1..Len(h) : Append(h, st)[i] = h[i]
      /\ Append(h, st)[Len(h) + 1] = st
  BY AppendIsSeq DEF SavedStacks
<1>4. ASSUME NEW i \in 1..Len(Append(h, st)) PROVE IsSeq(Append(h, st)[i])
  <2>1. CASE i \in 1..Len(h)
    BY <1>3, <2>1 DEF SavedStacks
  <2>2. CASE i = Len(h) + 1
    BY <1>3, <2>2
  <2>3. QED
    BY <1>1, <1>3, <2>1, <2>2
<1>5. QED
  BY <1>2, <1>3, <1>4 DEF SavedStacks

LEMMA DropStack ==
  ASSUME NEW h, SavedStacks(h)
  PROVE  /\ SavedStacks(PopIfAny(h))
         /\ Len(PopIfAny(h)) = IF Len(h) = 0 THEN 0 ELSE Len(h) - 1
<1>1. IsSeq(PopIfAny(h))
  BY PopIsSeq DEF SavedStacks
<1>2. /\ Len(PopIfAny(h)) = IF Len(h) = 0 THEN 0 ELSE Len(h) - 1
      /\ \A i \in 1..Len(PopIfAny(h)) : i \in 1..Len(h) /\ PopIfAny(h)[i] = h[i]
  BY PopIsSeq DEF SavedStacks
<1>3. ASSUME NEW i \in 1..Len(PopIfAny(h)) PROVE IsSeq(PopIfAny(h)[i])
  BY <1>2 DEF SavedStacks
<1>4. QED
  BY <1>1, <1>2, <1>3 DEF SavedStacks

LEMMA TopStack ==
  ASSUME NEW h, SavedStacks(h), h # <<>>
  PROVE  IsSeq(Top(h)) /\ Pop(h) = PopIfAny(h) /\ Len(h) \in Nat /\ Len(h) >= 1
<1>1. Len(h) \in Nat /\ Len(h) # 0
  <2>1. IsSeq(h)
    BY DEF SavedStacks
  <2>2. QED
    BY <2>1, IsSeqLen
<1>2. Len(h) \in 1..Len(h) /\ Len(h) >= 1
  <2>1. \A n \in Nat : n # 0 => n \in 1..n /\ n >= 1
    OBVIOUS
  <2>2. QED
    BY <1>1, <2>1
<1>3. IsSeq(Top(h))
  BY <1>2 DEF SavedStacks, Top
<1>4. QED
  BY <1>1, <1>2, <1>3 DEF PopIfAny

----------------------------------------------------------------------------
(* The code.                                                               *)

\* A jump leads to an instruction.
LEMMA TargetInCode ==
  ASSUME IsCode(code), NEW p \in 1..Len(code), Op(p) \in Jumps
  PROVE  Target(p) \in 1..Len(code) /\ Len(code) \in Nat
<1>1. p + 1 + code[p].arg \in 1..Len(code)
  BY DEF IsCode, Op
<1>2. Len(code) \in Nat
  BY DEF IsCode
<1>3. QED
  BY <1>1, <1>2 DEF Target

\* A nonempty set of natural numbers has a least element.
LEMMA SetMinInSet ==
  ASSUME NEW S \in SUBSET Nat, S # {}
  PROVE  SetMin(S) \in S
<1> DEFINE R == {ss \in Nat \X Nat : ss[1] < ss[2]}
<1>1. IsWellFoundedOn(R, Nat)
  BY NatLessThanWellFounded DEF OpToRel
<1> HIDE DEF R
<1>2. PICK x \in S : \A y \in S : ~ <<y, x>> \in R
  BY <1>1, WFMin
<1>3. \A y \in S : x <= y
  <2>1. \A y \in S : ~ (y < x)
    BY <1>2 DEF R
  <2>2. QED
    BY <2>1
<1>4. QED
  BY <1>2, <1>3 DEF SetMin

\* A pending else ends in the code.
LEMMA PendingElseBounds ==
  ASSUME IsCode(code), PendingOK, pos \in 1..Len(code)
  PROVE  PendingElseEnd \in 0..(Len(code) + 1)
<1> DEFINE cap   == elifPendingElse[pos]
           stops == Among(pos, cap, Jumps \cup {"RETURN_VALUE"})
<1>1. Len(code) \in Nat
  BY DEF IsCode
<1>2. cap \in 0..(Len(code) + 1)
  BY DEF PendingOK
<1>3. \A p \in stops : p \in 1..Len(code) /\ p \in Nat /\ p + 1 \in 0..(Len(code) + 1)
  BY <1>1, <1>2 DEF Among
<1>4. stops # {} => SetMin(stops) + 1 \in 0..(Len(code) + 1)
  <2>1. stops \in SUBSET Nat
    BY <1>3
  <2> HIDE DEF stops
  <2>2. stops # {} => SetMin(stops) \in stops
    BY <2>1, SetMinInSet
  <2>3. QED
    BY <1>3, <2>2
<1>5. \/ stops # {} /\ PendingElseEnd = SetMin(stops) + 1
      \/ PendingElseEnd = 0
      \/ PendingElseEnd = cap
  BY DEF PendingElseEnd
<1>6. 0 \in 0..(Len(code) + 1)
  BY <1>1
<1> HIDE DEF stops, cap
<1>7. QED
  BY <1>2, <1>4, <1>5, <1>6

----------------------------------------------------------------------------
(* The steps.                                                              *)

\* A successor state is shown to satisfy the invariant part by part.
LEMMA Assemble ==
  ASSUME IsCode(code), code' = code, PosOK', FlagsOK', OpenBlocks(blocks'),
         StacksOK', PendingOK', ArmsAreSaved', pc' # "threw"
  PROVE  IInv'
<1>1. OpenBlocks(blocks)'
  BY DEF OpenBlocks, IsBlock
<1>2. IsCode(code)'
  OBVIOUS
<1>3. TypeOK' <=> /\ IsCode(code)' /\ PosOK' /\ FlagsOK'
                  /\ OpenBlocks(blocks)' /\ StacksOK' /\ PendingOK'
  BY DEF TypeOK, PosOK, FlagsOK, OpenBlocks, StacksOK, SavedStacks, PendingOK
<1>4. TypeOK'
  BY <1>1, <1>2, <1>3
<1>5. QED
  BY <1>4 DEF IInv, NeverThrows

LEMMA Parts ==
  ASSUME IInv
  PROVE  /\ IsCode(code) /\ PosOK /\ FlagsOK
         /\ OpenBlocks(blocks) /\ StacksOK /\ PendingOK
         /\ ArmsAreSaved /\ pc # "threw"
BY TypeParts DEF IInv, NeverThrows

\* The sizes of the two stacks, as numbers.
LEMMA Sizes ==
  ASSUME IInv
  PROVE  /\ Len(code) \in Nat
         /\ Len(blocks) \in Nat /\ Len(blocks) >= 1
         /\ Len(stack_hist) \in Nat
         /\ stack_hist = <<>> <=> Len(stack_hist) = 0
         /\ pc \notin {"close"} => Len(blocks) - 1 <= Len(stack_hist)
         /\ ~push => Len(blocks) - 1 <= Len(stack_hist)
         /\ Len(blocks) - 1 <= Len(stack_hist) + 1
<1>1. Len(code) \in Nat
  BY Parts DEF IsCode
<1>2. Len(blocks) \in Nat /\ Len(blocks) >= 1
  BY Parts, TopBlock
<1>3. Len(stack_hist) \in Nat
  BY Parts, IsSeqLen DEF StacksOK, SavedStacks
<1>4. stack_hist = <<>> <=> Len(stack_hist) = 0
  BY Parts, IsSeqLen DEF StacksOK, SavedStacks
<1>5. ArmsAreSaved
  BY Parts
<1>6. QED
  BY <1>1, <1>2, <1>3, <1>4, <1>5 DEF ArmsAreSaved

\* The end of an iteration.
LEMMA NextAtPos ==
  ASSUME IInv, pc \in {"exec", "close"}, NEW p, p \in pos..(Len(code) + 1), NextAt(p),
         curpos' = curpos, code' = code, push' \in BOOLEAN
  PROVE  PosOK' /\ FlagsOK' /\ pc' = "next"
<1>1. pc' = "next" /\ pos' = p
  BY DEF NextAt
<1>2. else_pop' \in BOOLEAN
  BY DEF NextAt, EndsAt
<1>3. pos \in 1..(Len(code) + 1) /\ curpos \in 0..Len(code) /\ curpos < pos
  BY Parts DEF PosOK
<1>4. p \in 1..(Len(code) + 1) /\ curpos < p
  BY <1>3, Sizes
<1>5. FlagsOK'
  BY <1>2 DEF FlagsOK
<1>6. PosOK'
  BY <1>1, <1>3, <1>4 DEF PosOK
<1>7. QED
  BY <1>1, <1>5, <1>6

LEMMA PosNow ==
  ASSUME IInv
  PROVE  /\ pos \in pos..(Len(code) + 1) /\ pos \in Nat
         /\ pc \in {"unwind", "exec", "close"} => curpos \in 1..Len(code) /\ pos = curpos + 1
<1>1. PosOK /\ Len(code) \in Nat
  BY Parts, Sizes
<1>2. pos \in 1..(Len(code) + 1) /\ curpos \in 0..Len(code) /\ curpos < pos
  BY <1>1 DEF PosOK
<1>3. pos \in pos..(Len(code) + 1) /\ pos \in Nat
  BY <1>1, <1>2
<1>4. ASSUME pc \in {"unwind", "exec", "close"}
      PROVE  curpos \in 1..Len(code) /\ pos = curpos + 1
  <2>1. curpos >= 1 /\ pos = curpos + 1
    BY <1>1, <1>4 DEF PosOK
  <2>2. QED
    BY <1>1, <1>2, <2>1
<1>5. QED
  BY <1>3, <1>4

LEMMA InitIInv == Init => IInv
<1>1. SUFFICES ASSUME Init PROVE IInv
  OBVIOUS
<1>2. IsCode(code)
  BY <1>1, CodesAssumption DEF Init
<1>3. Len(code) \in Nat
  BY <1>2 DEF IsCode
<1>4. PosOK
  BY <1>1, <1>3 DEF Init, PosOK
<1>5. FlagsOK
  BY <1>1 DEF Init, FlagsOK
<1>6. OpenBlocks(blocks) /\ Len(blocks) = 1
  <2>1. 0 \in 0..(Len(code) + 1)
    BY <1>3
  <2>2. IsBlock(Block("MAIN", 0)) /\ Block("MAIN", 0).type = "MAIN"
    BY <2>1, NewBlock DEF Block
  <2>3. <<Block("MAIN", 0)>> \in Seq({Block("MAIN", 0)})
    OBVIOUS
  <2>4. IsSeq(blocks)
    BY <1>1, <2>3, IsSeqOf DEF Init
  <2>5. Len(blocks) = 1 /\ blocks[1] = Block("MAIN", 0)
    BY <1>1 DEF Init
  <2>6. blocks # <<>>
    BY <2>4, <2>5, IsSeqLen
  <2>7. \A i \in 1..Len(blocks) : i = 1
    BY <2>5
  <2>8. QED
    BY <2>2, <2>4, <2>5, <2>6, <2>7 DEF OpenBlocks
<1>7. StacksOK /\ Len(stack_hist) = 0
  <2>1. IsSeq(stack) /\ IsSeq(stack_hist) /\ Len(stack_hist) = 0
    BY <1>1, EmptyIsSeq DEF Init
  <2>2. \A i \in 1..Len(stack_hist) : FALSE
    BY <2>1
  <2>3. QED
    BY <2>1, <2>2 DEF StacksOK, SavedStacks
<1>8. PendingOK
  BY <1>1, <1>3 DEF Init, PendingOK
<1>9. TypeOK
  BY <1>2, <1>4, <1>5, <1>6, <1>7, <1>8, TypeParts
<1>10. ArmsAreSaved
  BY <1>1, <1>6, <1>7 DEF Init, ArmsAreSaved
<1>11. NeverThrows
  BY <1>1 DEF Init, NeverThrows
<1>12. QED
  BY <1>9, <1>10, <1>11 DEF IInv

LEMMA FetchStep == ASSUME IInv, Fetch PROVE IInv'
<1>1. /\ pc = "next" /\ pos <= Len(code) /\ curpos' = pos /\ pos' = pos + 1
      /\ code' = code /\ stack' = stack /\ elifPendingElse' = elifPendingElse
      /\ push' = push
      /\ pc' \in {"unwind", "exec"} /\ else_pop' \in {FALSE, else_pop}
  BY DEF Fetch
<1>2. pos \in 1..Len(code) /\ Len(code) \in Nat
  BY <1>1, Parts, Sizes DEF PosOK
<1>3. PosOK'
  BY <1>1, <1>2 DEF PosOK
<1>4. FlagsOK'
  <2>1. else_pop \in BOOLEAN /\ push \in BOOLEAN
    BY Parts DEF FlagsOK
  <2>2. QED
    BY <1>1, <2>1 DEF FlagsOK
<1>5. PendingOK'
  BY <1>1, Parts DEF PendingOK
<1>6. CASE StartsPendingElse
  <2>1. /\ blocks' = Append(Close(blocks), Block("ELSE", PendingElseEnd))
        /\ stack_hist' = Append(stack_hist, stack)
    BY <1>6 DEF Fetch
  <2>2. Len(blocks) > 1
    BY <1>6, Parts, TopBlock DEF StartsPendingElse, curblock, Arms
  <2>3. OpenBlocks(Close(blocks)) /\ Len(Close(blocks)) = Len(blocks) - 1
    BY <2>2, Parts, CloseArm
  <2>4. PendingElseEnd \in 0..(Len(code) + 1)
    BY <1>2, Parts, PendingElseBounds
  <2>5. IsBlock(Block("ELSE", PendingElseEnd)) /\ Block("ELSE", PendingElseEnd).type \in Arms
    <3>1. "ELSE" \in Arms
      BY DEF Arms
    <3>2. QED
      BY <2>4, <3>1, NewArm
  <2>6. OpenBlocks(blocks') /\ Len(blocks') = Len(blocks)
    <3>1. Len(Append(Close(blocks), Block("ELSE", PendingElseEnd))) = Len(Close(blocks)) + 1
      BY <2>3, <2>5, OpenArm
    <3>2. OpenBlocks(Append(Close(blocks), Block("ELSE", PendingElseEnd)))
      BY <2>3, <2>5, OpenArm
    <3>3. Len(blocks) \in Nat
      BY Sizes
    <3>4. QED
      BY <2>1, <2>3, <3>1, <3>2, <3>3
  <2>7. SavedStacks(stack_hist') /\ Len(stack_hist') = Len(stack_hist) + 1
    BY <2>1, Parts, SaveStack DEF StacksOK
  <2>8. StacksOK'
    BY <1>1, <2>7, Parts DEF StacksOK, SavedStacks
  <2>9. ArmsAreSaved'
    BY <1>1, <2>6, <2>7, Sizes DEF ArmsAreSaved
  <2>10. QED
    BY <1>1, <1>3, <1>4, <1>5, <2>6, <2>8, <2>9, Parts, Assemble
<1>7. CASE ~StartsPendingElse
  <2>1. blocks' = blocks /\ stack_hist' = stack_hist
    BY <1>7 DEF Fetch
  <2>2. StacksOK'
    BY <1>1, <2>1, Parts DEF StacksOK, SavedStacks
  <2>3. ArmsAreSaved'
    BY <1>1, <2>1, Sizes DEF ArmsAreSaved
  <2>4. OpenBlocks(blocks')
    BY <2>1, Parts
  <2>5. QED
    BY <1>1, <1>3, <1>4, <1>5, <2>2, <2>3, <2>4, Parts, Assemble
<1>8. QED
  BY <1>6, <1>7

LEMMA FinishStep == ASSUME IInv, Finish PROVE IInv'
<1>1. /\ pc = "next" /\ code' = code /\ pos' = pos /\ curpos' = curpos /\ stack' = stack
      /\ elifPendingElse' = elifPendingElse /\ else_pop' = else_pop /\ push' = push
  BY DEF Finish
<1>2. pc' \in {"next", "done"}
  BY <1>1 DEF Finish
<1>3. PosOK'
  BY <1>1, <1>2, Parts DEF PosOK
<1>4. FlagsOK' /\ PendingOK'
  BY <1>1, Parts DEF FlagsOK, PendingOK
<1>5. CASE Len(blocks) > 1
  <2>1. blocks' = Close(blocks) /\ stack_hist' = stack_hist
    BY <1>5 DEF Finish
  <2>2. OpenBlocks(blocks') /\ Len(blocks') = Len(blocks) - 1
    BY <1>5, <2>1, Parts, CloseArm
  <2>3. StacksOK'
    BY <1>1, <2>1, Parts DEF StacksOK, SavedStacks
  <2>4. ArmsAreSaved'
    BY <1>1, <1>2, <2>1, <2>2, Sizes DEF ArmsAreSaved
  <2>5. QED
    BY <1>1, <1>2, <1>3, <1>4, <2>2, <2>3, <2>4, Parts, Assemble
<1>6. CASE ~(Len(blocks) > 1)
  <2>1. blocks' = blocks /\ stack_hist' = <<>>
    BY <1>6 DEF Finish
  <2>2. IsSeq(stack) /\ IsSeq(<<>>) /\ Len(<<>>) = 0 /\ 1..0 = {}
    BY Parts, EmptyIsSeq DEF StacksOK
  <2>3. StacksOK'
    BY <1>1, <2>1, <2>2 DEF StacksOK, SavedStacks
  <2>4. ArmsAreSaved'
    BY <1>1, <1>2, <1>6, <2>1, <2>2, Sizes DEF ArmsAreSaved
  <2>5. OpenBlocks(blocks')
    BY <2>1, Parts
  <2>6. QED
    BY <1>1, <1>2, <1>3, <1>4, <2>3, <2>4, <2>5, Parts, Assemble
<1>7. QED
  BY <1>5, <1>6

LEMMA UnwindStep == ASSUME IInv, Unwind PROVE IInv'
<1>1. /\ pc = "unwind" /\ code' = code /\ pos' = pos /\ curpos' = curpos /\ pc' = pc
      /\ elifPendingElse' = elifPendingElse /\ else_pop' = else_pop /\ push' = push
      /\ stack_hist' = PopIfAny(stack_hist) /\ curblock.type # "MAIN"
  BY DEF Unwind, Unwinds
<1>2. PosOK'
  BY <1>1, Parts DEF PosOK, Op
<1>3. FlagsOK' /\ PendingOK'
  BY <1>1, Parts DEF FlagsOK, PendingOK
<1>4. Len(blocks) > 1
  BY <1>1, Parts, TopBlock DEF curblock
<1>5. OpenBlocks(Close(blocks)) /\ Len(Close(blocks)) = Len(blocks) - 1
  BY <1>4, Parts, CloseArm
<1>6. /\ OpenBlocks(blocks') /\ Len(blocks') = Len(blocks) - 1
      /\ IsSeq(stack')
  <2>1. CASE IsIfExpr(Close(blocks), stack)
    <3>1. /\ blocks' = TakeIfExpr(Close(blocks))
          /\ stack' = IfExpr(Close(blocks), stack)
      BY <2>1 DEF Unwind
    <3>2. OpenBlocks(blocks') /\ Len(blocks') = Len(blocks) - 1
      BY <1>5, <2>1, <3>1, TakeArms
    <3>3. stack # <<>> /\ IsSeq(stack)
      BY <2>1, Parts DEF IsIfExpr, StacksOK
    <3>4. IsSeq(Pop(stack))
      BY <3>3, PopIsSeq DEF PopIfAny
    <3>5. IsSeq(PopIfAny(Pop(stack)))
      BY <3>4, PopIsSeq
    <3>6. IsSeq(stack')
      BY <3>1, <3>5, AppendIsSeq DEF IfExpr
    <3>7. QED
      BY <3>2, <3>6
  <2>2. CASE ~IsIfExpr(Close(blocks), stack)
    <3>1. blocks' = Close(blocks) /\ stack' = stack
      BY <2>2 DEF Unwind
    <3>2. IsSeq(stack)
      BY Parts DEF StacksOK
    <3>3. QED
      BY <1>5, <3>1, <3>2
  <2>3. QED
    BY <2>1, <2>2
<1>7. /\ SavedStacks(stack_hist')
      /\ Len(stack_hist') = IF Len(stack_hist) = 0 THEN 0 ELSE Len(stack_hist) - 1
  BY <1>1, Parts, DropStack DEF StacksOK
<1>8. StacksOK'
  BY <1>6, <1>7 DEF StacksOK, SavedStacks
<1>9. ArmsAreSaved'
  BY <1>1, <1>4, <1>6, <1>7, Sizes DEF ArmsAreSaved
<1>10. QED
  BY <1>1, <1>2, <1>3, <1>6, <1>8, <1>9, Parts, Assemble

LEMMA UnwoundStep == ASSUME IInv, Unwound PROVE IInv'
<1>1. /\ pc = "unwind" /\ pc' = "exec" /\ code' = code /\ pos' = pos /\ curpos' = curpos
      /\ blocks' = blocks /\ stack' = stack /\ stack_hist' = stack_hist
      /\ elifPendingElse' = elifPendingElse /\ else_pop' = else_pop /\ push' = push
  BY DEF Unwound
<1>2. PosOK'
  BY <1>1, Parts DEF PosOK
<1>3. FlagsOK' /\ PendingOK'
  BY <1>1, Parts DEF FlagsOK, PendingOK
<1>4. StacksOK'
  BY <1>1, Parts DEF StacksOK, SavedStacks
<1>5. ArmsAreSaved'
  BY <1>1, Sizes DEF ArmsAreSaved
<1>6. OpenBlocks(blocks')
  BY <1>1, Parts
<1>7. QED
  BY <1>1, <1>2, <1>3, <1>4, <1>5, <1>6, Parts, Assemble

LEMMA LoadStep == ASSUME IInv, Load PROVE IInv'
<1>1. /\ pc = "exec" /\ code' = code /\ curpos' = curpos /\ blocks' = blocks
      /\ stack_hist' = stack_hist /\ elifPendingElse' = elifPendingElse /\ push' = push
      /\ NextAt(pos)
  BY DEF Load, Executes
<1>2. PosOK' /\ FlagsOK' /\ pc' = "next"
  BY <1>1, PosNow, NextAtPos, Parts DEF FlagsOK
<1>3. PendingOK'
  BY <1>1, Parts DEF PendingOK
<1>4. IsSeq(stack')
  BY Parts, AppendIsSeq DEF Load, StacksOK
<1>5. StacksOK'
  BY <1>1, <1>4, Parts DEF StacksOK, SavedStacks
<1>6. ArmsAreSaved'
  BY <1>1, <1>2, Sizes DEF ArmsAreSaved
<1>7. OpenBlocks(blocks')
  BY <1>1, Parts
<1>8. QED
  BY <1>1, <1>2, <1>3, <1>5, <1>6, <1>7, Parts, Assemble

LEMMA PopTopStep == ASSUME IInv, PopTop PROVE IInv'
<1>1. /\ pc = "exec" /\ code' = code /\ curpos' = curpos /\ stack' = PopIfAny(stack)
      /\ stack_hist' = stack_hist /\ elifPendingElse' = elifPendingElse /\ push' = push
      /\ NextAt(pos)
  BY DEF PopTop, Executes
<1>2. PosOK' /\ FlagsOK' /\ pc' = "next"
  BY <1>1, PosNow, NextAtPos, Parts DEF FlagsOK
<1>3. PendingOK'
  BY <1>1, Parts DEF PendingOK
<1>4. IsSeq(stack')
  BY <1>1, Parts, PopIsSeq DEF StacksOK
<1>5. StacksOK'
  BY <1>1, <1>4, Parts DEF StacksOK, SavedStacks
<1>6. OpenBlocks(blocks') /\ Len(blocks') = Len(blocks)
  <2>1. blocks' \in {blocks, AppendNode(blocks, Top(stack))}
    BY DEF PopTop
  <2>2. /\ OpenBlocks(AppendNode(blocks, Top(stack)))
        /\ Len(AppendNode(blocks, Top(stack))) = Len(blocks)
    BY Parts, AddNode
  <2>3. QED
    BY <2>1, <2>2, Parts
<1>7. ArmsAreSaved'
  BY <1>1, <1>2, <1>6, Sizes DEF ArmsAreSaved
<1>8. QED
  BY <1>1, <1>2, <1>3, <1>5, <1>6, <1>7, Parts, Assemble

(* A return that closes its block resumes behind the copies of `return None`  *)
(* it skips: further on, and still in the code.                               *)
LEMMA ReturnValueStep == ASSUME IInv, ReturnValue PROVE IInv'
<1> DEFINE bs == AppendNode(blocks, Return(StackTop(stack)))
<1>1. /\ pc = "exec" /\ code' = code /\ curpos' = curpos
      /\ elifPendingElse' = elifPendingElse /\ push' = push
  BY DEF ReturnValue, Executes
<1>2. OpenBlocks(bs) /\ Len(bs) = Len(blocks)
  BY Parts, AddNode
<1>3. PendingOK'
  BY <1>1, Parts DEF PendingOK
<1>4. CASE ReturnCloses
  <2>1. /\ blocks' = Close(bs) /\ stack' = Top(stack_hist) /\ stack_hist' = Pop(stack_hist)
        /\ NextAt(IF SkipsPads THEN curblock.end ELSE pos)
    BY <1>4 DEF ReturnValue
  <2>2. (IF SkipsPads THEN curblock.end ELSE pos) \in pos..(Len(code) + 1)
    <3>1. curblock.end \in 0..(Len(code) + 1)
      BY Parts, TopBlock DEF curblock, IsBlock
    <3>2. SkipsPads => pos < curblock.end
      BY DEF SkipsPads, OnlyPads
    <3>3. QED
      BY <3>1, <3>2, PosNow, Sizes
  <2>3. PosOK' /\ FlagsOK' /\ pc' = "next"
    BY <1>1, <2>1, <2>2, NextAtPos, Parts DEF FlagsOK
  <2>4. Len(bs) > 1
    <3>1. Top(blocks).type # "MAIN"
      BY <1>4 DEF ReturnCloses, curblock
    <3>2. Len(blocks) > 1
      BY <3>1, Parts, TopBlock
    <3>3. QED
      BY <1>2, <3>2
  <2>5. OpenBlocks(blocks') /\ Len(blocks') = Len(blocks) - 1
    <3>1. OpenBlocks(Close(bs)) /\ Len(Close(bs)) = Len(bs) - 1
      BY <1>2, <2>4, CloseArm
    <3>2. QED
      BY <1>2, <2>1, <3>1
  <2>6. stack_hist # <<>> /\ SavedStacks(stack_hist)
    BY <1>4, Parts DEF ReturnCloses, StacksOK
  <2>7. IsSeq(stack') /\ stack_hist' = PopIfAny(stack_hist)
    BY <2>1, <2>6, TopStack
  <2>8. /\ SavedStacks(stack_hist')
        /\ Len(stack_hist') = IF Len(stack_hist) = 0 THEN 0 ELSE Len(stack_hist) - 1
    BY <2>6, <2>7, DropStack
  <2>9. StacksOK'
    BY <2>7, <2>8 DEF StacksOK, SavedStacks
  <2>10. ArmsAreSaved'
    BY <1>1, <2>3, <2>5, <2>6, <2>8, Sizes DEF ArmsAreSaved
  <2>11. QED
    BY <1>1, <1>3, <2>3, <2>5, <2>9, <2>10, Parts, Assemble
<1>5. CASE ~ReturnCloses
  <2>1. /\ blocks' = bs /\ stack' = PopIfAny(stack) /\ stack_hist' = stack_hist
        /\ NextAt(pos)
    BY <1>5 DEF ReturnValue
  <2>2. PosOK' /\ FlagsOK' /\ pc' = "next"
    BY <1>1, <2>1, PosNow, NextAtPos, Parts DEF FlagsOK
  <2>3. IsSeq(stack')
    BY <2>1, Parts, PopIsSeq DEF StacksOK
  <2>4. StacksOK'
    BY <2>1, <2>3, Parts DEF StacksOK, SavedStacks
  <2>5. OpenBlocks(blocks') /\ Len(blocks') = Len(blocks)
    BY <1>2, <2>1
  <2>6. ArmsAreSaved'
    BY <1>1, <2>1, <2>2, <2>5, Sizes DEF ArmsAreSaved
  <2>7. QED
    BY <1>1, <1>3, <2>2, <2>4, <2>5, <2>6, Parts, Assemble
<1>6. QED
  BY <1>4, <1>5

LEMMA PeelStaleStep == ASSUME IInv, PeelStale PROVE IInv'
<1>1. /\ pc = "exec" /\ pc' = pc /\ code' = code /\ pos' = pos /\ curpos' = curpos
      /\ stack' = stack /\ elifPendingElse' = elifPendingElse /\ else_pop' = else_pop
      /\ push' = push /\ blocks' = Close(blocks) /\ stack_hist' = PopIfAny(stack_hist)
      /\ curblock.type \in Arms
  BY DEF PeelStale, Executes, Stale
<1>2. PosOK'
  BY <1>1, Parts DEF PosOK
<1>3. FlagsOK' /\ PendingOK'
  BY <1>1, Parts DEF FlagsOK, PendingOK
<1>4. Len(blocks) > 1
  BY <1>1, Parts, TopBlock DEF curblock
<1>5. OpenBlocks(blocks') /\ Len(blocks') = Len(blocks) - 1
  BY <1>1, <1>4, Parts, CloseArm
<1>6. /\ SavedStacks(stack_hist')
      /\ Len(stack_hist') = IF Len(stack_hist) = 0 THEN 0 ELSE Len(stack_hist) - 1
  BY <1>1, Parts, DropStack DEF StacksOK
<1>7. StacksOK'
  BY <1>1, <1>6, Parts DEF StacksOK, SavedStacks
<1>8. ArmsAreSaved'
  BY <1>1, <1>4, <1>5, <1>6, Sizes DEF ArmsAreSaved
<1>9. QED
  BY <1>1, <1>2, <1>3, <1>5, <1>7, <1>8, Parts, Assemble

(* A condition opens an arm, turns the open else into an elif, or joins the  *)
(* condition of the open arm.                                                *)
LEMMA BranchStep == ASSUME IInv, Branch PROVE IInv'
<1> DEFINE cond == StackTop(stack)
           neg  == Op(curpos) = "POP_JUMP_FORWARD_IF_TRUE"
           both == Joined(curblock, cond, neg)
<1>1. /\ pc = "exec" /\ Op(curpos) \in CondJumps /\ code' = code /\ curpos' = curpos
      /\ push' = push /\ stack' = PopIfAny(stack) /\ NextAt(pos)
  BY DEF Branch, Executes
<1>2. PosOK' /\ FlagsOK' /\ pc' = "next"
  BY <1>1, PosNow, NextAtPos, Parts DEF FlagsOK
<1>3. IsSeq(stack')
  BY <1>1, Parts, PopIsSeq DEF StacksOK
<1>4. offs \in 1..Len(code) /\ offs \in 0..(Len(code) + 1)
  <2>1. curpos \in 1..Len(code) /\ Op(curpos) \in Jumps
    BY <1>1, PosNow DEF Jumps
  <2>2. QED
    BY <2>1, Parts, TargetInCode DEF offs
<1>5. SavedStacks(stack_hist) /\ PendingOK
  BY Parts DEF StacksOK
<1>6. CASE BecomesElif
  <2> DEFINE b == CondBlock("ELIF", offs, cond, neg)
  <2>1. /\ blocks' = Append(Pop(blocks), b) /\ stack_hist' = stack_hist
        /\ elifPendingElse' = IF ElseMayFollow
                                 THEN [elifPendingElse EXCEPT ![offs] = curblock.end]
                                 ELSE elifPendingElse
    BY <1>6 DEF Branch
  <2>2. curblock.type # "MAIN" /\ "ELIF" \in Arms
    BY <1>6 DEF BecomesElif, Arms
  <2>3. IsBlock(b) /\ b.type \in Arms
    BY <1>4, <2>2, NewArm
  <2> HIDE DEF b
  <2>4. Len(blocks) > 1
    BY <2>2, Parts, TopBlock DEF curblock
  <2>5. OpenBlocks(blocks') /\ Len(blocks') = Len(blocks)
    BY <2>1, <2>3, <2>4, Parts, ReplaceTop
  <2>6. PendingOK'
    <3>1. CASE ElseMayFollow
      <4>1. curblock.end \in 0..(Len(code) + 1)
        BY Parts, TopBlock DEF curblock, IsBlock
      <4>2. elifPendingElse' = [elifPendingElse EXCEPT ![offs] = curblock.end]
        BY <2>1, <3>1
      <4>3. curblock.end > offs
        BY <3>1 DEF ElseMayFollow
      <4> DEFINE e == curblock.end
                 o == offs
      <4> HIDE DEF e, o
      <4>4. /\ e \in 0..(Len(code) + 1) /\ e > o
            /\ elifPendingElse' = [elifPendingElse EXCEPT ![o] = e]
        BY <4>1, <4>2, <4>3 DEF e, o
      <4>5. QED
        BY <1>1, <1>5, <4>4 DEF PendingOK
    <3>2. CASE ~ElseMayFollow
      BY <1>1, <1>5, <2>1, <3>2 DEF PendingOK
    <3>3. QED
      BY <3>1, <3>2
  <2>7. StacksOK'
    BY <1>3, <1>5, <2>1 DEF StacksOK, SavedStacks
  <2>8. ArmsAreSaved'
    BY <1>1, <1>2, <2>1, <2>5, Sizes DEF ArmsAreSaved
  <2>9. QED
    BY <1>1, <1>2, <2>5, <2>6, <2>7, <2>8, Parts, Assemble
<1>7. CASE ~BecomesElif /\ JoinsCondition
  <2> DEFINE b == CondBlock(curblock.type, offs, both, FALSE)
             h == PopIfAny(stack_hist)
  <2>1. /\ blocks' = Append(Pop(blocks), b) /\ stack_hist' = Append(h, stack')
        /\ elifPendingElse' = elifPendingElse
    BY <1>7 DEF Branch
  <2>2. curblock.type # "MAIN" /\ curblock.type \in Arms
    BY <1>7 DEF JoinsCondition, Arms
  <2>3. IsBlock(b) /\ b.type \in Arms
    BY <1>4, <2>2, NewArm
  <2> HIDE DEF b
  <2>4. Len(blocks) > 1
    BY <2>2, Parts, TopBlock DEF curblock
  <2>5. OpenBlocks(blocks') /\ Len(blocks') = Len(blocks)
    BY <2>1, <2>3, <2>4, Parts, ReplaceTop
  <2>6. PendingOK'
    BY <1>1, <1>5, <2>1 DEF PendingOK
  <2>7. SavedStacks(h) /\ Len(h) = IF Len(stack_hist) = 0 THEN 0 ELSE Len(stack_hist) - 1
    BY <1>5, DropStack
  <2> HIDE DEF h
  <2>8. SavedStacks(stack_hist') /\ Len(stack_hist') = Len(h) + 1
    BY <1>3, <2>1, <2>7, SaveStack
  <2>9. StacksOK'
    BY <1>3, <2>8 DEF StacksOK, SavedStacks
  <2>10. ArmsAreSaved'
    BY <1>1, <1>2, <2>5, <2>7, <2>8, Sizes DEF ArmsAreSaved
  <2>11. QED
    BY <1>1, <1>2, <2>5, <2>6, <2>9, <2>10, Parts, Assemble
<1>8. CASE ~BecomesElif /\ ~JoinsCondition
  <2> DEFINE b == CondBlock("IF", offs, cond, neg)
  <2>1. /\ blocks' = Append(blocks, b) /\ stack_hist' = Append(stack_hist, stack')
        /\ elifPendingElse' = elifPendingElse
    BY <1>8 DEF Branch
  <2>2. IsBlock(b) /\ b.type \in Arms
    <3>1. "IF" \in Arms
      BY DEF Arms
    <3>2. QED
      BY <1>4, <3>1, NewArm
  <2> HIDE DEF b
  <2>3. OpenBlocks(blocks') /\ Len(blocks') = Len(blocks) + 1
    BY <2>1, <2>2, Parts, OpenArm
  <2>4. PendingOK'
    BY <1>1, <1>5, <2>1 DEF PendingOK
  <2>5. SavedStacks(stack_hist') /\ Len(stack_hist') = Len(stack_hist) + 1
    BY <1>3, <1>5, <2>1, SaveStack
  <2>6. StacksOK'
    BY <1>3, <2>5 DEF StacksOK, SavedStacks
  <2>7. ArmsAreSaved'
    BY <1>1, <1>2, <2>3, <2>5, Sizes DEF ArmsAreSaved
  <2>8. QED
    BY <1>1, <1>2, <2>3, <2>4, <2>6, <2>7, Parts, Assemble
<1>9. QED
  BY <1>6, <1>7, <1>8

LEMMA JumpForwardStep == ASSUME IInv, JumpForward PROVE IInv'
<1>1. /\ pc = "exec" /\ Op(curpos) = "JUMP_FORWARD" /\ pc' = "close" /\ push' = TRUE
      /\ code' = code /\ pos' = pos /\ curpos' = curpos /\ blocks' = blocks
      /\ elifPendingElse' = elifPendingElse /\ else_pop' = else_pop
      /\ stack_hist' = PopIfAny(stack_hist)
  BY DEF JumpForward, Executes
<1>2. PosOK'
  <2>1. curpos >= 1 /\ pos = curpos + 1
    BY <1>1, Parts DEF PosOK
  <2>2. QED
    BY <1>1, <2>1, Parts DEF PosOK, Op
<1>3. FlagsOK' /\ PendingOK'
  BY <1>1, Parts DEF FlagsOK, PendingOK
<1>4. IsSeq(stack')
  <2>1. IsSeq(stack) /\ SavedStacks(stack_hist)
    BY Parts DEF StacksOK
  <2>2. CASE stack = <<>> /\ stack_hist # <<>>
    BY <2>1, <2>2, TopStack DEF JumpForward
  <2>3. CASE ~(stack = <<>> /\ stack_hist # <<>>)
    BY <2>1, <2>3 DEF JumpForward
  <2>4. QED
    BY <2>2, <2>3
<1>5. /\ SavedStacks(stack_hist')
      /\ Len(stack_hist') = IF Len(stack_hist) = 0 THEN 0 ELSE Len(stack_hist) - 1
  BY <1>1, Parts, DropStack DEF StacksOK
<1>6. StacksOK'
  BY <1>4, <1>5 DEF StacksOK, SavedStacks
<1>7. ArmsAreSaved'
  BY <1>1, <1>5, Sizes DEF ArmsAreSaved
<1>8. OpenBlocks(blocks')
  BY <1>1, Parts
<1>9. QED
  BY <1>1, <1>2, <1>3, <1>6, <1>7, <1>8, Parts, Assemble

LEMMA CloseOnlyStep == ASSUME IInv, CloseOnly PROVE IInv'
<1>1. /\ pc = "close" /\ code' = code /\ curpos' = curpos /\ stack' = stack
      /\ stack_hist' = stack_hist /\ elifPendingElse' = elifPendingElse /\ push' = push
      /\ blocks' = Close(blocks) /\ NextAt(pos) /\ curblock.type # "MAIN"
  BY DEF CloseOnly
<1>2. PosOK' /\ FlagsOK' /\ pc' = "next"
  BY <1>1, PosNow, NextAtPos, Parts DEF FlagsOK
<1>3. StacksOK' /\ PendingOK'
  BY <1>1, Parts DEF StacksOK, SavedStacks, PendingOK
<1>4. Len(blocks) > 1
  BY <1>1, Parts, TopBlock DEF curblock
<1>5. OpenBlocks(blocks') /\ Len(blocks') = Len(blocks) - 1
  BY <1>1, <1>4, Parts, CloseArm
<1>6. ArmsAreSaved'
  BY <1>1, <1>2, <1>5, Sizes DEF ArmsAreSaved
<1>7. QED
  BY <1>1, <1>2, <1>3, <1>5, <1>6, Parts, Assemble

LEMMA CloseInnerIfStep == ASSUME IInv, CloseInnerIf PROVE IInv'
<1>1. /\ pc = "close" /\ pc' = pc /\ code' = code /\ pos' = pos /\ curpos' = curpos
      /\ stack' = stack /\ stack_hist' = stack_hist
      /\ elifPendingElse' = elifPendingElse /\ else_pop' = else_pop /\ push' = push
      /\ blocks' = Close(blocks) /\ curblock.type # "MAIN"
  BY DEF CloseInnerIf
<1>2. PosOK'
  BY <1>1, Parts DEF PosOK, Op
<1>3. FlagsOK' /\ PendingOK' /\ StacksOK'
  BY <1>1, Parts DEF FlagsOK, PendingOK, StacksOK, SavedStacks
<1>4. Len(blocks) > 1
  BY <1>1, Parts, TopBlock DEF curblock
<1>5. OpenBlocks(blocks') /\ Len(blocks') = Len(blocks) - 1
  BY <1>1, <1>4, Parts, CloseArm
<1>6. ArmsAreSaved
  BY Parts
<1>7. ArmsAreSaved'
  BY <1>1, <1>5, <1>6, Sizes DEF ArmsAreSaved
<1>8. QED
  BY <1>1, <1>2, <1>3, <1>5, <1>7, Parts, Assemble

LEMMA OpenElseStep == ASSUME IInv, OpenElse PROVE IInv'
<1> DEFINE b == Block("ELSE", offs)
<1>1. /\ pc = "close" /\ code' = code /\ curpos' = curpos /\ stack' = stack
      /\ elifPendingElse' = elifPendingElse /\ push' = push /\ NextAt(pos)
      /\ blocks' = Append(Close(blocks), b) /\ curblock.type # "MAIN"
  BY DEF OpenElse
<1>2. PosOK' /\ FlagsOK' /\ pc' = "next"
  BY <1>1, PosNow, NextAtPos, Parts DEF FlagsOK
<1>3. PendingOK'
  BY <1>1, Parts DEF PendingOK
<1>4. Len(blocks) > 1
  BY <1>1, Parts, TopBlock DEF curblock
<1>5. OpenBlocks(Close(blocks)) /\ Len(Close(blocks)) = Len(blocks) - 1
  BY <1>4, Parts, CloseArm
<1>6. IsBlock(b) /\ b.type \in Arms
  <2>1. curpos \in 1..Len(code) /\ Op(curpos) \in Jumps
    BY <1>1, PosNow, Parts DEF PosOK, Jumps
  <2>2. offs \in 0..(Len(code) + 1)
    BY <2>1, Parts, TargetInCode DEF offs
  <2>3. "ELSE" \in Arms
    BY DEF Arms
  <2>4. QED
    BY <2>2, <2>3, NewArm
<1> HIDE DEF b
<1>7. OpenBlocks(blocks') /\ Len(blocks') = Len(Close(blocks)) + 1
  BY <1>1, <1>5, <1>6, OpenArm
<1>8. IsSeq(stack) /\ SavedStacks(stack_hist)
  BY Parts DEF StacksOK
<1>9. CASE push
  <2>1. stack_hist' = Append(stack_hist, stack)
    BY <1>9 DEF OpenElse
  <2>2. SavedStacks(stack_hist') /\ Len(stack_hist') = Len(stack_hist) + 1
    BY <1>8, <2>1, SaveStack
  <2>3. StacksOK'
    BY <1>1, <1>8, <2>2 DEF StacksOK, SavedStacks
  <2>4. ArmsAreSaved'
    BY <1>1, <1>2, <1>5, <1>7, <2>2, Sizes DEF ArmsAreSaved
  <2>5. QED
    BY <1>1, <1>2, <1>3, <1>7, <2>3, <2>4, Parts, Assemble
<1>10. CASE ~push
  <2>1. stack_hist' = stack_hist
    BY <1>10 DEF OpenElse
  <2>2. StacksOK'
    BY <1>1, <1>8, <2>1 DEF StacksOK, SavedStacks
  <2>3. ArmsAreSaved'
    BY <1>1, <1>2, <1>5, <1>7, <1>10, <2>1, Sizes DEF ArmsAreSaved
  <2>4. QED
    BY <1>1, <1>2, <1>3, <1>7, <2>2, <2>3, Parts, Assemble
<1>11. QED
  BY <1>9, <1>10

(* Once the copy taken at the jump is used up every arm still has its own, so *)
(* an else that is closed later finds a saved stack to take.                  *)
LEMMA CloseElseStep == ASSUME IInv, CloseElse PROVE IInv'
<1>1. /\ pc = "close" /\ code' = code /\ curpos' = curpos
      /\ elifPendingElse' = elifPendingElse /\ push' = FALSE
      /\ blocks' = Close(blocks) /\ curblock.type # "MAIN"
  BY DEF CloseElse
<1>2. PendingOK'
  BY <1>1, Parts DEF PendingOK
<1>3. Len(blocks) > 1
  BY <1>1, Parts, TopBlock DEF curblock
<1>4. OpenBlocks(blocks') /\ Len(blocks') = Len(blocks) - 1
  BY <1>1, <1>3, Parts, CloseArm
<1>5. IsSeq(stack) /\ SavedStacks(stack_hist)
  BY Parts DEF StacksOK
<1>6. ~Underflows
  BY <1>3, Sizes DEF Underflows
<1>7. PosOK' /\ FlagsOK' /\ pc' \in {"next", "close"}
  <2>1. CASE blocks[Len(blocks) - 1].type = "MAIN"
    <3>1. NextAt(pos)
      BY <1>6, <2>1 DEF CloseElse
    <3>2. QED
      BY <1>1, <3>1, PosNow, NextAtPos
  <2>2. CASE blocks[Len(blocks) - 1].type # "MAIN"
    <3>1. pc' = pc /\ pos' = pos /\ else_pop' = else_pop
      BY <1>6, <2>2 DEF CloseElse
    <3>2. PosOK'
      BY <1>1, <3>1, Parts DEF PosOK, Op
    <3>3. FlagsOK'
      BY <1>1, <3>1, Parts DEF FlagsOK
    <3>4. QED
      BY <1>1, <3>1, <3>2, <3>3
  <2>3. QED
    BY <2>1, <2>2
<1>8. CASE push \/ stack_hist = <<>>
  <2>1. stack' = stack /\ stack_hist' = stack_hist
    BY <1>8 DEF CloseElse
  <2>2. StacksOK'
    BY <1>5, <2>1 DEF StacksOK, SavedStacks
  <2>3. ArmsAreSaved'
    BY <1>1, <1>4, <2>1, Sizes DEF ArmsAreSaved
  <2>4. QED
    BY <1>1, <1>2, <1>4, <1>7, <2>2, <2>3, Parts, Assemble
<1>9. CASE ~push /\ stack_hist # <<>>
  <2>1. stack' = Top(stack_hist) /\ stack_hist' = Pop(stack_hist)
    BY <1>9 DEF CloseElse
  <2>2. IsSeq(stack') /\ stack_hist' = PopIfAny(stack_hist)
    BY <1>5, <1>9, <2>1, TopStack
  <2>3. /\ SavedStacks(stack_hist')
        /\ Len(stack_hist') = IF Len(stack_hist) = 0 THEN 0 ELSE Len(stack_hist) - 1
    BY <1>5, <2>2, DropStack
  <2>4. StacksOK'
    BY <2>2, <2>3 DEF StacksOK, SavedStacks
  <2>5. ArmsAreSaved'
    BY <1>1, <1>4, <1>9, <2>3, Sizes DEF ArmsAreSaved
  <2>6. QED
    BY <1>1, <1>2, <1>4, <1>7, <2>4, <2>5, Parts, Assemble
<1>10. QED
  BY <1>8, <1>9

LEMMA CloseMainStep == ASSUME IInv, CloseMain PROVE IInv'
<1>1. /\ pc = "close" /\ pc' = "lost" /\ code' = code /\ pos' = pos /\ curpos' = curpos
      /\ blocks' = blocks /\ stack' = stack /\ stack_hist' = stack_hist
      /\ elifPendingElse' = elifPendingElse /\ else_pop' = else_pop /\ push' = push
      /\ curblock.type = "MAIN"
  BY DEF CloseMain
<1>2. PosOK'
  BY <1>1, Parts DEF PosOK
<1>3. FlagsOK' /\ PendingOK' /\ StacksOK'
  BY <1>1, Parts DEF FlagsOK, PendingOK, StacksOK, SavedStacks
<1>4. ~(Len(blocks) > 1)
  BY <1>1, Parts, TopBlock DEF curblock
<1>5. ArmsAreSaved'
  BY <1>1, <1>4, Sizes DEF ArmsAreSaved
<1>6. OpenBlocks(blocks')
  BY <1>1, Parts
<1>7. QED
  BY <1>1, <1>2, <1>3, <1>5, <1>6, Parts, Assemble

LEMMA StutterStep == ASSUME IInv, UNCHANGED vars PROVE IInv'
<1>1. /\ pc' = pc /\ code' = code /\ pos' = pos /\ curpos' = curpos
      /\ blocks' = blocks /\ stack' = stack /\ stack_hist' = stack_hist
      /\ elifPendingElse' = elifPendingElse /\ else_pop' = else_pop /\ push' = push
  BY DEF vars
<1>2. PosOK'
  BY <1>1, Parts DEF PosOK, Op
<1>3. FlagsOK' /\ PendingOK' /\ StacksOK'
  BY <1>1, Parts DEF FlagsOK, PendingOK, StacksOK, SavedStacks
<1>4. ArmsAreSaved'
  BY <1>1, Parts DEF ArmsAreSaved
<1>5. OpenBlocks(blocks')
  BY <1>1, Parts
<1>6. QED
  BY <1>1, <1>2, <1>3, <1>4, <1>5, Parts, Assemble

LEMMA NextIInv == IInv /\ [Next]_vars => IInv'
<1>1. SUFFICES ASSUME IInv, [Next]_vars PROVE IInv'
  OBVIOUS
<1>2. CASE UNCHANGED vars
  BY <1>1, <1>2, StutterStep
<1>3. CASE Fetch \/ Finish
  BY <1>1, <1>3, FetchStep, FinishStep
<1>4. CASE Unwind \/ Unwound
  BY <1>1, <1>4, UnwindStep, UnwoundStep
<1>5. CASE Dispatch
  BY <1>1, <1>5, LoadStep, PopTopStep, ReturnValueStep, PeelStaleStep, BranchStep,
     JumpForwardStep DEF Dispatch
<1>6. CASE CloseStep
  BY <1>1, <1>6, CloseOnlyStep, CloseInnerIfStep, OpenElseStep, CloseElseStep,
     CloseMainStep DEF CloseStep
<1>7. QED
  BY <1>1, <1>2, <1>3, <1>4, <1>5, <1>6 DEF Next

LEMMA Invariance == Spec => []IInv
BY InitIInv, NextIInv, PTL DEF Spec

(* On every code object the block stack is the body and, inside it, arms of  *)
(* ifs that end in the code; build() never looks beyond the code, or at the  *)
(* top of an empty block stack.                                              *)
THEOREM TypeCorrect == Spec => []TypeOK
<1>1. IInv => TypeOK
  BY DEF IInv
<1>2. QED
  BY <1>1, Invariance, PTL

(* Each open arm has its operand stack saved, in spite of five places that   *)
(* open or close arms and as many that push or pop the saved stacks.         *)
THEOREM StacksSuffice == Spec => []ArmsAreSaved
<1>1. IInv => ArmsAreSaved
  BY DEF IInv
<1>2. QED
  BY <1>1, Invariance, PTL

(* The exception "except-else block/stack underflow" of handleJumpForward    *)
(* cannot be thrown on code of this kind, whatever its jumps.                *)
THEOREM NeverUnderflows == Spec => []NeverThrows
<1>1. IInv => NeverThrows
  BY DEF IInv
<1>2. QED
  BY <1>1, Invariance, PTL
----------------------------------------------------------------------------
(* The machine ends.                                                       *)

\* What is left to do: the iterations, the blocks that may have to be closed,
\* the parts of the iteration at hand.
Rank == CASE pc = "unwind" -> 4 [] pc = "exec" -> 3 [] pc = "close" -> 2 [] pc = "next" -> 1
          [] OTHER -> 0
Left == 6 * (Len(code) + 1 - pos) + Len(blocks) + Rank

LEMMA LeftIsFinite ==
  ASSUME IInv
  PROVE  Left \in Nat
<1>1. PosOK /\ Len(code) \in Nat /\ Len(blocks) \in Nat
  BY Parts, Sizes
<1>2. pos \in 1..(Len(code) + 1) /\ Rank \in 0..4
  BY <1>1 DEF PosOK, Rank
<1> HIDE DEF Rank
<1> QED
  BY <1>1, <1>2 DEF Left

\* A step that closes a block, and goes on where it was.
LEMMA ClosingShrinks ==
  ASSUME IInv, Len(blocks) > 1, Len(blocks') = Len(blocks) - 1,
         code' = code, pos' = pos, Rank' \in {Rank, Rank - 1}
  PROVE  Left' < Left
<1>1. PosOK /\ Len(code) \in Nat /\ Len(blocks) \in Nat
  BY Parts, Sizes
<1>2. pos \in 1..(Len(code) + 1) /\ Rank \in 0..4
  BY <1>1 DEF PosOK, Rank
<1> HIDE DEF Rank
<1> QED
  BY <1>1, <1>2 DEF Left

\* The end of an iteration, which opened one block at most.
LEMMA IterationShrinks ==
  ASSUME IInv, NEW p \in pos..(Len(code) + 1), NextAt(p), code' = code,
         Len(blocks') \in Nat,
         \/ pc = "exec" /\ Len(blocks') <= Len(blocks) + 1
         \/ pc = "close" /\ Len(blocks') <= Len(blocks)
  PROVE  Left' < Left
<1>1. PosOK /\ Len(code) \in Nat /\ Len(blocks) \in Nat
  BY Parts, Sizes
<1>2. pos \in 1..(Len(code) + 1) /\ p \in Nat /\ p >= pos
  BY <1>1 DEF PosOK
<1>3. pos' = p /\ Rank' = 1 /\ (pc = "exec" => Rank = 3) /\ (pc = "close" => Rank = 2)
  BY DEF NextAt, Rank
<1> HIDE DEF Rank
<1> QED
  BY <1>1, <1>2, <1>3 DEF Left

LEMMA FetchShrinks ==
  ASSUME IInv, Fetch
  PROVE  Left' < Left
<1>1. PosOK /\ Len(code) \in Nat /\ Len(blocks) \in Nat
  BY Parts, Sizes
<1>2. pos \in 1..(Len(code) + 1) /\ pos' = pos + 1 /\ code' = code
  BY <1>1 DEF PosOK, Fetch
<1>3. Rank = 1 /\ Rank' \in {3, 4}
  BY DEF Fetch, Rank
<1>4. Len(blocks') = Len(blocks)
  <2>1. CASE StartsPendingElse
    <3>1. OpenBlocks(blocks) /\ Len(blocks) > 1
      BY <2>1, Parts, TopBlock DEF StartsPendingElse, curblock, Arms
    <3>2. IsSeq(Close(blocks)) /\ Len(Close(blocks)) = Len(blocks) - 1
      BY <3>1, CloseArm DEF OpenBlocks
    <3>3. blocks' = Append(Close(blocks), Block("ELSE", PendingElseEnd))
      BY <2>1 DEF Fetch
    <3> QED
      BY <3>2, <3>3, <1>1, AppendIsSeq
  <2>2. CASE ~StartsPendingElse
    BY <2>2 DEF Fetch
  <2> QED
    BY <2>1, <2>2
<1> HIDE DEF Rank
<1> QED
  BY <1>1, <1>2, <1>3, <1>4 DEF Left

\* The steps that leave the block stack and the position as they are.
LEMMA RankShrinks ==
  ASSUME IInv, UNCHANGED <<code, pos, blocks>>, Rank' < Rank
  PROVE  Left' < Left
<1>1. PosOK /\ Len(code) \in Nat /\ Len(blocks) \in Nat
  BY Parts, Sizes
<1>2. pos \in 1..(Len(code) + 1) /\ Rank \in 0..4 /\ Rank' \in 0..4
  BY <1>1 DEF PosOK, Rank
<1> HIDE DEF Rank
<1> QED
  BY <1>1, <1>2 DEF Left

LEMMA BeforeDispatchShrinks ==
  ASSUME IInv, Finish \/ Unwind \/ Unwound
  PROVE  Left' < Left
<1>1. CASE Finish /\ Len(blocks) > 1
  <2>1. Len(blocks') = Len(blocks) - 1
    BY <1>1, Parts, CloseArm DEF Finish
  <2>2. code' = code /\ pos' = pos /\ pc' = pc
    BY <1>1 DEF Finish
  <2> QED
    BY <1>1, <2>1, <2>2, ClosingShrinks DEF Rank
<1>2. CASE Finish /\ ~(Len(blocks) > 1)
  BY <1>2, RankShrinks DEF Finish, Rank
<1>3. CASE Unwind
  <2>1. Len(blocks) > 1
    BY <1>3, Parts, TopBlock DEF Unwind, Unwinds, curblock
  <2>2. OpenBlocks(Close(blocks)) /\ Len(Close(blocks)) = Len(blocks) - 1
    BY <2>1, Parts, CloseArm
  <2>3. Len(blocks') = Len(blocks) - 1
    BY <1>3, <2>2, TakeArms DEF Unwind
  <2>4. code' = code /\ pos' = pos /\ pc' = pc
    BY <1>3 DEF Unwind
  <2> QED
    BY <2>1, <2>3, <2>4, ClosingShrinks DEF Rank
<1>4. CASE Unwound
  BY <1>4, RankShrinks DEF Unwound, Rank
<1> QED
  BY <1>1, <1>2, <1>3, <1>4

LEMMA DispatchShrinks ==
  ASSUME IInv, Dispatch
  PROVE  Left' < Left
<1>1. Len(blocks) \in Nat /\ Len(blocks) >= 1 /\ pos \in pos..(Len(code) + 1)
  BY Sizes, PosNow
<1>2. OpenBlocks(blocks)
  BY Parts
<1>3. CASE Load
  BY <1>1, <1>3, IterationShrinks DEF Load, Executes
<1>4. CASE PopTop
  <2>1. Len(blocks') = Len(blocks)
    BY <1>2, <1>4, AddNode DEF PopTop
  <2> QED
    BY <1>1, <1>4, <2>1, IterationShrinks DEF PopTop, Executes
<1>5. CASE ReturnValue
  <2> DEFINE bs == AppendNode(blocks, Return(StackTop(stack)))
  <2>1. OpenBlocks(bs) /\ Len(bs) = Len(blocks)
    BY <1>2, AddNode
  <2>2. pc = "exec" /\ code' = code
    BY <1>5 DEF ReturnValue, Executes
  <2> HIDE DEF bs
  <2>3. CASE ReturnCloses
    <3>1. Len(blocks) > 1
      BY <1>2, <2>3, TopBlock DEF ReturnCloses, curblock
    <3>2. Len(Close(bs)) = Len(bs) - 1
      BY <2>1, <3>1, CloseArm
    <3>3. blocks' = Close(bs) /\ NextAt(IF SkipsPads THEN curblock.end ELSE pos)
      BY <1>5, <2>3 DEF ReturnValue, bs
    <3>4. (IF SkipsPads THEN curblock.end ELSE pos) \in pos..(Len(code) + 1)
      <4>1. curblock.end \in 0..(Len(code) + 1)
        BY <1>2, TopBlock DEF curblock, IsBlock
      <4>2. SkipsPads => pos < curblock.end
        BY DEF SkipsPads, OnlyPads
      <4> QED
        BY <1>1, <4>1, <4>2, PosNow, Sizes
    <3> QED
      BY <1>1, <2>1, <2>2, <3>2, <3>3, <3>4, IterationShrinks
  <2>4. CASE ~ReturnCloses
    <3>1. blocks' = bs /\ NextAt(pos)
      BY <1>5, <2>4 DEF ReturnValue, bs
    <3> QED
      BY <1>1, <2>1, <2>2, <3>1, IterationShrinks
  <2> QED
    BY <2>3, <2>4
<1>6. CASE PeelStale
  <2>1. Len(blocks) > 1
    BY <1>2, <1>6, TopBlock DEF PeelStale, Stale, curblock
  <2>2. Len(blocks') = Len(blocks) - 1
    BY <1>2, <1>6, <2>1, CloseArm DEF PeelStale
  <2>3. code' = code /\ pos' = pos /\ pc' = pc
    BY <1>6 DEF PeelStale
  <2> QED
    BY <2>1, <2>2, <2>3, ClosingShrinks DEF Rank
<1>7. CASE Branch
  <2>1. \E b : blocks' = Append(blocks, b) \/ (blocks' = Append(Pop(blocks), b) /\ Len(blocks) > 1)
    <3>1. BecomesElif => Len(blocks) > 1
      BY <1>2, TopBlock DEF BecomesElif, curblock
    <3>2. JoinsCondition => Len(blocks) > 1
      BY <1>2, TopBlock DEF JoinsCondition, curblock
    <3> QED
      BY <1>7, <3>1, <3>2 DEF Branch
  <2>2. IsSeq(blocks) /\ (Len(blocks) > 1 => IsSeq(Pop(blocks)) /\ Len(Pop(blocks)) = Len(blocks) - 1)
    BY <1>2, BelowTop DEF OpenBlocks, Pop
  <2>3. Len(blocks') \in {Len(blocks), Len(blocks) + 1}
    BY <1>1, <2>1, <2>2, AppendIsSeq
  <2>4. pc = "exec" /\ code' = code /\ NextAt(pos)
    BY <1>7 DEF Branch, Executes
  <2> QED
    BY <1>1, <2>3, <2>4, IterationShrinks
<1>8. CASE JumpForward
  BY <1>8, RankShrinks DEF JumpForward, Executes, Rank
<1> QED
  BY <1>3, <1>4, <1>5, <1>6, <1>7, <1>8 DEF Dispatch

LEMMA CloseStepShrinks ==
  ASSUME IInv, CloseStep
  PROVE  Left' < Left
<1>1. Len(blocks) \in Nat /\ Len(blocks) >= 1 /\ pos \in pos..(Len(code) + 1)
  BY Sizes, PosNow
<1>2. OpenBlocks(blocks)
  BY Parts
<1>3. curblock.type # "MAIN" =>
        /\ Len(blocks) > 1 /\ IsSeq(Close(blocks))
        /\ Len(Close(blocks)) = Len(blocks) - 1
  BY <1>2, TopBlock, CloseArm DEF curblock, OpenBlocks
<1>4. CASE CloseOnly
  BY <1>1, <1>3, <1>4, IterationShrinks DEF CloseOnly
<1>5. CASE CloseInnerIf
  BY <1>3, <1>5, ClosingShrinks DEF CloseInnerIf, Rank
<1>6. CASE OpenElse
  <2>1. blocks' = Append(Close(blocks), Block("ELSE", offs)) /\ NextAt(pos) /\ code' = code
        /\ pc = "close" /\ curblock.type # "MAIN"
    BY <1>6 DEF OpenElse
  <2>2. Len(blocks') = Len(blocks)
    BY <1>1, <1>3, <2>1, AppendIsSeq
  <2> QED
    BY <1>1, <2>1, <2>2, IterationShrinks
<1>7. CASE CloseElse
  <2>1. blocks' = Close(blocks) /\ code' = code /\ pc = "close" /\ curblock.type # "MAIN"
    BY <1>7 DEF CloseElse
  <2>2. ~Underflows
    BY <1>3, <2>1, Sizes DEF Underflows
  <2>3. CASE NextAt(pos)
    BY <1>1, <1>3, <2>1, <2>3, IterationShrinks
  <2>4. CASE ~NextAt(pos)
    <3>1. pc' = pc /\ pos' = pos
      BY <1>7, <2>2, <2>4 DEF CloseElse
    <3> QED
      BY <1>3, <2>1, <3>1, ClosingShrinks DEF Rank
  <2> QED
    BY <2>3, <2>4
<1>8. CASE CloseMain
  BY <1>8, RankShrinks DEF CloseMain, Rank
<1> QED
  BY <1>4, <1>5, <1>6, <1>7, <1>8 DEF CloseStep

(* Each step of build() leaves less to do, on any code object: each iteration *)
(* takes at least one instruction and opens at most one block, and the loops  *)
(* in it close one block a round.                                             *)
THEOREM EveryStepAdvances == Spec => [](Left \in Nat) /\ [][Left' < Left]_vars
<1>1. IInv /\ [Next]_vars => [Left' < Left]_vars
  BY FetchShrinks, BeforeDispatchShrinks, DispatchShrinks, CloseStepShrinks DEF Next
<1>2. IInv => Left \in Nat
  BY LeftIsFinite
<1> QED
  BY <1>1, <1>2, Invariance, PTL DEF Spec
----------------------------------------------------------------------------
(* Statements stay where they are.                                         *)

\* What closing the block on top does to the statements of the others.
LEMMA CloseNodes ==
  ASSUME NEW bs, OpenBlocks(bs), Len(bs) > 1
  PROVE  /\ DOMAIN Close(bs) = 1..(Len(bs) - 1)
         /\ \A k \in 1..(Len(bs) - 1) :
              Close(bs)[k].nodes =
                IF k = Len(bs) - 1 THEN Append(bs[k].nodes, bs[Len(bs)]) ELSE bs[k].nodes
<1> DEFINE cs == SubSeq(bs, 1, Len(bs) - 1)
           m  == Len(bs) - 1
           ns == Append(cs[m].nodes, bs[Len(bs)])
           ds == [cs EXCEPT ![m].nodes = ns]
<1>1. Len(bs) \in Nat /\ m \in 0..Len(bs)
  BY TopBlock
<1>2. IsSeq(cs) /\ Len(cs) = m /\ \A k \in 1..m : cs[k] = bs[k]
  BY <1>1, PrefixIsSeq DEF OpenBlocks
<1>3. DOMAIN cs = 1..m
  BY <1>2, IsSeqOf DEF IsSeq
<1>4. Close(bs) = ds
  BY DEF Close
<1>5. \A k \in 1..m : "nodes" \in DOMAIN bs[k]
  BY <1>1 DEF OpenBlocks, IsBlock
<1>6. DOMAIN ds = 1..m /\ \A k \in 1..m : ds[k] = IF k = m THEN [cs[m] EXCEPT !.nodes = ns] ELSE cs[k]
  BY <1>3
<1>7. m \in 1..m
  BY <1>1
<1>8. [cs[m] EXCEPT !.nodes = ns].nodes = ns
  BY <1>2, <1>5, <1>7
<1>9. ns = Append(bs[m].nodes, bs[Len(bs)])
  BY <1>2, <1>7
<1> HIDE DEF cs, ns, ds
<1>10. \A k \in 1..m : ds[k].nodes = IF k = m THEN ns ELSE bs[k].nodes
  BY <1>2, <1>6, <1>8
<1> QED
  BY <1>4, <1>6, <1>9, <1>10

\* gs has the blocks of bs, with statements added behind those they have.
Extends(bs, gs) ==
  /\ Len(gs) = Len(bs)
  /\ \A k \in 1..Len(bs) : \A i \in DOMAIN bs[k].nodes :
       i \in DOMAIN gs[k].nodes /\ gs[k].nodes[i] = bs[k].nodes[i]

\* The block on top of gs is closed; cs has the others as that leaves them.
LEMMA CloseStays ==
  ASSUME NEW bs, OpenBlocks(bs), Len(bs) > 1, NEW gs, OpenBlocks(gs), Extends(bs, gs), NEW cs,
         \A k \in 1..(Len(bs) - 1) : k \in DOMAIN cs /\ cs[k].nodes = Close(gs)[k].nodes,
         NEW k \in 1..Len(bs), NEW i \in DOMAIN bs[k].nodes
  PROVE  StillThere(bs, cs, k, i)
<1> DEFINE n == Len(bs)
           arm == gs[n]
           old == gs[n - 1].nodes
           new == Append(old, arm)
<1>1. n \in Nat /\ n > 1 /\ Len(gs) = n
  BY TopBlock DEF Extends
<1>2. IsBlock(gs[n]) /\ gs[n].type \in Arms /\ IsBlock(gs[n - 1])
  BY <1>1 DEF OpenBlocks
<1>3. IsSeq(old)
  BY <1>2 DEF IsBlock
<1>4. /\ IsSeq(new) /\ Len(new) = Len(old) + 1 /\ Len(old) \in Nat
      /\ \A j \in 1..Len(old) : new[j] = old[j]
      /\ new[Len(old) + 1] = arm
  BY <1>3, AppendIsSeq, IsSeqLen
<1>5. DOMAIN old = 1..Len(old) /\ DOMAIN new = 1..Len(new)
  BY <1>3, <1>4, IsSeqOf DEF IsSeq
<1>6. \A j \in 1..(n - 1) : cs[j].nodes = IF j = n - 1 THEN new ELSE gs[j].nodes
  BY <1>1, CloseNodes
<1>7. i \in DOMAIN gs[k].nodes /\ gs[k].nodes[i] = bs[k].nodes[i]
  BY DEF Extends
<1>8. CASE k = n
  <2>1. n - 1 \in 1..(n - 1)
    BY <1>1
  <2>2. n - 1 \in DOMAIN cs /\ cs[n - 1].nodes = new
    BY <2>1, <1>6
  <2>3. new # <<>> /\ Top(new) = arm
    BY <1>4, IsSeqLen DEF Top
  <2> HIDE DEF n, new, arm
  <2>4. arm.type \in Arms /\ i \in DOMAIN arm.nodes /\ arm.nodes[i] = bs[k].nodes[i]
    BY <1>2, <1>7, <1>8 DEF arm
  <2>5. k = Len(bs) /\ k - 1 \in DOMAIN cs /\ cs[k - 1].nodes = new
    BY <2>2, <1>8 DEF n
  <2> QED
    BY <2>3, <2>4, <2>5 DEF StillThere
<1>9. CASE k # n
  <2>1. k \in 1..(n - 1)
    BY <1>1, <1>9
  <2>2. k \in DOMAIN cs /\ cs[k].nodes = IF k = n - 1 THEN new ELSE gs[k].nodes
    BY <2>1, <1>6
  <2>3. i \in DOMAIN cs[k].nodes /\ cs[k].nodes[i] = gs[k].nodes[i]
    <3>1. CASE k = n - 1
      <4> HIDE DEF new, n
      <4>1. i \in DOMAIN old
        BY <1>7, <3>1
      <4>2. i \in 1..Len(old) /\ i \in DOMAIN new
        BY <4>1, <1>4, <1>5
      <4> QED
        BY <4>2, <1>4, <2>2, <3>1
    <3>2. CASE k # n - 1
      BY <2>2, <3>2, <1>7
    <3> QED
      BY <3>1, <3>2
  <2> QED
    BY <2>2, <2>3, <1>7 DEF StillThere
<1> QED
  BY <1>8, <1>9

LEMMA ExtendsSelf ==
  ASSUME NEW bs
  PROVE  Extends(bs, bs)
BY DEF Extends

\* A statement is added to the block on top.
LEMMA AddedExtends ==
  ASSUME NEW bs, OpenBlocks(bs), NEW x
  PROVE  Extends(bs, AppendNode(bs, x)) /\ DOMAIN AppendNode(bs, x) = 1..Len(bs)
<1> DEFINE n   == Len(bs)
           old == bs[n].nodes
           new == Append(old, x)
           gs  == [bs EXCEPT ![n].nodes = new]
<1>1. n \in Nat /\ n \in 1..n /\ DOMAIN bs = 1..n
  BY TopBlock, IsSeqOf DEF OpenBlocks, IsSeq
<1>2. IsBlock(bs[n])
  BY <1>1 DEF OpenBlocks
<1>3. IsSeq(old) /\ "nodes" \in DOMAIN bs[n]
  BY <1>2 DEF IsBlock
<1>4. /\ IsSeq(new) /\ Len(new) = Len(old) + 1 /\ Len(old) \in Nat
      /\ \A j \in 1..Len(old) : new[j] = old[j]
  BY <1>3, AppendIsSeq, IsSeqLen
<1>5. DOMAIN old = 1..Len(old) /\ DOMAIN new = 1..Len(new)
  BY <1>3, <1>4, IsSeqOf DEF IsSeq
<1>6. AppendNode(bs, x) = gs /\ DOMAIN gs = DOMAIN bs
  BY DEF AppendNode
<1>7. Len(gs) = n
  BY <1>6, AddNode
<1>8. \A k \in 1..n : gs[k].nodes = IF k = n THEN new ELSE bs[k].nodes
  <2>1. [bs[n] EXCEPT !.nodes = new].nodes = new
    BY <1>3
  <2> HIDE DEF new
  <2> QED
    BY <2>1, <1>1
<1> HIDE DEF gs, new
<1>9. \A i \in DOMAIN old : i \in DOMAIN new /\ new[i] = old[i]
  BY <1>4, <1>5
<1>10. \A k \in 1..n : \A i \in DOMAIN bs[k].nodes :
         i \in DOMAIN gs[k].nodes /\ gs[k].nodes[i] = bs[k].nodes[i]
  BY <1>8, <1>9
<1> QED
  BY <1>1, <1>6, <1>7, <1>10 DEF Extends

LEMMA ExtendedStays ==
  ASSUME NEW bs, NEW gs, Extends(bs, gs), DOMAIN gs = 1..Len(bs),
         NEW k \in 1..Len(bs), NEW i \in DOMAIN bs[k].nodes
  PROVE  StillThere(bs, gs, k, i)
BY DEF Extends, StillThere

LEMMA SameStays ==
  ASSUME NEW bs, OpenBlocks(bs), NEW k \in 1..Len(bs), NEW i \in DOMAIN bs[k].nodes
  PROVE  StillThere(bs, bs, k, i)
<1>1. DOMAIN bs = 1..Len(bs)
  BY IsSeqOf DEF OpenBlocks, IsSeq
<1> QED
  BY <1>1 DEF StillThere

\* A block is put on top.
LEMMA OnTopStays ==
  ASSUME NEW bs, OpenBlocks(bs), NEW b, NEW k \in 1..Len(bs), NEW i \in DOMAIN bs[k].nodes
  PROVE  StillThere(bs, Append(bs, b), k, i)
<1>1. /\ IsSeq(Append(bs, b)) /\ Len(Append(bs, b)) = Len(bs) + 1 /\ Len(bs) \in Nat
      /\ Append(bs, b)[k] = bs[k]
  BY AppendIsSeq, IsSeqLen DEF OpenBlocks
<1>2. k \in DOMAIN Append(bs, b)
  <2> DEFINE cs == Append(bs, b)
  <2> HIDE DEF cs
  <2>1. DOMAIN cs = 1..Len(cs)
    BY <1>1, IsSeqOf DEF IsSeq, cs
  <2> QED
    BY <1>1, <2>1 DEF cs
<1> QED
  BY <1>1, <1>2 DEF StillThere

\* A block without statements is put in place of another such.
LEMMA InPlaceStays ==
  ASSUME NEW bs, OpenBlocks(bs), Len(bs) > 1, Top(bs).nodes = <<>>, NEW b,
         NEW k \in 1..Len(bs), NEW i \in DOMAIN bs[k].nodes
  PROVE  StillThere(bs, Append(Pop(bs), b), k, i)
<1>1. k # Len(bs)
  BY DEF Top
<1>2. Len(bs) \in Nat /\ k \in 1..(Len(bs) - 1) /\ Len(bs) - 1 \in 0..Len(bs)
  BY <1>1, TopBlock
<1>3. IsSeq(Pop(bs)) /\ Len(Pop(bs)) = Len(bs) - 1 /\ Pop(bs)[k] = bs[k]
  BY <1>2, PrefixIsSeq DEF OpenBlocks, Pop
<1> DEFINE cs == Append(Pop(bs), b)
<1>4. IsSeq(cs) /\ Len(cs) = Len(bs) /\ cs[k] = bs[k]
  BY <1>2, <1>3, AppendIsSeq
<1> HIDE DEF cs
<1>5. DOMAIN cs = 1..Len(cs)
  BY <1>4, IsSeqOf DEF IsSeq
<1>6. StillThere(bs, cs, k, i)
  BY <1>4, <1>5 DEF StillThere
<1> QED
  BY <1>6 DEF cs
\* The block on top is closed, and another may be opened.
LEMMA ClosingStays ==
  ASSUME NEW bs, OpenBlocks(bs), Len(bs) > 1, NEW gs, OpenBlocks(gs), Extends(bs, gs), NEW b,
         NEW k \in 1..Len(bs), NEW i \in DOMAIN bs[k].nodes
  PROVE  StillThere(bs, Close(gs), k, i) /\ StillThere(bs, Append(Close(gs), b), k, i)
<1> DEFINE cs == Close(gs)
           n  == Len(bs)
<1>1. Len(gs) = n /\ n \in Nat /\ n > 1
  BY TopBlock DEF Extends
<1>2. IsSeq(cs) /\ Len(cs) = n - 1 /\ DOMAIN cs = 1..(n - 1)
  BY <1>1, CloseArm, CloseNodes DEF OpenBlocks
<1> HIDE DEF cs
<1> DEFINE ds == Append(cs, b)
<1>3. IsSeq(ds) /\ Len(ds) = n /\ \A j \in 1..(n - 1) : ds[j] = cs[j]
  BY <1>1, <1>2, AppendIsSeq
<1> HIDE DEF ds
<1>4. DOMAIN ds = 1..Len(ds)
  BY <1>3, IsSeqOf DEF IsSeq
<1>5. \A j \in 1..(n - 1) : j \in DOMAIN cs /\ cs[j].nodes = Close(gs)[j].nodes
  BY <1>2 DEF cs
<1>6. \A j \in 1..(n - 1) : j \in DOMAIN ds /\ ds[j].nodes = Close(gs)[j].nodes
  BY <1>1, <1>3, <1>4 DEF cs
<1>7. StillThere(bs, cs, k, i)
  BY <1>5, CloseStays
<1>8. StillThere(bs, ds, k, i)
  BY <1>6, CloseStays
<1> QED
  BY <1>7, <1>8 DEF cs, ds

\* The empty if and the empty else that were a conditional expression go.
LEMMA TakenStays ==
  ASSUME NEW bs, OpenBlocks(bs), Len(bs) > 1, NEW st, IsSeq(st), IsIfExpr(Close(bs), st),
         NEW k \in 1..Len(bs), NEW i \in DOMAIN bs[k].nodes
  PROVE  \/ StillThere(bs, TakeIfExpr(Close(bs)), k, i)
         \/ IsCondition(bs[k].nodes[i], IfExpr(Close(bs), st))
<1> DEFINE n   == Len(bs)
           cs  == Close(bs)
           old == bs[n - 1].nodes
           new == Append(old, bs[n])
           m   == Len(old)
           ns  == SubSeq(cs[n - 1].nodes, 1, Len(cs[n - 1].nodes) - 2)
           ds  == [cs EXCEPT ![n - 1].nodes = ns]
<1>1. n \in Nat /\ n > 1 /\ n - 1 \in 1..n
  BY TopBlock
<1>2. OpenBlocks(cs) /\ Len(cs) = n - 1 /\ DOMAIN cs = 1..(n - 1)
  BY CloseArm, CloseNodes
<1>3. \A j \in 1..(n - 1) : cs[j].nodes = IF j = n - 1 THEN new ELSE bs[j].nodes
  <2>1. \A j \in 1..(n - 1) :
          cs[j].nodes = IF j = n - 1 THEN Append(bs[j].nodes, bs[n]) ELSE bs[j].nodes
    BY CloseNodes
  <2> HIDE DEF cs, n
  <2> QED
    BY <2>1
<1>4. IsSeq(old) /\ m \in Nat /\ DOMAIN old = 1..m
  <2>1. IsBlock(bs[n - 1])
    BY <1>1 DEF OpenBlocks
  <2>2. IsSeq(old)
    BY <2>1 DEF IsBlock
  <2> QED
    BY <2>2, IsSeqLen, IsSeqOf DEF IsSeq
<1>5. /\ IsSeq(new) /\ Len(new) = m + 1 /\ new[m + 1] = bs[n]
      /\ \A j \in 1..m : new[j] = old[j]
  BY <1>4, AppendIsSeq
<1> HIDE DEF new
<1>6. Top(cs).nodes = new /\ cs[n - 1].nodes = new
  BY <1>1, <1>2, <1>3 DEF Top
<1>7. /\ st # <<>> /\ m + 1 >= 2
      /\ bs[n].nodes = <<>> /\ old[m].type = "IF" /\ old[m].nodes = <<>>
  <2> HIDE DEF cs, old, m, n
  <2>1. /\ st # <<>> /\ Len(new) >= 2 /\ new[Len(new)].nodes = <<>>
        /\ new[Len(new) - 1].type = "IF" /\ new[Len(new) - 1].nodes = <<>>
    BY <1>6 DEF IsIfExpr, cs
  <2>2. Len(new) - 1 = m /\ m \in 1..m
    BY <2>1, <1>4, <1>5
  <2> QED
    BY <2>1, <2>2, <1>5
<1>8. TakeIfExpr(cs) = ds
  BY <1>2 DEF TakeIfExpr
<1>9. DOMAIN ds = 1..(n - 1) /\ ds[n - 1].nodes = ns
      /\ \A j \in 1..(n - 1) : j # n - 1 => ds[j].nodes = bs[j].nodes
  <2>1. "nodes" \in DOMAIN cs[n - 1]
    <3>1. n - 1 \in 1..Len(cs)
      BY <1>1, <1>2
    <3> QED
      BY <3>1, <1>2 DEF OpenBlocks, IsBlock
  <2> HIDE DEF ns, cs
  <2>2. [cs[n - 1] EXCEPT !.nodes = ns].nodes = ns
    BY <2>1
  <2> QED
    BY <2>2, <1>1, <1>2, <1>3
<1>10. ns = SubSeq(new, 1, m - 1) /\ m - 1 \in 0..Len(new)
  BY <1>4, <1>5, <1>6, <1>7
<1>11. IsSeq(ns) /\ Len(ns) = m - 1 /\ \A j \in 1..(m - 1) : ns[j] = new[j]
  BY <1>5, <1>10, PrefixIsSeq
<1>12. DOMAIN ns = 1..(m - 1)
  <2> HIDE DEF ns
  <2> QED
    BY <1>11, IsSeqOf DEF IsSeq
<1>13. Top(IfExpr(cs, st)).type = "TERNARY" /\ Top(IfExpr(cs, st)).cond = old[m]
  <2> DEFINE rest == Pop(st)
             tern == Ternary(new[Len(new) - 1], StackTop(rest), Top(st))
  <2>1. IsSeq(rest)
    BY <1>7, PopIsSeq DEF PopIfAny
  <2>2. IsSeq(PopIfAny(rest))
    BY <2>1, PopIsSeq
  <2>3. IfExpr(cs, st) = Append(PopIfAny(rest), tern)
    <3> HIDE DEF cs
    <3> QED
      BY <1>6 DEF IfExpr
  <2>4. new[Len(new) - 1] = old[m]
    <3> HIDE DEF old, m
    <3> QED
      BY <1>4, <1>5, <1>7
  <2>5. tern.type = "TERNARY" /\ tern.cond = old[m]
    BY <2>4 DEF Ternary
  <2> HIDE DEF tern, rest, cs
  <2>6. Top(Append(PopIfAny(rest), tern)) = tern
    BY <2>2, AppendIsSeq DEF Top
  <2> QED
    BY <2>3, <2>5, <2>6
<1> HIDE DEF ds, ns, cs
<1>14. CASE k = n
  BY <1>7, <1>14
<1>15. CASE k = n - 1 /\ i = m
  BY <1>7, <1>13, <1>15 DEF IsCondition, cs
<1>16. CASE k = n - 1 /\ i # m
  <2>1. i \in 1..(m - 1)
    BY <1>4, <1>16
  <2>2. k \in DOMAIN ds /\ ds[k].nodes = ns /\ i \in DOMAIN ns
    BY <2>1, <1>1, <1>9, <1>12, <1>16
  <2>3. ns[i] = bs[k].nodes[i]
    <3>1. i \in 1..m
      BY <2>1, <1>4
    <3> QED
      BY <2>1, <3>1, <1>5, <1>11, <1>16
  <2> QED
    BY <2>2, <2>3, <1>8 DEF StillThere, cs
<1>17. CASE k # n /\ k # n - 1
  <2>1. k \in 1..(n - 1) /\ k \in DOMAIN ds /\ ds[k].nodes = bs[k].nodes
    BY <1>1, <1>9, <1>17
  <2> QED
    BY <2>1, <1>8 DEF StillThere, cs
<1> QED
  BY <1>14, <1>15, <1>16, <1>17

\* Every step, block by block.
LEMMA StepStays ==
  ASSUME IInv, Next, NEW k \in 1..Len(blocks), NEW i \in DOMAIN blocks[k].nodes
  PROVE  StillThere(blocks, blocks', k, i) \/ IsCondition(blocks[k].nodes[i], stack')
<1>1. OpenBlocks(blocks) /\ IsSeq(stack) /\ Extends(blocks, blocks)
  BY Parts, ExtendsSelf DEF StacksOK
<1>2. curblock.type # "MAIN" => Len(blocks) > 1
  BY <1>1, TopBlock DEF curblock
<1>3. CASE blocks' = blocks
  BY <1>1, <1>3, SameStays
<1>4. CASE Len(blocks) > 1 /\ (blocks' = Close(blocks) \/ \E b : blocks' = Append(Close(blocks), b))
  BY <1>1, <1>4, ClosingStays
<1>5. CASE Fetch
  BY <1>2, <1>3, <1>4, <1>5 DEF Fetch, StartsPendingElse
<1>6. CASE Finish \/ Unwound
  BY <1>3, <1>4, <1>6 DEF Finish, Unwound
<1>7. CASE Unwind
  <2>1. Len(blocks) > 1
    BY <1>2, <1>7 DEF Unwind, Unwinds
  <2> QED
    BY <1>1, <1>4, <1>7, <2>1, TakenStays DEF Unwind
<1>8. CASE Load \/ JumpForward
  BY <1>3, <1>8 DEF Load, JumpForward
<1>9. CASE PopTop
  BY <1>1, <1>3, <1>9, AddedExtends, ExtendedStays DEF PopTop
<1>10. CASE ReturnValue
  <2> DEFINE bs == AppendNode(blocks, Return(StackTop(stack)))
  <2>1. OpenBlocks(bs) /\ Extends(blocks, bs) /\ DOMAIN bs = 1..Len(blocks)
    BY <1>1, AddNode, AddedExtends
  <2>2. blocks' = bs \/ (blocks' = Close(bs) /\ Len(blocks) > 1)
    BY <1>2, <1>10 DEF ReturnValue, ReturnCloses
  <2> HIDE DEF bs
  <2> QED
    BY <1>1, <2>1, <2>2, ClosingStays, ExtendedStays
<1>11. CASE PeelStale
  BY <1>1, <1>4, <1>11, TopBlock DEF PeelStale, Stale, curblock
<1>12. CASE Branch
  <2>1. \/ \E b : blocks' = Append(blocks, b)
        \/ /\ Len(blocks) > 1 /\ Top(blocks).nodes = <<>>
           /\ \E b : blocks' = Append(Pop(blocks), b)
    <3>1. CASE BecomesElif
      BY <1>2, <1>12, <3>1 DEF Branch, BecomesElif, curblock
    <3>2. CASE ~BecomesElif /\ JoinsCondition
      BY <1>2, <1>12, <3>2 DEF Branch, JoinsCondition, curblock
    <3>3. CASE ~BecomesElif /\ ~JoinsCondition
      BY <1>12, <3>3 DEF Branch
    <3> QED
      BY <3>1, <3>2, <3>3
  <2> QED
    BY <1>1, <2>1, OnTopStays, InPlaceStays
<1>13. CASE CloseStep
  BY <1>2, <1>3, <1>4, <1>13
     DEF CloseStep, CloseOnly, CloseInnerIf, OpenElse, CloseElse, CloseMain
<1> QED
  BY <1>5, <1>6, <1>7, <1>8, <1>9, <1>10, <1>11, <1>12, <1>13 DEF Next, Dispatch

(* On any code, what build() has put into a block stays in it in its place,   *)
(* whatever blocks are closed, replaced or taken for a conditional expression. *)
THEOREM StatementsAreKept == Spec => StatementsStay
<1>1. IInv /\ [Next]_vars =>
        [\A k \in 1..Len(blocks) : \A i \in DOMAIN blocks[k].nodes :
           StillThere(blocks, blocks', k, i) \/ IsCondition(blocks[k].nodes[i], stack')]_vars
  BY StepStays
<1> QED
  BY <1>1, Invariance, PTL DEF Spec, StatementsStay
=============================================================================
