----------------------------- MODULE Epilogues ------------------------------
(***************************************************************************)
(* What becomes of a function's tree between build() and the printer: the  *)
(* returns of None at the end that the compiler would add of itself are    *)
(* taken away (decompyle, ASTree.cpp), and ifs that return are put         *)
(* together to chains (ASTFaithful.cpp).                                   *)
(*                                                                         *)
(* These passes look at line numbers nowhere: they claim to leave the code *)
(* that the source compiles to as it is.  A statement that is suppressed   *)
(* is left out of its suite here: everything skips it from then on.        *)
(***************************************************************************)
EXTENDS CodeBuilder, FiniteSets

isReturnNoneNode(n) == n.type = "RETURN" /\ n.value = Null

\* Only one return of None, and two jumps lead to it: it is in the source.
keepFinalRetNone ==
  \E q \in DOMAIN code :
    /\ {p \in DOMAIN code : ReturnsNone(p)} = {q}
    /\ Cardinality({p \in DOMAIN code : Op(p) \in Jumps /\ Target(p) = q}) >= 2

\* The body without the returns of None it ends in.
RECURSIVE WithoutFinal(_)
WithoutFinal(nodes) ==
  IF nodes # <<>> /\ isReturnNoneNode(Top(nodes)) /\ ~keepFinalRetNone
    THEN WithoutFinal(Pop(nodes)) ELSE nodes

\* An if that only returns None in the end, behind a statement without a block.
FoldsInto(b) ==
  /\ b.type = "IF"
  /\ Len(b.nodes) > 1
  /\ isReturnNoneNode(Top(b.nodes))
  /\ Top(Pop(b.nodes)).type \notin Arms

\* The last of the ifs before the final return that do not fold, or 0.
LastUnfolded(nodes) ==
  LET js == {j \in 1..(Len(nodes) - 1) : ~FoldsInto(nodes[j])}
  IN IF js = {} THEN 0 ELSE CHOOSE j \in js : \A k \in js : k <= j

\* The ifs right before a return that ends the function become, with it, an
\* if, elifs and an else, and lose their own returns.
Folded(nodes) ==
  LET n == Len(nodes)
      before == LastUnfolded(nodes)
      Arm(j) == [nodes[j] EXCEPT !.nodes = Pop(@),
                                 !.type = IF j = before + 1 THEN "IF" ELSE "ELIF"]
  IN [j \in 1..n |-> IF j <= before THEN nodes[j]
                     ELSE IF j < n THEN Arm(j)
                     ELSE [Block("ELSE", 0) EXCEPT !.nodes = <<nodes[n]>>]]

RECURSIVE coalesceElifChains(_, _)
coalesceElifChains(nodes, listTail) ==
  LET n == Len(nodes)
      inner == [j \in 1..n |->
                  IF nodes[j].type \in Arms
                    THEN [nodes[j] EXCEPT !.nodes = coalesceElifChains(@, listTail /\ j = n)]
                    ELSE nodes[j]]
  IN IF listTail /\ n > 1 /\ Top(inner).type = "RETURN" /\ FoldsInto(inner[n - 1])
       THEN Folded(inner) ELSE inner

FallsOff_BehindIf(nodes) == Len(nodes) > 1 /\ isReturnNoneNode(Top(nodes))

\* A return of None where the function ends anyway goes, unless an if is
\* right before it.
FallsOff(nodes) ==
  /\ Len(nodes) > 1
  /\ isReturnNoneNode(Top(nodes))
  /\ Top(Pop(nodes)).type \notin Arms

RECURSIVE markEpilogueSuppress(_, _)
markEpilogueSuppress(nodes, listTail) ==
  LET kept == IF listTail /\ FallsOff(nodes) THEN Pop(nodes) ELSE nodes
  IN [j \in DOMAIN kept |->
        IF kept[j].type \in Arms
          THEN [kept[j] EXCEPT !.nodes = markEpilogueSuppress(@, listTail /\ j = Len(nodes))]
          ELSE kept[j]]

\* What is printed of the body.
Printed ==
  markEpilogueSuppress(coalesceElifChains(WithoutFinal(blocks[1].nodes), TRUE), TRUE)

=============================================================================
