--------------------------- MODULE MCInstructions ---------------------------
(***************************************************************************)
(* Instructions on what CPython's assembler makes of short lists: every    *)
(* opcode of every version, every jump over near and far, code cut         *)
(* anywhere, and bytes that no assembler writes.                           *)
(***************************************************************************)
EXTENDS Listing, Assembler

\* Opcodes that CPython has, as far as the tables know them.
OpsOf(w) == (python_map(w).plain \cup python_map(w).arg) \ {EXTENDED_ARG(w)}

Takes(w, op) == op >= HAVE_ARGUMENT(w)

\* Arguments, with the prefixes they need.
Operands(w) ==
  IF WordCode(w)
  THEN {<<0, 0>>, <<255, 0>>, <<256, 1>>, <<65537, 2>>, <<2147483646, 3>>}
  ELSE {<<0, 0>>, <<65535, 0>>}
         \cup (IF From(w, 2, 0) THEN {<<65536, 1>>, <<2147483646, 1>>} ELSE {})

\* 100 is LOAD_CONST or a neighbour of it in all versions: all arguments for it,
\* one for the others.
Plain(w, op) ==
  {Instr(op, p[1], p[2]) : p \in CASE op = 100       -> Operands(w)
                                  [] op # 100 /\ Takes(w, op) -> {<<7, 0>>}
                                  [] OTHER          -> {<<0, 0>>}}

\* 1, POP_TOP, is an opcode of all versions until 3.12.
Pop == Instr(1, 0, 0)

AssembledFrom(w, instrs) ==
  Assemble(w, instrs) @@ [ver |-> w, whole |-> TRUE]

Lists(w) == UNION {{<<Pop, i, Pop>> : i \in Plain(w, op)} : op \in OpsOf(w)}

\* Jumps forward over so many instructions, and back.
Far(w) == IF WordCode(w) THEN {0, 130} ELSE {0, 1}

Pops(n) == [i \in 1..n |-> Pop]

Forward(op, n, wide) == <<Pop, Jump(op, n + 3, wide)>> \o Pops(n) \o <<Pop>>
Back(op, n, wide)    == <<Pop>> \o Pops(n) \o <<Pop, Jump(op, 2, wide), Pop>>

Wide(w, n) == IF n > 1 THEN {1} ELSE IF From(w, 2, 0) THEN {0, 1} ELSE {0}

JumpLists(w) ==
  UNION {UNION {{Forward(op, n, k) : op \in hasjrel(w) \cup hasjabs(w)}
                  \cup {Back(op, n, k) : op \in hasjback(w) \cup hasjabs(w)}
                : k \in Wide(w, n)} : n \in Far(w)}

Assembled ==
  UNION {{AssembledFrom(w, l) : l \in Lists(w) \cup (IF From(w, 3, 12) THEN {} ELSE JumpLists(w))}
         : w \in Versions}

Cut(c, n) == [c EXCEPT !.bytes = SubSeq(@, 1, n), !.whole = FALSE]

CutCodes ==
  UNION {LET c == AssembledFrom(w, <<Pop, Instr(100, 300, 1), Pop, Instr(100, 7, 0)>>)
         IN {Cut(c, n) : n \in 0..(Len(c.bytes) - 1)} : w \in {<<2, 7>>, <<3, 5>>, <<3, 6>>, <<3, 11>>}}

\* Bytes as they come: prefixes on prefixes, unknown opcodes.
Odd ==
  UNION {{[ver |-> w, bytes |-> b, whole |-> FALSE, listing |-> <<>>, targets |-> <<>>]
          : b \in UNION {[1..n -> {1, 100, 255, EXTENDED_ARG(w)}] : n \in 1..4}}
         : w \in {<<1, 2>>, <<1, 5>>, <<2, 7>>, <<3, 11>>}}

MCCodes == Assembled \cup CutCodes \cup Odd
=============================================================================
