----------------------------- MODULE Assembler -----------------------------
(***************************************************************************)
(* The other side of the code: how CPython's assembler lays out a list of  *)
(* instructions, by version.  Not part of this repository.                 *)
(*                                                                         *)
(* An instruction has an opcode, an argument or, for a jump, the number of *)
(* the instruction it leads to, and room for so many EXTENDED_ARG.         *)
(***************************************************************************)
EXTENDS Dis, Sequences, SequencesExt

Instr(op, arg, wide) == [op |-> op, arg |-> arg, to |-> 0, wide |-> wide]
Jump(op, to, wide)   == [op |-> op, arg |-> 0, to |-> to, wide |-> wide]

Size(w, i) ==
  IF WordCode(w) THEN 2 * (i.wide + 1)
  ELSE 3 * i.wide + (IF i.op >= HAVE_ARGUMENT(w) THEN 3 ELSE 1)

\* Where each instruction begins, and where the last one ends.
Offsets(w, instrs) ==
  LET at[k \in 1..(Len(instrs) + 1)] ==
        IF k = 1 THEN 0 ELSE at[k - 1] + Size(w, instrs[k - 1])
  IN at

Arg(w, instrs, at, k) ==
  LET i == instrs[k]
  IN CASE i.to = 0              -> i.arg
       [] i.to # 0 /\ i.op \in hasjrel(w)  -> (at[i.to] - at[k + 1]) \div Unit(w)
       [] i.to # 0 /\ i.op \in hasjback(w) -> (at[k + 1] - at[i.to]) \div Unit(w)
       [] i.to # 0 /\ i.op \in hasjabs(w)  -> at[i.to] \div Unit(w)

\* The n-th byte of an argument, from the lowest.
DigitOf(arg, n) == (arg \div (256 ^ n)) % 256

HalfOf(arg, n) == <<DigitOf(arg, 2 * n), DigitOf(arg, 2 * n + 1)>>

Encode(w, i, arg) ==
  IF WordCode(w)
  THEN FlattenSeq([k \in 1..i.wide |-> <<EXTENDED_ARG(w), DigitOf(arg, i.wide + 1 - k)>>])
         \o <<i.op, DigitOf(arg, 0)>>
  ELSE (IF i.wide = 1 THEN <<EXTENDED_ARG(w)>> \o HalfOf(arg, 1) ELSE <<>>)
         \o <<i.op>> \o (IF i.op >= HAVE_ARGUMENT(w) THEN HalfOf(arg, 0) ELSE <<>>)

\* The bytes, and what each instruction is, where it stands and leads.
Assemble(w, instrs) ==
  LET at == Offsets(w, instrs)
  IN [ bytes   |-> FlattenSeq([k \in 1..Len(instrs) |->
                                 Encode(w, instrs[k], Arg(w, instrs, at, k))]),
       listing |-> [k \in 1..Len(instrs) |->
                      [at |-> at[k], opcode |-> instrs[k].op,
                       operand |-> Arg(w, instrs, at, k), next |-> at[k + 1]]],
       targets |-> [k \in 1..Len(instrs) |->
                      IF instrs[k].to = 0 THEN -1 ELSE at[instrs[k].to]] ]
=============================================================================
