--------------------------- MODULE Instructions ---------------------------
(***************************************************************************)
(* The instructions of a code object, one after the other (bytecode.cpp):  *)
(* bc_next, called until the code ends, as bc_disasm and every pass of     *)
(* CodeBuilder do, and where the jumps among them lead.                    *)
(***************************************************************************)
EXTENDS Opcodes, Sequences

CONSTANT Codes
  \* What there may be to read: records with at least "ver", a version as
  \* <<major, minor>>, and "bytes", the code.

Byte == 0..255

ASSUME CodesAssumption ==
  \A c \in Codes : c.bytes \in Seq(Byte) /\ c.ver \in Int \X Int

VARIABLES
  code,      \* the code being read
  source,    \* m_pos of the PycBuffer
  pos,       \* the caller's position, which bc_next adds to
  start_pos, \* pos before the call
  opcode, operand,
  read,      \* what the calls returned so far
  pc         \* "call", "prefixed", "argument", "done", "thrown"

vars == <<code, source, pos, start_pos, opcode, operand, read, pc>>

v == code.ver

\* verCompare(maj, min) >= 0
SinceIn(w, maj, min) == w[1] > maj \/ (w[1] = maj /\ w[2] >= min)
Since(maj, min)      == SinceIn(v, maj, min)

----------------------------------------------------------------------------
(* PycBuffer                                                                 *)

\* Mutant: the end is seen a byte early.
atEof_Early == source + 1 >= Len(code.bytes)

atEof == source = Len(code.bytes)

Has(n) == source + n <= Len(code.bytes)

\* The k-th byte from here.
Peek(k) == code.bytes[source + k]

get16(k) == Peek(k) + 256 * Peek(k + 1)

\* An int of 32 bits, shifted by 8 and by 16.
High(byte) == IF byte >= 128 THEN byte - 256 ELSE byte

Shifted8(n) == High((n \div 65536) % 256) * 16777216 + (n % 65536) * 256

Shifted16(n) == (IF n >= 32768 THEN n - 65536 ELSE n) * 65536

----------------------------------------------------------------------------
(* bc_next                                                                   *)

Advance(n, m) == source' = source + n /\ pos' = pos + m

\* The call goes on at "next", or returns.
Go(next) ==
  /\ pc' = next
  /\ read' = IF next # "call" THEN read
             ELSE Append(read, [at |-> start_pos', opcode |-> opcode', operand |-> operand',
                                next |-> pos'])
  /\ UNCHANGED code

Calls == pc = "call" /\ ~atEof /\ start_pos' = pos

AfterWord == IF IsExtendedArg(v, opcode') THEN "prefixed" ELSE "call"

AfterOpcode == IF HasArg(v, opcode') THEN "argument" ELSE "call"

\* From 3.6 on: two bytes for each instruction.
FirstWord ==
  /\ Calls
  /\ Since(3, 6)
  /\ Has(2)
  /\ opcode' = ByteToOpcode(v, Peek(1))
  /\ operand' = Peek(2)
  /\ Advance(2, 2)
  /\ Go(AfterWord)

\* Mutant: each prefix replaces the one before.
NextWord_NoShift ==
  /\ pc = "prefixed"
  /\ Since(3, 6)
  /\ Has(2)
  /\ opcode' = ByteToOpcode(v, Peek(1))
  /\ operand' = Peek(2)
  /\ Advance(2, 2)
  /\ UNCHANGED start_pos
  /\ Go(AfterWord)

\* Mutant: a prefix is looked at again and again.
NextWord_Stuck ==
  /\ pc = "prefixed"
  /\ Since(3, 6)
  /\ Has(2)
  /\ opcode' = ByteToOpcode(v, Peek(1))
  /\ operand' = Shifted8(operand) + Peek(2)
  /\ IF IsExtendedArg(v, opcode') THEN Advance(0, 0) ELSE Advance(2, 2)
  /\ UNCHANGED start_pos
  /\ Go(AfterWord)

NextWord ==
  /\ pc = "prefixed"
  /\ Since(3, 6)
  /\ Has(2)
  /\ opcode' = ByteToOpcode(v, Peek(1))
  /\ operand' = Shifted8(operand) + Peek(2)
  /\ Advance(2, 2)
  /\ UNCHANGED start_pos
  /\ Go(AfterWord)

\* Before: an argument of two bytes where there is one.
Opcode ==
  /\ Calls
  /\ ~Since(3, 6)
  /\ opcode' = ByteToOpcode(v, Peek(1))
  /\ operand' = 0
  /\ Advance(1, 1)
  /\ Go(IF IsExtendedArg(v, opcode') THEN "prefixed" ELSE AfterOpcode)

\* Mutant: the opcode behind the prefix is not counted.
Prefix_Short ==
  /\ pc = "prefixed"
  /\ ~Since(3, 6)
  /\ Has(3)
  /\ opcode' = ByteToOpcode(v, Peek(3))
  /\ operand' = Shifted16(get16(1))
  /\ Advance(3, 2)
  /\ UNCHANGED start_pos
  /\ Go(AfterOpcode)

\* One prefix at most, with the upper half of the argument.
Prefix ==
  /\ pc = "prefixed"
  /\ ~Since(3, 6)
  /\ Has(3)
  /\ opcode' = ByteToOpcode(v, Peek(3))
  /\ operand' = Shifted16(get16(1))
  /\ Advance(3, 3)
  /\ UNCHANGED start_pos
  /\ Go(AfterOpcode)

Argument ==
  /\ pc = "argument"
  /\ Has(2)
  /\ operand' = operand + get16(1)
  /\ Advance(2, 2)
  /\ UNCHANGED <<opcode, start_pos>>
  /\ Go("call")

\* Bytes that the next step reads.
Needed ==
  CASE pc = "call" -> IF Since(3, 6) THEN 2 ELSE 1
    [] pc = "prefixed" -> IF Since(3, 6) THEN 2 ELSE 3
    [] OTHER -> 2

\* getByte() throws; what the step read before that is lost with the call.
Throw ==
  /\ pc \in {"call", "prefixed", "argument"}
  /\ pc = "call" => ~atEof
  /\ ~Has(Needed)
  /\ pc' = "thrown"
  /\ UNCHANGED <<code, source, pos, start_pos, opcode, operand, read>>

\* while (!source.atEof())
End ==
  /\ pc = "call"
  /\ atEof
  /\ pc' = "done"
  /\ UNCHANGED <<code, source, pos, start_pos, opcode, operand, read>>

Init ==
  /\ code \in Codes
  /\ source = 0
  /\ pos = 0
  /\ start_pos = 0
  /\ opcode = PYC_INVALID_OPCODE
  /\ operand = 0
  /\ read = <<>>
  /\ pc = "call"

Next == FirstWord \/ NextWord \/ Opcode \/ Prefix \/ Argument \/ Throw \/ End

Spec == Init /\ [][Next]_vars

\* Calls of a sequential program: reading goes on.
FairSpec == Spec /\ WF_vars(Next)

----------------------------------------------------------------------------
(* Where a jump leads                                                        *)

Kind(w) == python_map(w).jumps

\* Mutant: offsets count instructions from 3.11 on only.
Scaled_Late(w, n) == IF SinceIn(w, 3, 11) THEN 2 * n ELSE n

\* Offsets count instructions, not bytes, from 3.10 on.
Scaled(w, n) == IF SinceIn(w, 3, 10) THEN 2 * n ELSE n

\* What bc_disasm prints.
IsPrintedJump(w, op) == op \in Kind(w).forward \cup Kind(w).backward \cup Kind(w).absolute

PrintedTarget(w, r) ==
  CASE r.opcode \in Kind(w).forward  -> r.next + Scaled(w, r.operand)
    [] r.opcode \in Kind(w).backward -> r.next - Scaled(w, r.operand)
    [] r.opcode \in Kind(w).absolute ->
         IF SinceIn(w, 3, 12) THEN r.next + Scaled(w, r.operand) ELSE Scaled(w, r.operand)

\* What handleConditionalJump takes for the end of the block; until 3.11 the
\* conditional jumps that bc_disasm prints as absolute are JUMP_IF_x_OR_POP and
\* POP_JUMP_IF_x, in 3.11 only the former.
offs(w, r) ==
  IF SinceIn(w, 3, 11) \/ r.opcode \in Kind(w).forward
  THEN r.next + Scaled(w, r.operand)
  ELSE Scaled(w, r.operand)

----------------------------------------------------------------------------
(* Properties                                                                *)

Known == {PYC_INVALID_OPCODE} \cup python_map(v).plain \cup python_map(v).arg

IntMin == -2147483647 - 1

Ints == IntMin..2147483647

TypeOK ==
  /\ source \in 0..Len(code.bytes)
  /\ pos \in Nat
  /\ start_pos \in Nat
  /\ opcode \in Known
  /\ operand \in Ints
  /\ read \in Seq([at : Nat, opcode : Known, operand : Ints, next : Nat])
  /\ pc \in {"call", "prefixed", "argument", "done", "thrown"}

(* On any bytes the instructions follow one another without gap or overlap,    *)
(* and the caller's position, from which jumps are counted and against which   *)
(* ends of blocks are compared, is that of the buffer.                         *)
OneAfterAnother ==
  /\ pos = source
  /\ \A i \in 1..Len(read) :
       /\ read[i].at = (IF i = 1 THEN 0 ELSE read[i - 1].next)
       /\ read[i].at < read[i].next
  /\ pc \in {"call", "done"} => pos = (IF read = <<>> THEN 0 ELSE read[Len(read)].next)
  /\ pc = "done" => pos = Len(code.bytes)

(* Every code object is read to an end.                                        *)
Ends == <>(pc \in {"done", "thrown"})
=============================================================================
