------------------------------ MODULE Listing ------------------------------
(***************************************************************************)
(* Instructions on code that comes with its listing: what each instruction *)
(* is, where it stands and where its jump leads.  Listed says when the     *)
(* bytes are those of the listing; Assembler computes such code.           *)
(***************************************************************************)
EXTENDS Instructions, Dis

\* Code that is no assembler's, or not known to be, has an empty listing.
IsAssembled(c) == c.whole \/ c.listing # <<>>

IntMax == 2147483647

Instruction == [at : Nat, opcode : Byte, operand : 0..IntMax, next : Nat]

\* Where the first n instructions end.
EndOf(listing, n) == IF n = 0 THEN 0 ELSE listing[n].next

\* The byte at p, if the code is not cut off before it.
HasByte(c, p, byte) == p < Len(c.bytes) => c.bytes[p + 1] = byte

\* Two bytes for each prefix and for the opcode, the argument in the second
\* ones, from the highest.
Words(r) == (r.next - r.at) \div 2

Digit(c, r, k) == c.bytes[r.at + 2 * k]

\* The number that the first k of them make.
Digits(c, r, k) ==
  CASE k = 1 -> Digit(c, r, 1)
    [] k = 2 -> Digit(c, r, 1) * 256 + Digit(c, r, 2)
    [] k = 3 -> Digit(c, r, 1) * 65536 + Digit(c, r, 2) * 256 + Digit(c, r, 3)
    [] k = 4 -> Digit(c, r, 1) * 16777216 + Digit(c, r, 2) * 65536 + Digit(c, r, 3) * 256
                  + Digit(c, r, 4)

InWords(c, r) ==
  /\ r.next \in {r.at + 2 * k : k \in 1..4}
  /\ \A k \in 1..(Words(r) - 1) : HasByte(c, r.at + 2 * k - 2, EXTENDED_ARG(c.ver))
  /\ HasByte(c, r.next - 2, r.opcode)
  /\ r.next <= Len(c.bytes) => r.operand = Digits(c, r, Words(r))

\* Until 3.5: the lower byte first, the upper half of the argument with the
\* prefix.
Half(c, p) == c.bytes[p + 1] + 256 * c.bytes[p + 2]

InBytes(c, r) ==
  \/ /\ r.next = r.at + 1
     /\ r.opcode < HAVE_ARGUMENT(c.ver)
     /\ HasByte(c, r.at, r.opcode)
     /\ r.operand = 0
  \/ /\ r.next = r.at + 3
     /\ r.opcode >= HAVE_ARGUMENT(c.ver)
     /\ HasByte(c, r.at, r.opcode)
     /\ r.next <= Len(c.bytes) => r.operand = Half(c, r.at + 1)
  \/ /\ r.next = r.at + 6
     /\ HasPrefixes(c.ver)
     /\ r.opcode >= HAVE_ARGUMENT(c.ver)
     /\ HasByte(c, r.at, EXTENDED_ARG(c.ver))
     /\ HasByte(c, r.at + 3, r.opcode)
     /\ r.next <= Len(c.bytes) => r.operand = Half(c, r.at + 1) * 65536 + Half(c, r.at + 4)

\* An opcode of the version, of those the tables know.
IsOpcode(w, op) ==
  op \in python_map(w).plain \cup python_map(w).arg /\ op # EXTENDED_ARG(w)

\* A jump has the place it leads to for a target, anything else has -1.
Leads(w, r, target) ==
  target # -1 =>
    /\ ~From(w, 3, 12)
    /\ \/ r.opcode \in hasjrel(w)  /\ target = r.next + Unit(w) * r.operand
       \/ r.opcode \in hasjback(w) /\ target = r.next - Unit(w) * r.operand
       \/ r.opcode \in hasjabs(w)  /\ target = Unit(w) * r.operand

Listed(c) ==
  /\ c.ver \in Versions
  /\ c.listing \in Seq(Instruction)
  /\ DOMAIN c.targets = DOMAIN c.listing
  /\ \A i \in DOMAIN c.listing :
       /\ c.listing[i].at = EndOf(c.listing, i - 1)
       /\ IsOpcode(c.ver, c.listing[i].opcode)
       /\ IF WordCode(c.ver) THEN InWords(c, c.listing[i]) ELSE InBytes(c, c.listing[i])
       /\ Leads(c.ver, c.listing[i], c.targets[i])
  /\ Len(c.bytes) <= EndOf(c.listing, Len(c.listing))
  /\ c.whole => Len(c.bytes) = EndOf(c.listing, Len(c.listing))

ASSUME ListingsAssumption ==
  \A c \in Codes : c.whole \in BOOLEAN /\ (IsAssembled(c) => Listed(c))

----------------------------------------------------------------------------
(* Properties                                                                *)

(* Reading undoes assembling: each opcode of each version with its argument,   *)
(* at its place, whatever prefixes it needs.  So the tables know which opcodes *)
(* have an argument.                                                           *)
ReadsBack ==
  /\ IsAssembled(code) => /\ Len(read) <= Len(code.listing)
                          /\ \A i \in 1..Len(read) : read[i] = code.listing[i]
  /\ code.whole => /\ pc # "thrown"
                   /\ pc = "done" => Len(read) = Len(code.listing)

(* Code that is cut off inside an instruction throws; what was read before is  *)
(* not taken for the whole.                                                    *)
CutThrows ==
  IsAssembled(code) /\ pc = "done" =>
    \E i \in 0..Len(code.listing) : Len(code.bytes) = EndOf(code.listing, i)

\* In 3.11 bc_disasm prints JUMP_IF_x_OR_POP as absolute, which it is not.
Misprinted(r) == v = <<3, 11>> /\ r.opcode \in {111, 112}

(* A jump leads where the assembler meant it to, in each version: for the      *)
(* block that handleConditionalJump opens and for the disassembly.             *)
JumpsLand ==
  code.whole =>
    \A i \in 1..Len(read) : code.targets[i] # -1 =>
      /\ read[i].opcode \in Kind(v).conditional => offs(v, read[i]) = code.targets[i]
      /\ IsPrintedJump(v, read[i].opcode) /\ ~Misprinted(read[i]) =>
           PrintedTarget(v, read[i]) = code.targets[i]
=============================================================================
