------------------------ MODULE Instructions_proofs ------------------------
(***************************************************************************)
(* For any code objects: the instructions read follow one another, and     *)
(* positions and arguments stay in their types.                            *)
(***************************************************************************)
EXTENDS Listing, SequenceTheorems, WellFoundedInduction, TLAPS

\* Where the last instruction that was read ends.
LastEnd == IF read = <<>> THEN 0 ELSE read[Len(read)].next

\* Inside a call.
InCall ==
  pc \in {"prefixed", "argument"} => start_pos = LastEnd /\ start_pos < pos

\* The lower half of the argument is still free.
HasRoom(n) == n <= 2147483647 - 65535

Room == pc = "argument" => HasRoom(operand)

Reading == code \in Codes /\ TypeOK /\ OneAfterAnother /\ InCall /\ Room

Result == [at : Nat, opcode : Known, operand : Ints, next : Nat]

----------------------------------------------------------------------------
(* The values that a step reads                                              *)

LEMMA KnownOpcode ==
  ASSUME NEW byte
  PROVE  ByteToOpcode(v, byte) \in Known
BY DEF ByteToOpcode, Known

LEMMA PeekByte ==
  ASSUME code \in Codes, source \in Nat, NEW k \in Nat \ {0}, Has(k)
  PROVE  Peek(k) \in Byte
<1>1. code.bytes \in Seq(Byte)
  BY CodesAssumption
<1>2. source + k \in 1..Len(code.bytes)
  BY <1>1, LenProperties DEF Has
<1> QED
  BY <1>1, <1>2, ElementOfSeq DEF Peek

LEMMA IntsBetween ==
  ASSUME NEW n \in Int, -2147483647 - 1 <= n, n <= 2147483647
  PROVE  n \in Ints
<1>1. IntMin \in Int /\ IntMin <= n
  BY SMT DEF IntMin
<1> QED
  BY <1>1, SMT DEF Ints

LEMMA IntsInt ==
  ASSUME NEW n \in Ints
  PROVE  n \in Int /\ -2147483647 - 1 <= n
<1>1. IntMin \in Int
  BY SMT DEF IntMin
<1>2. n \in Int /\ IntMin <= n
  BY <1>1, SMT DEF Ints
<1> QED
  BY <1>2, SMT DEF IntMin

LEMMA HighByte ==
  ASSUME NEW n \in Int
  PROVE  /\ High(n % 256) \in Int
         /\ -128 <= High(n % 256)
         /\ High(n % 256) <= 127
BY SMT DEF High

LEMMA LowerHalf ==
  ASSUME NEW n \in Int
  PROVE  /\ n % 65536 \in Int
         /\ 0 <= n % 65536
         /\ n % 65536 <= 65535
BY SMT

\* The highest byte, the two in the middle and the lowest one.
Joined(h, l, byte) == h * 16777216 + l * 256 + byte

LEMMA JoinedInt ==
  ASSUME NEW h \in Int, -128 <= h, h <= 127,
         NEW l \in Int, 0 <= l, l <= 65535,
         NEW byte \in Int, 0 <= byte, byte <= 255
  PROVE  Joined(h, l, byte) \in Ints
<1>1. /\ h * 16777216 + l * 256 + byte \in Int
      /\ h * 16777216 + l * 256 + byte <= 2147483647
      /\ -2147483647 - 1 <= h * 16777216 + l * 256 + byte
  BY SMT
<1> QED
  BY <1>1, IntsBetween, SMT DEF Joined

\* operand << 8 | byte is an int.
LEMMA Shifted8Int ==
  ASSUME NEW n \in Int, NEW byte \in Byte
  PROVE  Shifted8(n) + byte \in Ints
<1> DEFINE h == High((n \div 65536) % 256)
           l == n % 65536
<1>1. n \div 65536 \in Int
  BY SMT
<1>2. h \in Int /\ -128 <= h /\ h <= 127
  BY <1>1, HighByte, SMT
<1>3. l \in Int /\ 0 <= l /\ l <= 65535
  BY LowerHalf, SMT
<1>4. byte \in Int /\ 0 <= byte /\ byte <= 255
  BY SMT DEF Byte
<1>5. Shifted8(n) + byte = Joined(h, l, byte)
  BY SMT DEF Shifted8, Joined
<1> HIDE DEF h, l
<1> QED
  BY <1>2, <1>3, <1>4, <1>5, JoinedInt, SMT

\* get16() << 16 is one whose lower half is zero.
LEMMA Shifted16Room ==
  ASSUME NEW n \in Int, 0 <= n, n <= 65535
  PROVE  Shifted16(n) \in Ints /\ HasRoom(Shifted16(n))
<1>1. Shifted16(n) \in Int /\ -2147483647 - 1 <= Shifted16(n)
  BY SMT DEF Shifted16
<1>2. Shifted16(n) <= 2147483647 - 65535
  BY SMT DEF Shifted16
<1>3. Shifted16(n) <= 2147483647
  BY <1>1, <1>2, SMT
<1>4. Shifted16(n) \in Ints
  BY <1>1, <1>3, IntsBetween, SMT
<1> QED
  BY <1>2, <1>4, SMT DEF HasRoom

LEMMA Get16Range ==
  ASSUME code \in Codes, source \in Nat, Has(2)
  PROVE  get16(1) \in Int /\ 0 <= get16(1) /\ get16(1) <= 65535
<1>1. Has(1)
  <2>1. Len(code.bytes) \in Nat
    BY CodesAssumption, LenProperties
  <2> QED
    BY <2>1 DEF Has
<1>2. Peek(1) \in Byte /\ Peek(2) \in Byte
  BY <1>1, PeekByte
<1>3. /\ Peek(1) \in Int /\ 0 <= Peek(1) /\ Peek(1) <= 255
      /\ Peek(1 + 1) \in Int /\ 0 <= Peek(1 + 1) /\ Peek(1 + 1) <= 255
  BY <1>2, SMT DEF Byte
<1> QED
  BY <1>3, SMT DEF get16

LEMMA HasLess ==
  ASSUME code \in Codes, source \in Nat, NEW n \in Nat, NEW k \in Nat, k <= n, Has(n)
  PROVE  Has(k)
<1>1. Len(code.bytes) \in Nat
  BY CodesAssumption, LenProperties
<1> QED
  BY <1>1 DEF Has
----------------------------------------------------------------------------
(* A step of a call                                                          *)

Entry == [at |-> start_pos, opcode |-> opcode, operand |-> operand, next |-> pos]

\* What all the steps of a call share.
LEMMA Step ==
  ASSUME Reading, NEW n \in Nat \ {0}, Has(n),
         code' = code, source' = source + n, pos' = pos + n,
         opcode' \in Known, operand' \in Ints,
         start_pos' = LastEnd, start_pos' <= pos,
         pc' \in {"call", "prefixed", "argument"}, Room',
         read' = IF pc' # "call" THEN read ELSE Append(read, Entry')
  PROVE  Reading'
<1>1. /\ source \in Nat /\ pos \in Nat /\ start_pos \in Nat
      /\ pos = source
      /\ read \in Seq(Result)
  BY SMT DEF Reading, TypeOK, OneAfterAnother, Result
<1>2. Len(code.bytes) \in Nat
  BY CodesAssumption, LenProperties DEF Reading
<1>3. /\ source' \in 0..Len(code.bytes)
      /\ pos' \in Nat
      /\ pos' = source'
      /\ pos < pos'
  BY <1>1, <1>2, SMT DEF Has
<1>4. LastEnd \in Nat
  <2>1. CASE read = <<>>
    BY <2>1 DEF LastEnd
  <2>2. CASE read # <<>>
    <3>1. Len(read) \in 1..Len(read)
      BY <1>1, <2>2, EmptySeq, LenProperties
    <3>2. read[Len(read)] \in Result
      BY <1>1, <3>1, ElementOfSeq
    <3> QED
      BY <2>2, <3>2 DEF LastEnd, Result
  <2> QED
    BY <2>1, <2>2
<1>5. start_pos' \in Nat /\ start_pos' < pos'
  BY <1>1, <1>3, <1>4, SMT
<1>6. Known' = Known
  BY DEF Known, v
<1>7. Entry' \in Result
  BY <1>3, <1>5 DEF Entry, Result
<1>8. read' \in Seq(Result)
  BY <1>1, <1>7, AppendProperties
<1>9. TypeOK'
  BY <1>3, <1>5, <1>6, <1>8 DEF TypeOK, Result
<1>10. CASE pc' # "call"
  <2>1. read' = read /\ LastEnd' = LastEnd
    BY <1>10 DEF LastEnd
  <2>2. OneAfterAnother'
    BY <1>3, <1>10, <2>1 DEF Reading, OneAfterAnother
  <2>3. InCall'
    BY <1>5, <2>1 DEF InCall
  <2> QED
    BY <1>9, <2>2, <2>3 DEF Reading
<1>11. CASE pc' = "call"
  <2> DEFINE k == Len(read)
  <2>1. read' = Append(read, Entry')
    BY <1>11
  <2>2. k \in Nat /\ (read = <<>> <=> k = 0)
    BY <1>1, LenProperties, EmptySeq
  <2>3. /\ Len(read') = k + 1
        /\ read'[k + 1] = Entry'
        /\ \A i \in 1..k : read'[i] = read[i]
    BY <1>1, <1>7, <2>1, AppendProperties
  <2>4. read' # <<>>
    BY <1>8, <2>2, <2>3, EmptySeq
  <2>5. /\ Entry'.at = LastEnd
        /\ Entry'.next = pos'
        /\ Entry'.at < Entry'.next
    BY <1>5 DEF Entry
  <2>6. ASSUME NEW i \in 1..(k + 1)
        PROVE  /\ read'[i].at = (IF i = 1 THEN 0 ELSE read'[i - 1].next)
               /\ read'[i].at < read'[i].next
    <3>1. CASE i = k + 1
      <4>1. read'[i] = Entry'
        BY <2>3, <3>1
      <4>2. LastEnd = (IF i = 1 THEN 0 ELSE read'[i - 1].next)
        <5>1. CASE k = 0
          BY <2>2, <3>1, <5>1 DEF LastEnd
        <5>2. CASE k # 0
          <6>1. i # 1 /\ i - 1 = k /\ k \in 1..k
            BY <2>2, <3>1, <5>2
          <6>2. read'[i - 1] = read[k]
            BY <2>3, <6>1
          <6>3. LastEnd = read[k].next
            BY <2>2, <5>2 DEF LastEnd
          <6> QED
            BY <6>1, <6>2, <6>3
        <5> QED
          BY <5>1, <5>2
      <4> QED
        BY <2>5, <4>1, <4>2
    <3>2. CASE i # k + 1
      <4>1. i \in 1..k /\ (i # 1 => i - 1 \in 1..k)
        BY <2>2, <3>2
      <4>2. read'[i] = read[i] /\ (i # 1 => read'[i - 1] = read[i - 1])
        BY <2>3, <4>1
      <4>3. /\ read[i].at = (IF i = 1 THEN 0 ELSE read[i - 1].next)
            /\ read[i].at < read[i].next
        BY <4>1 DEF Reading, OneAfterAnother
      <4> QED
        BY <4>2, <4>3
    <3> QED
      BY <3>1, <3>2
  <2>7. read'[Len(read')].next = pos'
    BY <2>3, <2>5
  <2>8. OneAfterAnother'
    BY <1>3, <1>11, <2>3, <2>4, <2>6, <2>7 DEF OneAfterAnother
  <2>9. InCall'
    BY <1>11 DEF InCall
  <2> QED
    BY <1>9, <2>8, <2>9 DEF Reading
<1> QED
  BY <1>10, <1>11

\* What a step starts from.
LEMMA Here ==
  ASSUME Reading, pc \in {"call", "prefixed", "argument"}
  PROVE  /\ code \in Codes
         /\ source \in Nat /\ pos = source /\ pos \in Nat
         /\ pc = "call" => pos = LastEnd
         /\ pc # "call" => start_pos = LastEnd /\ start_pos <= pos
BY DEF Reading, TypeOK, OneAfterAnother, InCall, LastEnd

\* An argument of two bytes is added to one whose lower half is zero.
LEMMA LowerArgument ==
  ASSUME NEW m \in Ints, HasRoom(m),
         NEW n \in Int, 0 <= n, n <= 65535
  PROVE  m + n \in Ints
<1>1. m \in Int /\ -2147483647 - 1 <= m
  BY IntsInt, SMT
<1>2. m + n \in Int /\ -2147483647 - 1 <= m + n /\ m + n <= 2147483647
  BY <1>1, SMT DEF HasRoom
<1> QED
  BY <1>2, IntsBetween, SMT

LEMMA ByteInt ==
  ASSUME NEW n \in Byte
  PROVE  n \in Ints
<1>1. n \in Int /\ -2147483647 - 1 <= n /\ n <= 2147483647
  BY SMT DEF Byte
<1> QED
  BY <1>1, IntsBetween, SMT

LEMMA ReadingInit == Init => Reading
<1> SUFFICES ASSUME Init PROVE Reading
  OBVIOUS
<1>1. Len(code.bytes) \in Nat /\ code \in Codes
  BY CodesAssumption, LenProperties DEF Init
<1>2. 0 \in Ints
  BY ByteInt, SMT DEF Byte
<1>3. PYC_INVALID_OPCODE \in Known
  BY DEF Known
<1>4. read = <<>> /\ read \in Seq(Result) /\ Len(read) = 0
  BY EmptySeq, LenProperties DEF Init
<1>5. TypeOK
  BY <1>1, <1>2, <1>3, <1>4 DEF Init, TypeOK, Result
<1>6. OneAfterAnother
  BY <1>4 DEF Init, OneAfterAnother
<1> QED
  BY <1>1, <1>5, <1>6 DEF Init, Reading, InCall, Room

LEMMA FirstWordReads == ASSUME Reading, FirstWord PROVE Reading'
<1> USE DEF FirstWord, Calls, Advance, Go, Entry
<1>1. pc = "call" /\ Has(2)
  OBVIOUS
<1>2. opcode' \in Known
  BY KnownOpcode
<1>3. operand' \in Ints
  BY <1>1, Here, PeekByte, ByteInt
<1>4. pc' \in {"call", "prefixed"}
  BY DEF AfterWord
<1>5. start_pos' = LastEnd /\ start_pos' <= pos
  BY <1>1, Here
<1> QED
  BY <1>1, <1>2, <1>3, <1>4, <1>5, Step DEF Room

LEMMA NextWordReads == ASSUME Reading, NextWord PROVE Reading'
<1> USE DEF NextWord, Advance, Go, Entry
<1>1. pc = "prefixed" /\ Has(2)
  OBVIOUS
<1>2. opcode' \in Known
  BY KnownOpcode
<1>3. operand' \in Ints
  <2>1. operand \in Ints
    BY DEF Reading, TypeOK
  <2>2. operand \in Int
    BY <2>1, IntsInt, SMT
  <2>3. Peek(2) \in Byte
    BY <1>1, Here, PeekByte
  <2> QED
    BY <2>2, <2>3, Shifted8Int
<1>4. pc' \in {"call", "prefixed"}
  BY DEF AfterWord
<1>5. start_pos' = LastEnd /\ start_pos' <= pos
  BY <1>1, Here
<1> QED
  BY <1>1, <1>2, <1>3, <1>4, <1>5, Step DEF Room

LEMMA OpcodeReads == ASSUME Reading, Opcode PROVE Reading'
<1> USE DEF Opcode, Calls, Advance, Go, Entry
<1>1. pc = "call" /\ ~atEof
  OBVIOUS
<1>2. Has(1)
  <2>1. source \in 0..Len(code.bytes) /\ Len(code.bytes) \in Nat
    BY CodesAssumption, LenProperties DEF Reading, TypeOK
  <2> QED
    BY <1>1, <2>1 DEF Has, atEof
<1>3. opcode' \in Known
  BY KnownOpcode
<1>4. operand' \in Ints /\ Room'
  <2>1. operand' = 0 /\ 0 \in Ints
    BY ByteInt, SMT DEF Byte
  <2>2. HasRoom(0)
    BY SMT DEF HasRoom
  <2> QED
    BY <2>1, <2>2 DEF Room
<1>5. pc' \in {"call", "prefixed", "argument"}
  BY DEF AfterOpcode
<1>6. start_pos' = LastEnd /\ start_pos' <= pos
  BY <1>1, Here
<1> QED
  BY <1>2, <1>3, <1>4, <1>5, <1>6, Step

LEMMA PrefixReads == ASSUME Reading, Prefix PROVE Reading'
<1> USE DEF Prefix, Advance, Go, Entry
<1>1. pc = "prefixed" /\ Has(3) /\ code \in Codes /\ source \in Nat
  BY Here
<1>2. Has(2)
  BY <1>1, HasLess
<1>3. opcode' \in Known
  BY KnownOpcode
<1>4. operand' \in Ints /\ Room'
  <2>1. operand' = Shifted16(get16(1))
    OBVIOUS
  <2>2. Shifted16(get16(1)) \in Ints /\ HasRoom(Shifted16(get16(1)))
    BY <1>1, <1>2, Get16Range, Shifted16Room, SMT
  <2> QED
    BY <2>1, <2>2 DEF Room
<1>5. pc' \in {"call", "argument"}
  BY DEF AfterOpcode
<1>6. start_pos' = LastEnd /\ start_pos' <= pos
  BY <1>1, Here
<1> QED
  BY <1>1, <1>3, <1>4, <1>5, <1>6, Step

LEMMA ArgumentReads == ASSUME Reading, Argument PROVE Reading'
<1> USE DEF Argument, Advance, Go, Entry
<1>1. pc = "argument" /\ Has(2) /\ code \in Codes /\ source \in Nat
  BY Here
<1>2. opcode' \in Known
  BY DEF Reading, TypeOK
<1>3. operand' \in Ints
  <2>1. operand \in Ints /\ HasRoom(operand)
    BY <1>1, SMT DEF Reading, TypeOK, Room
  <2>2. operand' = operand + get16(1)
    OBVIOUS
  <2> QED
    BY <1>1, <2>1, <2>2, Get16Range, LowerArgument, SMT
<1>4. start_pos' = LastEnd /\ start_pos' <= pos
  BY <1>1, Here
<1> QED
  BY <1>1, <1>2, <1>3, <1>4, Step DEF Room

LEMMA ReadingStays == ASSUME Reading, Throw \/ End \/ UNCHANGED vars PROVE Reading'
<1>1. UNCHANGED <<code, source, pos, start_pos, opcode, operand, read>>
  BY DEF Throw, End, vars
<1>2. Known' = Known /\ LastEnd' = LastEnd
  BY <1>1 DEF Known, v, LastEnd
<1>3. CASE Throw
  BY <1>1, <1>2, <1>3
     DEF Throw, Reading, TypeOK, OneAfterAnother, InCall, Room, Result
<1>4. CASE End
  <2>1. pos = Len(code.bytes)
    <3>1. Len(code.bytes) \in Nat
      BY CodesAssumption, LenProperties DEF Reading
    <3> QED
      BY <1>4, <3>1 DEF End, atEof, Reading, TypeOK, OneAfterAnother
  <2> QED
    BY <1>1, <1>2, <1>4, <2>1
       DEF End, Reading, TypeOK, OneAfterAnother, InCall, Room, Result
<1>5. CASE UNCHANGED vars
  BY <1>2, <1>5 DEF vars, Reading, TypeOK, OneAfterAnother, InCall, Room, Result
<1> QED
  BY <1>3, <1>4, <1>5

LEMMA ReadingNext == Reading /\ [Next]_vars => Reading'
BY FirstWordReads, NextWordReads, OpcodeReads, PrefixReads, ArgumentReads, ReadingStays, Zenon
   DEF Next

LEMMA ReadingAlways == Spec => []Reading
BY ReadingInit, ReadingNext, PTL DEF Spec

----------------------------------------------------------------------------
(* The tables                                                                *)

\* What the tables say of opcodes: which ones have an argument, and that the
\* prefix is one opcode, with an argument.
Splits(w, map) ==
  /\ ~WordCode(w) => /\ \A op \in map.plain : op < HAVE_ARGUMENT(w)
                     /\ \A op \in map.arg : op >= HAVE_ARGUMENT(w)
  /\ map.extended \subseteq {EXTENDED_ARG(w)}
  /\ HasPrefixes(w) => EXTENDED_ARG(w) \in map.extended \cap map.arg

LEMMA TablesSplit == ASSUME NEW w \in Versions PROVE Splits(w, python_map(w))
<1> USE DEF Map, Bytes, WordCode, HasPrefixes, From, HAVE_ARGUMENT, EXTENDED_ARG
<1>1. CASE w = <<1, 0>>
  <2>1. python_map(w) = python_1_0_map
    BY <1>1 DEF python_map
  <2> QED
    BY <1>1, <2>1 DEF Splits, python_1_0_map
<1>2. CASE w = <<1, 1>>
  <2>1. python_map(w) = python_1_1_map
    BY <1>2 DEF python_map
  <2> QED
    BY <1>2, <2>1 DEF Splits, python_1_1_map
<1>3. CASE w = <<1, 3>>
  <2>1. python_map(w) = python_1_3_map
    BY <1>3 DEF python_map
  <2> QED
    BY <1>3, <2>1 DEF Splits, python_1_3_map
<1>4. CASE w = <<1, 4>>
  <2>1. python_map(w) = python_1_4_map
    BY <1>4 DEF python_map
  <2> QED
    BY <1>4, <2>1 DEF Splits, python_1_4_map
<1>5. CASE w = <<1, 5>>
  <2>1. python_map(w) = python_1_5_map
    BY <1>5 DEF python_map
  <2> QED
    BY <1>5, <2>1 DEF Splits, python_1_5_map
<1>6. CASE w = <<1, 6>>
  <2>1. python_map(w) = python_1_6_map
    BY <1>6 DEF python_map
  <2> QED
    BY <1>6, <2>1 DEF Splits, python_1_6_map
<1>7. CASE w = <<2, 0>>
  <2>1. python_map(w) = python_2_0_map
    BY <1>7 DEF python_map
  <2> QED
    BY <1>7, <2>1 DEF Splits, python_2_0_map
<1>8. CASE w = <<2, 1>>
  <2>1. python_map(w) = python_2_1_map
    BY <1>8 DEF python_map
  <2> QED
    BY <1>8, <2>1 DEF Splits, python_2_1_map
<1>9. CASE w = <<2, 2>>
  <2>1. python_map(w) = python_2_2_map
    BY <1>9 DEF python_map
  <2> QED
    BY <1>9, <2>1 DEF Splits, python_2_2_map
<1>10. CASE w = <<2, 3>>
  <2>1. python_map(w) = python_2_3_map
    BY <1>10 DEF python_map
  <2> QED
    BY <1>10, <2>1 DEF Splits, python_2_3_map
<1>11. CASE w = <<2, 4>>
  <2>1. python_map(w) = python_2_4_map
    BY <1>11 DEF python_map
  <2> QED
    BY <1>11, <2>1 DEF Splits, python_2_4_map
<1>12. CASE w = <<2, 5>>
  <2>1. python_map(w) = python_2_5_map
    BY <1>12 DEF python_map
  <2> QED
    BY <1>12, <2>1 DEF Splits, python_2_5_map
<1>13. CASE w = <<2, 6>>
  <2>1. python_map(w) = python_2_6_map
    BY <1>13 DEF python_map
  <2> QED
    BY <1>13, <2>1 DEF Splits, python_2_6_map
<1>14. CASE w = <<2, 7>>
  <2>1. python_map(w) = python_2_7_map
    BY <1>14 DEF python_map
  <2> QED
    BY <1>14, <2>1 DEF Splits, python_2_7_map
<1>15. CASE w = <<3, 0>>
  <2>1. python_map(w) = python_3_0_map
    BY <1>15 DEF python_map
  <2> QED
    BY <1>15, <2>1 DEF Splits, python_3_0_map
<1>16. CASE w = <<3, 1>>
  <2>1. python_map(w) = python_3_1_map
    BY <1>16 DEF python_map
  <2> QED
    BY <1>16, <2>1 DEF Splits, python_3_1_map
<1>17. CASE w = <<3, 2>>
  <2>1. python_map(w) = python_3_2_map
    BY <1>17 DEF python_map
  <2> QED
    BY <1>17, <2>1 DEF Splits, python_3_2_map
<1>18. CASE w = <<3, 3>>
  <2>1. python_map(w) = python_3_3_map
    BY <1>18 DEF python_map
  <2> QED
    BY <1>18, <2>1 DEF Splits, python_3_3_map
<1>19. CASE w = <<3, 4>>
  <2>1. python_map(w) = python_3_4_map
    BY <1>19 DEF python_map
  <2> QED
    BY <1>19, <2>1 DEF Splits, python_3_4_map
<1>20. CASE w = <<3, 5>>
  <2>1. python_map(w) = python_3_5_map
    BY <1>20 DEF python_map
  <2> QED
    BY <1>20, <2>1 DEF Splits, python_3_5_map
<1>21. CASE w = <<3, 6>>
  <2>1. python_map(w) = python_3_6_map
    BY <1>21 DEF python_map
  <2> QED
    BY <1>21, <2>1 DEF Splits, python_3_6_map
<1>22. CASE w = <<3, 7>>
  <2>1. python_map(w) = python_3_7_map
    BY <1>22 DEF python_map
  <2> QED
    BY <1>22, <2>1 DEF Splits, python_3_7_map
<1>23. CASE w = <<3, 8>>
  <2>1. python_map(w) = python_3_8_map
    BY <1>23 DEF python_map
  <2> QED
    BY <1>23, <2>1 DEF Splits, python_3_8_map
<1>24. CASE w = <<3, 9>>
  <2>1. python_map(w) = python_3_9_map
    BY <1>24 DEF python_map
  <2> QED
    BY <1>24, <2>1 DEF Splits, python_3_9_map
<1>25. CASE w = <<3, 10>>
  <2>1. python_map(w) = python_3_10_map
    BY <1>25 DEF python_map
  <2> QED
    BY <1>25, <2>1 DEF Splits, python_3_10_map
<1>26. CASE w = <<3, 11>>
  <2>1. python_map(w) = python_3_11_map
    BY <1>26 DEF python_map
  <2> QED
    BY <1>26, <2>1 DEF Splits, python_3_11_map
<1>27. CASE w = <<3, 12>>
  <2>1. python_map(w) = python_3_12_map
    BY <1>27 DEF python_map
  <2> QED
    BY <1>27, <2>1 DEF Splits, python_3_12_map
<1>28. CASE w = <<3, 13>>
  <2>1. python_map(w) = python_3_13_map
    BY <1>28 DEF python_map
  <2> QED
    BY <1>28, <2>1 DEF Splits, python_3_13_map
<1> HIDE DEF Map, Bytes, WordCode, HasPrefixes, From, HAVE_ARGUMENT, EXTENDED_ARG
<1> QED
  BY <1>1, <1>2, <1>3, <1>4, <1>5, <1>6, <1>7, <1>8, <1>9, <1>10, <1>11,
     <1>12, <1>13, <1>14, <1>15, <1>16, <1>17, <1>18, <1>19, <1>20, <1>21,
     <1>22, <1>23, <1>24, <1>25, <1>26, <1>27, <1>28 DEF Versions

\* What the tables say of jumps, against what dis says.
Agrees(w, jumps) ==
  /\ \A op \in hasjrel(w) :
       /\ op \notin jumps.backward
       /\ op \in jumps.absolute => w = <<3, 11>> /\ op \in {111, 112}
       /\ op \in jumps.conditional => op \in jumps.forward \/ SinceIn(w, 3, 11)
  /\ \A op \in hasjback(w) :
       op \notin jumps.forward \cup jumps.absolute \cup jumps.conditional
  /\ \A op \in hasjabs(w) :
       op \notin jumps.forward \cup jumps.backward /\ ~SinceIn(w, 3, 11)

LEMMA TablesAgree == ASSUME NEW w \in Versions, ~From(w, 3, 12) PROVE Agrees(w, Kind(w))
<1> USE DEF Kind, Map, Jumps, SinceIn, From, Between, JumpsToEarly, hasjrel, hasjback, hasjabs
<1>1. CASE w = <<1, 0>>
  <2>1. python_map(w) = python_1_0_map
    BY <1>1 DEF python_map
  <2> QED
    BY <1>1, <2>1 DEF Agrees, python_1_0_map
<1>2. CASE w = <<1, 1>>
  <2>1. python_map(w) = python_1_1_map
    BY <1>2 DEF python_map
  <2> QED
    BY <1>2, <2>1 DEF Agrees, python_1_1_map
<1>3. CASE w = <<1, 3>>
  <2>1. python_map(w) = python_1_3_map
    BY <1>3 DEF python_map
  <2> QED
    BY <1>3, <2>1 DEF Agrees, python_1_3_map
<1>4. CASE w = <<1, 4>>
  <2>1. python_map(w) = python_1_4_map
    BY <1>4 DEF python_map
  <2> QED
    BY <1>4, <2>1 DEF Agrees, python_1_4_map
<1>5. CASE w = <<1, 5>>
  <2>1. python_map(w) = python_1_5_map
    BY <1>5 DEF python_map
  <2> QED
    BY <1>5, <2>1 DEF Agrees, python_1_5_map
<1>6. CASE w = <<1, 6>>
  <2>1. python_map(w) = python_1_6_map
    BY <1>6 DEF python_map
  <2> QED
    BY <1>6, <2>1 DEF Agrees, python_1_6_map
<1>7. CASE w = <<2, 0>>
  <2>1. python_map(w) = python_2_0_map
    BY <1>7 DEF python_map
  <2> QED
    BY <1>7, <2>1 DEF Agrees, python_2_0_map
<1>8. CASE w = <<2, 1>>
  <2>1. python_map(w) = python_2_1_map
    BY <1>8 DEF python_map
  <2> QED
    BY <1>8, <2>1 DEF Agrees, python_2_1_map
<1>9. CASE w = <<2, 2>>
  <2>1. python_map(w) = python_2_2_map
    BY <1>9 DEF python_map
  <2> QED
    BY <1>9, <2>1 DEF Agrees, python_2_2_map
<1>10. CASE w = <<2, 3>>
  <2>1. python_map(w) = python_2_3_map
    BY <1>10 DEF python_map
  <2> QED
    BY <1>10, <2>1 DEF Agrees, python_2_3_map
<1>11. CASE w = <<2, 4>>
  <2>1. python_map(w) = python_2_4_map
    BY <1>11 DEF python_map
  <2> QED
    BY <1>11, <2>1 DEF Agrees, python_2_4_map
<1>12. CASE w = <<2, 5>>
  <2>1. python_map(w) = python_2_5_map
    BY <1>12 DEF python_map
  <2> QED
    BY <1>12, <2>1 DEF Agrees, python_2_5_map
<1>13. CASE w = <<2, 6>>
  <2>1. python_map(w) = python_2_6_map
    BY <1>13 DEF python_map
  <2> QED
    BY <1>13, <2>1 DEF Agrees, python_2_6_map
<1>14. CASE w = <<2, 7>>
  <2>1. python_map(w) = python_2_7_map
    BY <1>14 DEF python_map
  <2> QED
    BY <1>14, <2>1 DEF Agrees, python_2_7_map
<1>15. CASE w = <<3, 0>>
  <2>1. python_map(w) = python_3_0_map
    BY <1>15 DEF python_map
  <2> QED
    BY <1>15, <2>1 DEF Agrees, python_3_0_map
<1>16. CASE w = <<3, 1>>
  <2>1. python_map(w) = python_3_1_map
    BY <1>16 DEF python_map
  <2> QED
    BY <1>16, <2>1 DEF Agrees, python_3_1_map
<1>17. CASE w = <<3, 2>>
  <2>1. python_map(w) = python_3_2_map
    BY <1>17 DEF python_map
  <2> QED
    BY <1>17, <2>1 DEF Agrees, python_3_2_map
<1>18. CASE w = <<3, 3>>
  <2>1. python_map(w) = python_3_3_map
    BY <1>18 DEF python_map
  <2> QED
    BY <1>18, <2>1 DEF Agrees, python_3_3_map
<1>19. CASE w = <<3, 4>>
  <2>1. python_map(w) = python_3_4_map
    BY <1>19 DEF python_map
  <2> QED
    BY <1>19, <2>1 DEF Agrees, python_3_4_map
<1>20. CASE w = <<3, 5>>
  <2>1. python_map(w) = python_3_5_map
    BY <1>20 DEF python_map
  <2> QED
    BY <1>20, <2>1 DEF Agrees, python_3_5_map
<1>21. CASE w = <<3, 6>>
  <2>1. python_map(w) = python_3_6_map
    BY <1>21 DEF python_map
  <2> QED
    BY <1>21, <2>1 DEF Agrees, python_3_6_map
<1>22. CASE w = <<3, 7>>
  <2>1. python_map(w) = python_3_7_map
    BY <1>22 DEF python_map
  <2> QED
    BY <1>22, <2>1 DEF Agrees, python_3_7_map
<1>23. CASE w = <<3, 8>>
  <2>1. python_map(w) = python_3_8_map
    BY <1>23 DEF python_map
  <2> QED
    BY <1>23, <2>1 DEF Agrees, python_3_8_map
<1>24. CASE w = <<3, 9>>
  <2>1. python_map(w) = python_3_9_map
    BY <1>24 DEF python_map
  <2> QED
    BY <1>24, <2>1 DEF Agrees, python_3_9_map
<1>25. CASE w = <<3, 10>>
  <2>1. python_map(w) = python_3_10_map
    BY <1>25 DEF python_map
  <2> QED
    BY <1>25, <2>1 DEF Agrees, python_3_10_map
<1>26. CASE w = <<3, 11>>
  <2>1. python_map(w) = python_3_11_map
    BY <1>26 DEF python_map
  <2> QED
    BY <1>26, <2>1 DEF Agrees, python_3_11_map
<1> HIDE DEF Kind, Map, Jumps, SinceIn, Between, JumpsToEarly, hasjrel, hasjback, hasjabs
<1> QED
  BY <1>1, <1>2, <1>3, <1>4, <1>5, <1>6, <1>7, <1>8, <1>9, <1>10, <1>11,
     <1>12, <1>13, <1>14, <1>15, <1>16, <1>17, <1>18, <1>19, <1>20, <1>21,
     <1>22, <1>23, <1>24, <1>25, <1>26 DEF Versions, From

----------------------------------------------------------------------------
(* Code with a listing                                                       *)

\* The instruction that comes next.
Now == code.listing[Len(read) + 1]

Follows ==
  /\ Len(read) <= Len(code.listing)
  /\ \A i \in 1..Len(read) : read[i] = code.listing[i]
  /\ code.whole => pc # "thrown"

\* Some of the prefixes have been read.
MidWords ==
  \E k \in 1..(Words(Now) - 1) :
    pc = "prefixed" /\ pos = Now.at + 2 * k /\ operand = Digits(code, Now, k)

MidBytes ==
  \/ pc = "prefixed" /\ pos = Now.at + 1 /\ Now.next = Now.at + 6
  \/ /\ pc = "argument"
     /\ pos = Now.next - 2
     /\ opcode = Now.opcode
     /\ \/ Now.next = Now.at + 3 /\ operand = 0
        \/ Now.next = Now.at + 6 /\ operand = Shifted16(Half(code, Now.at + 1))

Midway ==
  pc \in {"prefixed", "argument"} =>
    /\ Len(read) < Len(code.listing)
    /\ start_pos = Now.at
    /\ IF WordCode(v) THEN MidWords ELSE MidBytes

\* The listing is followed.
Following == Reading /\ (IsAssembled(code) => Follows /\ Midway)

LEMMA LeastExists ==
  ASSUME NEW S, S \subseteq Nat, S # {}
  PROVE  \E q \in S : \A r \in S : q <= r
<1>1. PICK q \in S : \A r \in S : ~(<<r, q>> \in OpToRel(<, Nat))
  BY WFMin, NatLessThanWellFounded
<1>2. \A r \in S : ~(r < q)
  BY <1>1 DEF OpToRel
<1> QED
  BY <1>2

\* An instruction has bytes.
LEMMA Lengths ==
  ASSUME NEW c, Listed(c), NEW i \in 1..Len(c.listing)
  PROVE  /\ c.listing[i] \in Instruction
         /\ c.listing[i].at = EndOf(c.listing, i - 1)
         /\ c.listing[i].at < c.listing[i].next
<1> DEFINE r == c.listing[i]
<1>1. r \in Instruction /\ r.at = EndOf(c.listing, i - 1)
  BY ElementOfSeq, LenProperties DEF Listed
<1>2. r.at \in Nat /\ r.next \in Nat
  BY <1>1 DEF Instruction
<1>3. IF WordCode(c.ver) THEN InWords(c, r) ELSE InBytes(c, r)
  BY LenProperties DEF Listed
<1> HIDE DEF r
<1>4. r.next \in {r.at + 2 * k : k \in 1..4} \/ r.next \in {r.at + 1, r.at + 3, r.at + 6}
  BY <1>3 DEF InWords, InBytes
<1>5. r.at < r.next
  BY <1>2, <1>4
<1> QED
  BY <1>1, <1>5 DEF r

\* No instruction goes on behind the end of the last one.
LEMMA EndsGrow ==
  ASSUME NEW c, Listed(c), NEW i \in 0..Len(c.listing)
  PROVE  /\ EndOf(c.listing, i) \in Nat
         /\ EndOf(c.listing, i) <= EndOf(c.listing, Len(c.listing))
<1> DEFINE L == c.listing
           n == Len(L)
           Over == {d \in 0..n : ~(EndOf(L, d) <= EndOf(L, n))}
<1>1. L \in Seq(Instruction) /\ n \in Nat /\ DOMAIN L = 1..n
  BY LenProperties DEF Listed
<1>2. ASSUME NEW j \in 0..n
      PROVE  EndOf(L, j) \in Nat
  <2>1. CASE j = 0
    BY <2>1 DEF EndOf
  <2>2. CASE j # 0
    <3>1. j \in 1..Len(c.listing)
      BY <1>1, <2>2
    <3> QED
      BY <2>2, <3>1, Lengths DEF EndOf, Instruction
  <2> QED
    BY <2>1, <2>2
<1>3. Over = {}
  <2> DEFINE Rest == {n - d : d \in Over}
  <2>1. SUFFICES ASSUME Over # {} PROVE FALSE
    OBVIOUS
  <2>2. Rest \subseteq Nat /\ Rest # {}
    <3>1. \A d \in Over : d \in 0..n
      OBVIOUS
    <3>2. \A d \in 0..n : n - d \in Nat
      BY <1>1
    <3> HIDE DEF Over, n
    <3> QED
      BY <2>1, <3>1, <3>2
  <2>3. PICK q \in Rest : \A r \in Rest : q <= r
    BY <2>2, LeastExists
  <2>4. PICK d \in Over : q = n - d
    OBVIOUS
  <2>5. d \in 0..n /\ ~(EndOf(L, d) <= EndOf(L, n))
    OBVIOUS
  <2> HIDE DEF Over, Rest, L, n
  <2>6. d # n
    BY <1>1, <1>2, <2>5
  <2>7. d + 1 \in 0..n /\ d + 1 \in 1..n
    BY <1>1, <2>5, <2>6
  <2>8. EndOf(L, d) < EndOf(L, d + 1)
    <3>1. /\ c.listing[d + 1].at = EndOf(c.listing, d + 1 - 1)
          /\ c.listing[d + 1].at < c.listing[d + 1].next
      <4>1. d + 1 \in 1..Len(c.listing)
        BY <2>7 DEF L, n
      <4>2. d \in Int
        BY <1>1, <2>5
      <4> QED
        BY <4>1, <4>2, Lengths
    <3>2. EndOf(L, d + 1) = L[d + 1].next /\ d + 1 - 1 = d
      BY <2>5, <1>1 DEF EndOf
    <3> QED
      BY <3>1, <3>2 DEF L
  <2>9. d + 1 \in Over
    BY <1>1, <1>2, <2>5, <2>7, <2>8 DEF Over
  <2>10. n - (d + 1) \in Rest /\ q <= n - (d + 1)
    BY <2>3, <2>9 DEF Rest
  <2> QED
    BY <1>1, <2>4, <2>5, <2>10
<1> QED
  BY <1>2, <1>3

\* What the next instruction is, before it ends.
LEMMA NowIs ==
  ASSUME Following, IsAssembled(code)
  PROVE  /\ Listed(code)
         /\ Len(read) \in Nat /\ Len(code.listing) \in Nat /\ Len(code.bytes) \in Nat
         /\ LastEnd = EndOf(code.listing, Len(read))
         /\ Len(read) < Len(code.listing) =>
              /\ Now \in Instruction
              /\ Now.at = LastEnd
              /\ Now.at < Now.next
              /\ IsOpcode(v, Now.opcode)
              /\ IF WordCode(v) THEN InWords(code, Now) ELSE InBytes(code, Now)
              /\ code.whole => Now.next <= Len(code.bytes)
<1> DEFINE L == code.listing
           n == Len(read)
<1>1. Listed(code) /\ Len(code.bytes) \in Nat
  BY CodesAssumption, ListingsAssumption, LenProperties DEF Following, Reading
<1>2. L \in Seq(Instruction) /\ Len(L) \in Nat /\ DOMAIN L = 1..Len(L)
  BY <1>1, LenProperties DEF Listed
<1>3. n \in Nat /\ (read = <<>> <=> n = 0)
  BY LenProperties, EmptySeq DEF Following, Reading, TypeOK
<1>4. n <= Len(L) /\ \A i \in 1..n : read[i] = L[i]
  BY DEF Following, Follows
<1>5. LastEnd = EndOf(L, n)
  BY <1>3, <1>4 DEF LastEnd, EndOf
<1>6. ASSUME n < Len(L)
      PROVE  /\ Now \in Instruction
             /\ Now.at = LastEnd
             /\ Now.at < Now.next
             /\ IsOpcode(v, Now.opcode)
             /\ IF WordCode(v) THEN InWords(code, Now) ELSE InBytes(code, Now)
             /\ code.whole => Now.next <= Len(code.bytes)
  <2>1. n + 1 \in DOMAIN L /\ n + 1 - 1 = n /\ n + 1 \in 0..Len(L) /\ n + 1 # 0
    BY <1>2, <1>3, <1>6
  <2>2. Now = L[n + 1]
    BY DEF Now
  <2>3. Now \in Instruction /\ Now.at = LastEnd /\ Now.at < Now.next
    <3>1. n + 1 \in 1..Len(L)
      BY <1>2, <2>1
    <3> QED
      BY <1>1, <1>5, <2>1, <2>2, <3>1, Lengths
  <2>4. /\ IsOpcode(v, Now.opcode)
        /\ IF WordCode(v) THEN InWords(code, Now) ELSE InBytes(code, Now)
    BY <1>1, <2>1, <2>2 DEF Listed, v
  <2>5. Now.next = EndOf(L, n + 1)
    BY <2>1, <2>2 DEF EndOf
  <2>6. Now.next <= EndOf(L, Len(L))
    BY <1>1, <2>1, <2>5, EndsGrow
  <2> QED
    BY <1>1, <2>3, <2>4, <2>6 DEF Listed
<1> QED
  BY <1>1, <1>2, <1>3, <1>5, <1>6

\* At the beginning of an instruction.
LEMMA NowBegins ==
  ASSUME Following, IsAssembled(code), pc = "call", ~atEof
  PROVE  Len(read) < Len(code.listing) /\ Now.at = pos /\ pos = source /\ pos \in Nat
<1>1. pos = source /\ pos \in Nat /\ pos = LastEnd /\ source \in 0..Len(code.bytes)
  BY DEF Following, Reading, TypeOK, OneAfterAnother, LastEnd
<1>2. Len(read) <= Len(code.listing)
  BY DEF Following, Follows
<1>3. Len(read) # Len(code.listing)
  <2>1. Len(code.bytes) <= EndOf(code.listing, Len(code.listing))
    BY NowIs DEF Listed
  <2>2. source # Len(code.bytes)
    BY DEF Calls, atEof
  <2> QED
    BY <1>1, <2>1, <2>2, NowIs
<1> QED
  BY <1>1, <1>2, <1>3, NowIs

\* A step that stays inside the instruction.
LEMMA GoesOn ==
  ASSUME Following, Reading', code' = code, read' = read,
         pc' \in {"prefixed", "argument"},
         IsAssembled(code) => /\ Len(read) < Len(code.listing)
                              /\ start_pos' = Now.at
                              /\ IF WordCode(v) THEN MidWords' ELSE MidBytes'
  PROVE  Following'
<1>1. v' = v /\ Now' = Now
  BY DEF v, Now
<1> QED
  BY <1>1 DEF Following, Follows, Midway

\* A step that ends it.
LEMMA Returns ==
  ASSUME Following, Reading', code' = code, pc' = "call", read' = Append(read, Entry'),
         IsAssembled(code) => /\ Len(read) < Len(code.listing)
                              /\ start_pos' = Now.at
                              /\ opcode' = Now.opcode
                              /\ operand' = Now.operand
                              /\ pos' = Now.next
  PROVE  Following'
<1> SUFFICES ASSUME IsAssembled(code) PROVE Follows'
  BY DEF Following, Midway
<1> DEFINE n == Len(read)
<1>1. read \in Seq(Result) /\ n \in Nat
  BY LenProperties DEF Following, Reading, TypeOK, Result
<1>2. Now \in Instruction
  BY NowIs
<1>3. Entry' = Now
  BY <1>2 DEF Entry, Instruction
<1>4. /\ Len(read') = n + 1
      /\ read'[n + 1] = Now
      /\ \A i \in 1..n : read'[i] = read[i]
  <2>1. read \in Seq(Result \cup {Now})
    BY <1>1, SeqMonotonic
  <2> QED
    BY <1>3, <2>1, AppendProperties
<1>5. /\ n < Len(code.listing)
      /\ \A i \in 1..n : read[i] = code.listing[i]
      /\ Now = code.listing[n + 1]
      /\ Len(code.listing) \in Nat
  BY NowIs DEF Following, Follows, Now
<1> HIDE DEF n
<1>6. \A i \in 1..(n + 1) : read'[i] = code.listing[i]
  BY <1>1, <1>4, <1>5
<1> QED
  BY <1>1, <1>4, <1>5, <1>6 DEF Follows

\* The byte of an opcode is read as that opcode, and known to have an argument.
LEMMA OpcodeIsRead ==
  ASSUME NEW w \in Versions, NEW op \in Int, IsOpcode(w, op)
  PROVE  /\ ByteToOpcode(w, op) = op
         /\ ~IsExtendedArg(w, op)
         /\ ~WordCode(w) => (HasArg(w, op) <=> op >= HAVE_ARGUMENT(w))
<1>1. op \in python_map(w).plain \cup python_map(w).arg /\ op # EXTENDED_ARG(w)
  BY DEF IsOpcode
<1>2. Splits(w, python_map(w))
  BY TablesSplit
<1>3. ByteToOpcode(w, op) = op
  BY <1>1 DEF ByteToOpcode
<1>4. ~IsExtendedArg(w, op)
  BY <1>1, <1>2 DEF Splits, IsExtendedArg
<1>5. ASSUME ~WordCode(w)
      PROVE  HasArg(w, op) <=> op >= HAVE_ARGUMENT(w)
  <2>1. op \in python_map(w).arg => op >= HAVE_ARGUMENT(w)
    BY <1>2, <1>5 DEF Splits
  <2>2. op \in python_map(w).plain => op < HAVE_ARGUMENT(w)
    BY <1>2, <1>5 DEF Splits
  <2>3. op \in python_map(w).plain => ~(op >= HAVE_ARGUMENT(w))
    <3>1. HAVE_ARGUMENT(w) \in Int
      BY DEF HAVE_ARGUMENT
    <3> QED
      BY <2>2, <3>1
  <2> QED
    BY <1>1, <2>1, <2>3 DEF HasArg
<1> QED
  BY <1>3, <1>4, <1>5

LEMMA PrefixIsRead ==
  ASSUME NEW w \in Versions, HasPrefixes(w)
  PROVE  /\ ByteToOpcode(w, EXTENDED_ARG(w)) = EXTENDED_ARG(w)
         /\ IsExtendedArg(w, EXTENDED_ARG(w))
BY TablesSplit DEF Splits, ByteToOpcode, IsExtendedArg

LEMMA WordsOrBytes == Since(3, 6) <=> WordCode(v)
BY DEF Since, SinceIn, WordCode, From

LEMMA ByteRange ==
  ASSUME NEW n \in Byte
  PROVE  n \in Int /\ 0 <= n /\ n <= 255
BY SMT DEF Byte

\* Bytes of the code as numbers.
LEMMA ByteAt ==
  ASSUME NEW c \in Codes, NEW p \in Nat, p < Len(c.bytes)
  PROVE  c.bytes[p + 1] \in Int /\ 0 <= c.bytes[p + 1] /\ c.bytes[p + 1] <= 255
<1>1. c.bytes \in Seq(Byte) /\ Len(c.bytes) \in Nat
  BY CodesAssumption, LenProperties
<1>2. p + 1 \in 1..Len(c.bytes)
  BY <1>1
<1>3. c.bytes[p + 1] \in Byte
  BY <1>1, <1>2, ElementOfSeq
<1> QED
  BY <1>3, ByteRange

\* operand << 8 | byte, on one to three bytes.
IsByte(n) == n \in Int /\ 0 <= n /\ n <= 255

LEMMA Shift1 ==
  ASSUME NEW a, IsByte(a)
  PROVE  Shifted8(a) = a * 256
BY SMT DEF Shifted8, High, IsByte

LEMMA Shift2 ==
  ASSUME NEW a, NEW b, IsByte(a), IsByte(b)
  PROVE  Shifted8(a * 256 + b) = a * 65536 + b * 256
BY SMT DEF Shifted8, High, IsByte

LEMMA Shift3 ==
  ASSUME NEW a, NEW b, NEW d, IsByte(a), IsByte(b), IsByte(d), a < 128
  PROVE  Shifted8(a * 65536 + b * 256 + d) = a * 16777216 + b * 65536 + d * 256
<1> DEFINE n == a * 65536 + b * 256 + d
<1>1. n \div 65536 = a /\ n % 65536 = b * 256 + d
  BY SMT DEF IsByte
<1>2. a % 256 = a
  BY SMT DEF IsByte
<1>3. n \in Int /\ a \in Int /\ a < 128
  BY SMT DEF IsByte
<1> HIDE DEF n
<1>4. High((n \div 65536) % 256) = a
  BY <1>1, <1>2, <1>3, SMT DEF High
<1>5. Shifted8(n) = a * 16777216 + (b * 256 + d) * 256
  BY <1>1, <1>4 DEF Shifted8
<1> QED
  BY <1>5, SMT DEF n, IsByte

LEMMA TopDigit ==
  ASSUME NEW a, NEW b, NEW d, NEW e, IsByte(a), IsByte(b), IsByte(d), IsByte(e),
         a * 16777216 + b * 65536 + d * 256 + e <= IntMax
  PROVE  a < 128
BY SMT DEF IsByte, IntMax

\* A step to the next digit.
LEMMA DigitsStep ==
  ASSUME NEW c \in Codes, NEW r \in Instruction, NEW k \in 1..3,
         r.at + 2 * (k + 1) <= Len(c.bytes),
         k = 3 => Digits(c, r, 4) <= IntMax
  PROVE  Shifted8(Digits(c, r, k)) + Digit(c, r, k + 1) = Digits(c, r, k + 1)
<1> DEFINE D(i) == Digit(c, r, i)
<1>1. Len(c.bytes) \in Nat /\ r.at \in Nat
  BY CodesAssumption, LenProperties DEF Instruction
<1>2. ASSUME NEW i \in 1..(k + 1)
      PROVE  IsByte(D(i))
  <2>1. r.at + 2 * i - 1 \in Nat /\ r.at + 2 * i - 1 < Len(c.bytes)
    BY <1>1
  <2>2. r.at + 2 * i - 1 + 1 = r.at + 2 * i
    BY <1>1
  <2>3. /\ c.bytes[r.at + 2 * i] \in Int
        /\ 0 <= c.bytes[r.at + 2 * i]
        /\ c.bytes[r.at + 2 * i] <= 255
    BY <2>1, <2>2, ByteAt
  <2> QED
    BY <2>3 DEF Digit, IsByte
<1>3. CASE k = 1
  <2>1. IsByte(D(1)) /\ IsByte(D(2))
    BY <1>2, <1>3
  <2>2. Digits(c, r, 1) = D(1) /\ Digits(c, r, 2) = D(1) * 256 + D(2)
    BY DEF Digits
  <2> HIDE DEF D
  <2> QED
    BY <1>3, <2>1, <2>2, Shift1 DEF D
<1>4. CASE k = 2
  <2>1. IsByte(D(1)) /\ IsByte(D(2)) /\ IsByte(D(3))
    BY <1>2, <1>4
  <2>2. /\ Digits(c, r, 2) = D(1) * 256 + D(2)
        /\ Digits(c, r, 3) = D(1) * 65536 + D(2) * 256 + D(3)
    BY DEF Digits
  <2> QED
    BY <1>4, <2>1, <2>2, Shift2
<1>5. CASE k = 3
  <2>1. IsByte(D(1)) /\ IsByte(D(2)) /\ IsByte(D(3)) /\ IsByte(D(4))
    BY <1>2, <1>5
  <2>2. /\ Digits(c, r, 3) = D(1) * 65536 + D(2) * 256 + D(3)
        /\ Digits(c, r, 4) = D(1) * 16777216 + D(2) * 65536 + D(3) * 256 + D(4)
    BY DEF Digits
  <2> HIDE DEF D
  <2>3. D(1) < 128
    BY <1>5, <2>1, <2>2, TopDigit
  <2>4. Shifted8(D(1) * 65536 + D(2) * 256 + D(3))
          = D(1) * 16777216 + D(2) * 65536 + D(3) * 256
    BY <2>1, <2>3, Shift3
  <2> QED
    BY <1>5, <2>2, <2>4 DEF D
<1> QED
  BY <1>3, <1>4, <1>5

LEMMA FirstWordFollows == ASSUME Following, FirstWord PROVE Following'
<1> USE DEF FirstWord, Calls, Advance, Go
<1>1. Reading'
  BY FirstWordReads DEF Following
<1>2. /\ code' = code /\ start_pos' = pos /\ pos' = pos + 2 /\ Has(2) /\ WordCode(v)
      /\ opcode' = ByteToOpcode(v, Peek(1)) /\ operand' = Peek(2)
      /\ pc' = AfterWord
      /\ read' = IF pc' # "call" THEN read ELSE Append(read, Entry')
  BY WordsOrBytes DEF Entry
<1>3. pc' \in {"call", "prefixed"}
  BY <1>2 DEF AfterWord
<1>4. CASE ~IsAssembled(code)
  BY <1>1, <1>2, <1>3, <1>4, GoesOn, Returns
<1>5. CASE IsAssembled(code)
  <2> DEFINE r == Now
  <2>1. /\ Len(read) < Len(code.listing)
        /\ r.at = pos /\ pos = source /\ pos \in Nat
        /\ r \in Instruction
        /\ IsOpcode(v, r.opcode)
        /\ InWords(code, r)
    BY <1>2, <1>5, NowBegins, NowIs DEF Calls
  <2>2. v \in Versions /\ HasPrefixes(v) /\ Len(code.bytes) \in Nat
    <3>1. Listed(code) /\ Len(code.bytes) \in Nat
      BY <1>5, NowIs
    <3>2. v \in Versions
      BY <3>1 DEF Listed, v
    <3>3. HasPrefixes(v)
      BY <1>2, <3>2 DEF WordCode, HasPrefixes, From, Versions
    <3> QED
      BY <3>1, <3>2, <3>3
  <2>3. PICK n \in 1..4 : r.next = r.at + 2 * n
    BY <2>1 DEF InWords
  <2>4. r.at \in Nat /\ r.opcode \in Int
    <3>1. r.at \in Nat /\ r.opcode \in Byte
      BY <2>1 DEF Instruction
    <3> QED
      BY <3>1, ByteRange
  <2>5. Words(r) = n
    BY <2>3, <2>4 DEF Words
  <2>6. pos + 2 <= Len(code.bytes)
    BY <1>2, <2>1 DEF Has
  <2>7. Peek(1) = code.bytes[r.at + 1] /\ Peek(2) = code.bytes[r.at + 2]
    BY <2>1 DEF Peek
  <2>8. operand' = Digits(code, r, 1)
    BY <1>2, <2>7 DEF Digits, Digit
  <2> HIDE DEF r
  <2>9. CASE n = 1
    <3>1. Peek(1) = r.opcode
      BY <2>1, <2>3, <2>4, <2>6, <2>7, <2>9, <2>2 DEF InWords, HasByte
    <3>2. opcode' = r.opcode /\ pc' = "call"
      BY <1>2, <2>1, <2>2, <2>4, <3>1, OpcodeIsRead DEF AfterWord
    <3>3. operand' = r.operand /\ pos' = r.next
      BY <1>2, <2>1, <2>3, <2>5, <2>6, <2>8, <2>9 DEF InWords
    <3> QED
      BY <1>1, <1>2, <2>1, <3>2, <3>3, Returns DEF r
  <2>10. CASE n # 1
    <3>1. 1 \in 1..(Words(r) - 1) /\ r.at + 2 * 1 - 2 = r.at
      BY <2>3, <2>4, <2>5, <2>10
    <3>2. Peek(1) = EXTENDED_ARG(v)
      BY <2>1, <2>2, <2>4, <2>6, <2>7, <3>1 DEF InWords, HasByte, v
    <3>3. pc' = "prefixed"
      BY <1>2, <2>2, <3>2, PrefixIsRead DEF AfterWord
    <3>4. Now' = Now /\ code' = code /\ read' = read
      BY <1>2, <3>3 DEF Now
    <3>5. pos' = r.at + 2 * 1
      BY <1>2, <2>1
    <3>6. MidWords'
      BY <2>8, <3>1, <3>3, <3>4, <3>5 DEF MidWords, r
    <3> QED
      BY <1>1, <1>2, <2>1, <3>3, <3>4, <3>6, GoesOn DEF r
  <2> QED
    BY <2>9, <2>10
<1> QED
  BY <1>4, <1>5

LEMMA NextWordFollows == ASSUME Following, NextWord PROVE Following'
<1> USE DEF NextWord, Advance, Go
<1>1. Reading'
  BY NextWordReads DEF Following
<1>2. /\ code' = code /\ start_pos' = start_pos /\ pos' = pos + 2 /\ Has(2) /\ WordCode(v)
      /\ opcode' = ByteToOpcode(v, Peek(1)) /\ operand' = Shifted8(operand) + Peek(2)
      /\ pc = "prefixed" /\ pc' = AfterWord
      /\ read' = IF pc' # "call" THEN read ELSE Append(read, Entry')
  BY WordsOrBytes DEF Entry
<1>3. pc' \in {"call", "prefixed"}
  BY <1>2 DEF AfterWord
<1>4. CASE ~IsAssembled(code)
  BY <1>1, <1>2, <1>3, <1>4, GoesOn, Returns
<1>5. CASE IsAssembled(code)
  <2> DEFINE r == Now
  <2>1. Len(read) < Len(code.listing) /\ start_pos = r.at /\ MidWords
    BY <1>2, <1>5 DEF Following, Midway
  <2>2. r \in Instruction /\ IsOpcode(v, r.opcode) /\ InWords(code, r)
    BY <1>2, <1>5, <2>1, NowIs
  <2>3. /\ Listed(code) /\ code \in Codes /\ Len(code.bytes) \in Nat
        /\ pos = source /\ pos \in Nat
    BY <1>5, NowIs DEF Following, Reading, TypeOK, OneAfterAnother
  <2>4. v \in Versions /\ HasPrefixes(v)
    <3>1. v \in Versions
      BY <2>3 DEF Listed, v
    <3> QED
      BY <1>2, <3>1 DEF WordCode, HasPrefixes, From, Versions
  <2>5. PICK n \in 1..4 : r.next = r.at + 2 * n
    BY <2>2 DEF InWords
  <2>6. r.at \in Nat /\ r.opcode \in Int /\ r.operand <= IntMax
    <3>1. r.at \in Nat /\ r.opcode \in Byte /\ r.operand \in 0..IntMax
      BY <2>2 DEF Instruction
    <3>2. IntMax \in Int
      BY DEF IntMax
    <3> QED
      BY <3>1, <3>2, ByteRange
  <2>7. Words(r) = n
    BY <2>5, <2>6 DEF Words
  <2>8. PICK k \in 1..(n - 1) : pos = r.at + 2 * k /\ operand = Digits(code, r, k)
    BY <2>1, <2>7 DEF MidWords
  <2> HIDE DEF r
  <2>9. k \in 1..3 /\ k + 1 \in 2..n /\ r.at + 2 * (k + 1) <= Len(code.bytes)
    <3>1. pos + 2 <= Len(code.bytes) /\ pos = r.at + 2 * k
      BY <1>2, <2>3, <2>8 DEF Has
    <3>2. k \in 1..3 /\ k + 1 \in 2..n
      OBVIOUS
    <3> QED
      BY <2>3, <2>6, <3>1, <3>2
  <2>10. Peek(1) = code.bytes[r.at + 2 * k + 1] /\ Peek(2) = Digit(code, r, k + 1)
    <3>1. source + 1 = r.at + 2 * k + 1 /\ source + 2 = r.at + 2 * (k + 1)
      BY <2>3, <2>6, <2>8
    <3> QED
      BY <3>1 DEF Peek, Digit
  <2>11. operand' = Digits(code, r, k + 1)
    <3>1. k = 3 => Digits(code, r, 4) <= IntMax
      <4>1. k = 3 => n = 4 /\ r.next <= Len(code.bytes)
        BY <2>5, <2>9
      <4> QED
        BY <2>2, <2>6, <2>7, <4>1 DEF InWords
    <3> QED
      BY <1>2, <2>2, <2>3, <2>8, <2>9, <2>10, <3>1, DigitsStep
  <2>12. CASE k = n - 1
    <3>1. r.next <= Len(code.bytes) /\ pos' = r.next /\ r.next - 2 = r.at + 2 * k
      BY <1>2, <2>3, <2>5, <2>6, <2>8, <2>9, <2>12
    <3>2. Peek(1) = r.opcode
      <4>1. HasByte(code, r.at + 2 * k, r.opcode)
        BY <2>2, <3>1 DEF InWords
      <4>2. r.at + 2 * k < Len(code.bytes)
        BY <2>3, <2>6, <2>9
      <4> QED
        BY <2>10, <4>1, <4>2 DEF HasByte
    <3>3. opcode' = r.opcode /\ pc' = "call"
      BY <1>2, <2>2, <2>4, <2>6, <3>2, OpcodeIsRead DEF AfterWord
    <3>4. operand' = r.operand
      BY <2>2, <2>7, <2>11, <2>12, <3>1 DEF InWords
    <3> QED
      BY <1>1, <1>2, <2>1, <3>1, <3>3, <3>4, Returns DEF r
  <2>13. CASE k # n - 1
    <3>1. k + 1 \in 1..(Words(r) - 1) /\ r.at + 2 * (k + 1) - 2 = r.at + 2 * k
      BY <2>6, <2>7, <2>9, <2>13
    <3>2. HasByte(code, r.at + 2 * k, EXTENDED_ARG(code.ver))
      BY <2>2, <3>1 DEF InWords
    <3>3. Peek(1) = EXTENDED_ARG(v)
      BY <2>3, <2>6, <2>9, <2>10, <3>2 DEF HasByte, v
    <3>4. pc' = "prefixed"
      BY <1>2, <2>4, <3>3, PrefixIsRead DEF AfterWord
    <3>5. Now' = Now /\ code' = code /\ read' = read
      BY <1>2, <3>4 DEF Now
    <3>6. pos' = r.at + 2 * (k + 1)
      BY <1>2, <2>6, <2>8
    <3>7. MidWords'
      BY <2>11, <3>1, <3>4, <3>5, <3>6 DEF MidWords, r
    <3> QED
      BY <1>1, <1>2, <2>1, <3>4, <3>5, <3>7, GoesOn DEF r
  <2> QED
    BY <2>9, <2>12, <2>13
<1> QED
  BY <1>4, <1>5

LEMMA OpcodeFollows == ASSUME Following, Opcode PROVE Following'
<1> USE DEF Opcode, Advance, Go
<1>1. Reading'
  BY OpcodeReads DEF Following
<1>2. /\ code' = code /\ start_pos' = pos /\ pos' = pos + 1 /\ ~WordCode(v)
      /\ Calls /\ ~atEof
      /\ opcode' = ByteToOpcode(v, Peek(1)) /\ operand' = 0
      /\ pc' = IF IsExtendedArg(v, opcode') THEN "prefixed" ELSE AfterOpcode
      /\ read' = IF pc' # "call" THEN read ELSE Append(read, Entry')
  BY WordsOrBytes DEF Entry, Calls
<1>3. pc' \in {"call", "prefixed", "argument"}
  BY <1>2 DEF AfterOpcode
<1>4. CASE ~IsAssembled(code)
  BY <1>1, <1>2, <1>3, <1>4, GoesOn, Returns
<1>5. CASE IsAssembled(code)
  <2> DEFINE r == Now
  <2>1. /\ Len(read) < Len(code.listing)
        /\ r.at = pos /\ pos = source /\ pos \in Nat
        /\ r \in Instruction
        /\ IsOpcode(v, r.opcode)
        /\ InBytes(code, r)
    BY <1>2, <1>5, NowBegins, NowIs DEF Calls
  <2>2. Listed(code) /\ Len(code.bytes) \in Nat /\ source \in 0..Len(code.bytes)
    BY <1>5, NowIs DEF Following, Reading, TypeOK
  <2>3. v \in Versions
    BY <2>2 DEF Listed, v
  <2>4. r.at \in Nat /\ r.opcode \in Int
    <3>1. r.at \in Nat /\ r.opcode \in Byte
      BY <2>1 DEF Instruction
    <3> QED
      BY <3>1, ByteRange
  <2>5. pos < Len(code.bytes)
    BY <1>2, <2>1, <2>2 DEF atEof
  <2>6. Peek(1) = code.bytes[r.at + 1]
    BY <2>1 DEF Peek
  <2>7. read' = read => Now' = Now
    BY <1>2 DEF Now
  <2> HIDE DEF r
  <2>8. ASSUME HasByte(code, r.at, r.opcode)
        PROVE  /\ opcode' = r.opcode
               /\ pc' = IF r.opcode >= HAVE_ARGUMENT(v) THEN "argument" ELSE "call"
    <3>1. Peek(1) = r.opcode
      BY <2>1, <2>5, <2>6, <2>8 DEF HasByte
    <3> QED
      BY <1>2, <2>1, <2>3, <2>4, <3>1, OpcodeIsRead DEF AfterOpcode
  <2>9. HAVE_ARGUMENT(v) \in Int
    BY DEF HAVE_ARGUMENT
  <2>10. CASE r.next = r.at + 1
    <3>1. HasByte(code, r.at, r.opcode) /\ r.opcode < HAVE_ARGUMENT(v) /\ r.operand = 0
      BY <2>1, <2>4, <2>10 DEF InBytes, v
    <3>2. opcode' = r.opcode /\ pc' = "call"
      BY <2>4, <2>8, <2>9, <3>1
    <3> QED
      BY <1>1, <1>2, <2>1, <2>10, <3>1, <3>2, Returns DEF r
  <2>11. CASE r.next = r.at + 3
    <3>1. HasByte(code, r.at, r.opcode) /\ r.opcode >= HAVE_ARGUMENT(v)
      BY <2>1, <2>4, <2>11 DEF InBytes, v
    <3>2. opcode' = r.opcode /\ pc' = "argument"
      BY <2>8, <3>1
    <3>3. pos' = r.next - 2
      BY <1>2, <2>1, <2>4, <2>11
    <3>4. read' = read
      BY <1>2, <3>2
    <3>5. MidBytes'
      BY <1>2, <2>7, <2>11, <3>2, <3>3, <3>4 DEF MidBytes, r
    <3> QED
      BY <1>1, <1>2, <2>1, <3>2, <3>4, <3>5, GoesOn DEF r
  <2>12. CASE r.next = r.at + 6
    <3>1. HasByte(code, r.at, EXTENDED_ARG(v)) /\ HasPrefixes(v)
      BY <2>1, <2>4, <2>12 DEF InBytes, v
    <3>2. Peek(1) = EXTENDED_ARG(v)
      BY <2>1, <2>5, <2>6, <3>1 DEF HasByte
    <3>3. pc' = "prefixed"
      BY <1>2, <2>3, <3>1, <3>2, PrefixIsRead
    <3>4. read' = read
      BY <1>2, <3>3
    <3>5. MidBytes'
      BY <1>2, <2>1, <2>7, <2>12, <3>3, <3>4 DEF MidBytes, r
    <3> QED
      BY <1>1, <1>2, <2>1, <3>3, <3>4, <3>5, GoesOn DEF r
  <2> QED
    BY <2>1, <2>10, <2>11, <2>12 DEF InBytes
<1> QED
  BY <1>4, <1>5

LEMMA PrefixFollows == ASSUME Following, Prefix PROVE Following'
<1> USE DEF Prefix, Advance, Go
<1>1. Reading'
  BY PrefixReads DEF Following
<1>2. /\ code' = code /\ start_pos' = start_pos /\ pos' = pos + 3 /\ Has(3) /\ ~WordCode(v)
      /\ opcode' = ByteToOpcode(v, Peek(3)) /\ operand' = Shifted16(get16(1))
      /\ pc = "prefixed" /\ pc' = AfterOpcode
      /\ read' = IF pc' # "call" THEN read ELSE Append(read, Entry')
  BY WordsOrBytes DEF Entry
<1>3. pc' \in {"call", "argument"}
  BY <1>2 DEF AfterOpcode
<1>4. CASE ~IsAssembled(code)
  BY <1>1, <1>2, <1>3, <1>4, GoesOn, Returns
<1>5. CASE IsAssembled(code)
  <2> DEFINE r == Now
  <2>1. /\ Len(read) < Len(code.listing) /\ start_pos = r.at
        /\ pos = r.at + 1 /\ r.next = r.at + 6
    BY <1>2, <1>5 DEF Following, Midway, MidBytes
  <2>2. r \in Instruction /\ IsOpcode(v, r.opcode) /\ InBytes(code, r)
    BY <1>2, <1>5, <2>1, NowIs
  <2>3. Listed(code) /\ Len(code.bytes) \in Nat /\ pos = source /\ pos \in Nat
    BY <1>5, NowIs DEF Following, Reading, TypeOK, OneAfterAnother
  <2>4. v \in Versions
    BY <2>3 DEF Listed, v
  <2>5. r.at \in Nat /\ r.opcode \in Int
    <3>1. r.at \in Nat /\ r.opcode \in Byte
      BY <2>2 DEF Instruction
    <3> QED
      BY <3>1, ByteRange
  <2> HIDE DEF r
  <2>6. HasByte(code, r.at + 3, r.opcode) /\ r.opcode >= HAVE_ARGUMENT(v)
    BY <2>1, <2>2, <2>5 DEF InBytes, v
  <2>7. Peek(3) = r.opcode
    <3>1. source + 3 = r.at + 3 + 1 /\ r.at + 3 < Len(code.bytes)
      BY <1>2, <2>1, <2>3, <2>5 DEF Has
    <3> QED
      BY <2>6, <3>1 DEF HasByte, Peek
  <2>8. opcode' = r.opcode /\ pc' = "argument"
    BY <1>2, <2>2, <2>4, <2>5, <2>6, <2>7, OpcodeIsRead DEF AfterOpcode
  <2>9. operand' = Shifted16(Half(code, r.at + 1))
    <3>1. source + 1 = r.at + 1 + 1 /\ source + (1 + 1) = r.at + 1 + 2
      BY <2>1, <2>3, <2>5
    <3>2. get16(1) = Half(code, r.at + 1)
      BY <3>1 DEF get16, Peek, Half
    <3> QED
      BY <1>2, <3>2
  <2>10. Now' = Now /\ read' = read
    BY <1>2, <2>8 DEF Now
  <2>11. pos' = r.next - 2
    BY <1>2, <2>1, <2>5
  <2>12. MidBytes'
    BY <1>2, <2>1, <2>8, <2>9, <2>10, <2>11 DEF MidBytes, r
  <2> QED
    BY <1>1, <1>2, <2>1, <2>8, <2>10, <2>12, GoesOn DEF r
<1> QED
  BY <1>4, <1>5

\* The upper half of an argument that is an int.
LEMMA UpperHalf ==
  ASSUME NEW h \in Int, 0 <= h, h < 32768
  PROVE  Shifted16(h) = h * 65536
BY SMT DEF Shifted16

LEMMA HalfRange ==
  ASSUME NEW c \in Codes, NEW p \in Nat, p + 1 < Len(c.bytes)
  PROVE  Half(c, p) \in Int /\ 0 <= Half(c, p)
<1> DEFINE a == c.bytes[p + 1]
           b == c.bytes[p + 2]
<1>1. p < Len(c.bytes) /\ p + 1 \in Nat /\ p + 1 + 1 = p + 2
  BY CodesAssumption, LenProperties
<1>2. a \in Int /\ 0 <= a
  BY <1>1, ByteAt
<1>3. b \in Int /\ 0 <= b
  BY <1>1, ByteAt
<1>4. Half(c, p) = a + 256 * b
  BY DEF Half
<1> HIDE DEF a, b
<1> QED
  BY <1>2, <1>3, <1>4

LEMMA ArgumentFollows == ASSUME Following, Argument PROVE Following'
<1> USE DEF Argument, Advance, Go
<1>1. Reading'
  BY ArgumentReads DEF Following
<1>2. /\ code' = code /\ start_pos' = start_pos /\ pos' = pos + 2 /\ Has(2)
      /\ opcode' = opcode /\ operand' = operand + get16(1)
      /\ pc = "argument" /\ pc' = "call"
      /\ read' = Append(read, Entry')
  BY DEF Entry
<1>3. CASE ~IsAssembled(code)
  BY <1>1, <1>2, <1>3, Returns
<1>4. CASE IsAssembled(code)
  <2> DEFINE r == Now
  <2>1. ~WordCode(v)
    BY <1>2, <1>4 DEF Following, Midway, MidWords
  <2>2. /\ Len(read) < Len(code.listing) /\ start_pos = r.at
        /\ pos = r.next - 2 /\ opcode = r.opcode
        /\ \/ r.next = r.at + 3 /\ operand = 0
           \/ r.next = r.at + 6 /\ operand = Shifted16(Half(code, r.at + 1))
    BY <1>2, <1>4, <2>1 DEF Following, Midway, MidBytes
  <2>3. r \in Instruction /\ InBytes(code, r)
    BY <1>4, <2>1, <2>2, NowIs
  <2>4. /\ Len(code.bytes) \in Nat /\ code \in Codes
        /\ pos = source /\ pos \in Nat /\ source \in Nat
    BY <1>4, NowIs DEF Following, Reading, TypeOK, OneAfterAnother
  <2>5. r.at \in Nat /\ r.next \in Nat /\ r.operand \in Int /\ r.operand <= IntMax
    <3>1. IntMax \in Int
      BY DEF IntMax
    <3> QED
      BY <2>3, <3>1 DEF Instruction
  <2>6. r.next <= Len(code.bytes) /\ pos' = r.next
    BY <1>2, <2>2, <2>4, <2>5 DEF Has
  <2> HIDE DEF r
  <2>7. operand' = r.operand
    <3>1. get16(1) \in Int /\ 0 <= get16(1)
      BY <1>2, <2>4, Get16Range
    <3>2. CASE r.next = r.at + 3 /\ operand = 0
      <4>1. r.operand = Half(code, r.at + 1)
        BY <2>3, <2>5, <2>6, <3>2 DEF InBytes
      <4>2. source + 1 = r.at + 1 + 1 /\ source + (1 + 1) = r.at + 1 + 2
        BY <2>2, <2>4, <2>5, <3>2
      <4>3. get16(1) = Half(code, r.at + 1)
        BY <4>2 DEF get16, Peek, Half
      <4> QED
        BY <1>2, <3>1, <3>2, <4>1, <4>3
    <3>3. CASE r.next = r.at + 6 /\ operand = Shifted16(Half(code, r.at + 1))
      <4> DEFINE h == Half(code, r.at + 1)
      <4>1. r.operand = h * 65536 + Half(code, r.at + 4)
        BY <2>3, <2>5, <2>6, <3>3 DEF InBytes
      <4>2. source + 1 = r.at + 4 + 1 /\ source + (1 + 1) = r.at + 4 + 2
        BY <2>2, <2>4, <2>5, <3>3
      <4>3. get16(1) = Half(code, r.at + 4)
        BY <4>2 DEF get16, Peek, Half
      <4>4. h \in Int /\ 0 <= h
        <5>1. r.at + 1 \in Nat /\ r.at + 1 + 1 < Len(code.bytes)
          BY <2>4, <2>5, <2>6, <3>3
        <5> QED
          BY <2>4, <5>1, HalfRange
      <4> HIDE DEF h
      <4>5. Shifted16(h) = h * 65536
        <5> DEFINE l == get16(1)
        <5>1. l \in Int /\ 0 <= l
          BY <3>1
        <5>2. h * 65536 + l <= IntMax
          BY <2>5, <4>1, <4>3
        <5> HIDE DEF l
        <5>3. h < 32768
          BY <4>4, <5>1, <5>2, SMT DEF IntMax
        <5> QED
          BY <4>4, <5>3, UpperHalf
      <4>6. operand = Shifted16(h)
        BY <3>3 DEF h
      <4> QED
        BY <1>2, <3>1, <4>1, <4>3, <4>4, <4>5, <4>6
    <3> QED
      BY <2>2, <3>2, <3>3 DEF r
  <2> QED
    BY <1>1, <1>2, <2>2, <2>6, <2>7, Returns DEF r
<1> QED
  BY <1>3, <1>4

\* A step needs no byte behind the end of the instruction.
LEMMA NeededIsInside ==
  ASSUME Following, IsAssembled(code), pc \in {"call", "prefixed", "argument"},
         pc = "call" => ~atEof
  PROVE  /\ Len(read) < Len(code.listing)
         /\ source + Needed <= Now.next
<1> DEFINE r == Now
<1>1. Len(read) < Len(code.listing) /\ (pc = "call" => r.at = pos)
  BY NowBegins DEF Following, Midway
<1>2. /\ r \in Instruction
      /\ IF WordCode(v) THEN InWords(code, r) ELSE InBytes(code, r)
  BY <1>1, NowIs
<1>3. pos = source /\ pos \in Nat
  BY DEF Following, Reading, TypeOK, OneAfterAnother
<1>4. r.at \in Nat /\ r.next \in Nat
  BY <1>2 DEF Instruction
<1>5. pc # "call" => IF WordCode(v) THEN MidWords ELSE MidBytes
  BY DEF Following, Midway
<1>6. CASE WordCode(v)
  <2>1. Needed = 2
    BY <1>6, WordsOrBytes DEF Needed
  <2>2. PICK n \in 1..4 : r.next = r.at + 2 * n
    BY <1>2, <1>6 DEF InWords
  <2>3. Words(r) = n
    BY <1>4, <2>2 DEF Words
  <2>4. \E k \in 0..(n - 1) : pos = r.at + 2 * k
    <3>1. CASE pc = "call"
      <4>1. 0 \in 0..(n - 1) /\ pos = r.at + 2 * 0
        BY <1>1, <1>4, <3>1
      <4> QED
        BY <4>1
    <3>2. CASE pc # "call"
      BY <1>5, <1>6, <2>3, <3>2 DEF MidWords
    <3> QED
      BY <3>1, <3>2
  <2> HIDE DEF r
  <2>5. pos + 2 <= r.next
    BY <1>3, <1>4, <2>2, <2>4
  <2> QED
    BY <1>1, <1>3, <2>1, <2>5 DEF r
<1>7. CASE ~WordCode(v)
  <2>1. r.next \in {r.at + 1, r.at + 3, r.at + 6}
    BY <1>2, <1>7 DEF InBytes
  <2>2. CASE pc = "call"
    <3>1. Needed = 1 /\ r.at = source
      BY <1>1, <1>3, <1>7, <2>2, WordsOrBytes DEF Needed
    <3> HIDE DEF r
    <3>2. source + 1 <= r.next
      BY <1>3, <1>4, <2>1, <3>1
    <3> QED
      BY <1>1, <3>1, <3>2 DEF r
  <2>3. CASE pc = "prefixed"
    <3>1. Needed = 3 /\ source = r.at + 1 /\ r.next = r.at + 6
      BY <1>3, <1>5, <1>7, <2>3, WordsOrBytes DEF Needed, MidBytes
    <3> HIDE DEF r
    <3>2. source + 3 <= r.next
      BY <1>4, <3>1
    <3> QED
      BY <1>1, <3>1, <3>2 DEF r
  <2>4. CASE pc = "argument"
    <3>1. Needed = 2 /\ source = r.next - 2
      BY <1>3, <1>5, <1>7, <2>4 DEF Needed, MidBytes
    <3> HIDE DEF r
    <3>2. source + 2 <= r.next
      BY <1>4, <3>1
    <3> QED
      BY <1>1, <3>1, <3>2 DEF r
  <2> QED
    BY <2>2, <2>3, <2>4
<1> QED
  BY <1>6, <1>7

LEMMA FollowingStays == ASSUME Following, Throw \/ End \/ UNCHANGED vars PROVE Following'
<1>1. Reading'
  BY ReadingStays DEF Following
<1>2. UNCHANGED <<code, source, pos, start_pos, opcode, operand, read>>
  BY DEF Throw, End, vars
<1>3. SUFFICES ASSUME IsAssembled(code) PROVE (Follows /\ Midway)'
  BY <1>1, <1>2 DEF Following
<1>4. Now' = Now /\ v' = v
  BY <1>2 DEF Now, v
<1>5. CASE Throw
  <2>1. ~code.whole
    <3> SUFFICES ASSUME code.whole PROVE FALSE
      OBVIOUS
    <3>1. Len(read) < Len(code.listing) /\ source + Needed <= Now.next
      BY <1>3, <1>5, NeededIsInside DEF Throw
    <3>2. Now.next <= Len(code.bytes) /\ Now.next \in Nat /\ Len(code.bytes) \in Nat
      BY <1>3, <3>1, NowIs DEF Instruction
    <3>3. source + Needed \in Nat
      BY DEF Following, Reading, TypeOK, Needed
    <3> QED
      BY <1>5, <3>1, <3>2, <3>3 DEF Throw, Has
  <2> QED
    BY <1>2, <1>3, <1>5, <2>1 DEF Throw, Following, Follows, Midway
<1>6. CASE End
  BY <1>2, <1>3, <1>6 DEF End, Following, Follows, Midway
<1>7. CASE UNCHANGED vars
  BY <1>2, <1>3, <1>4, <1>7 DEF vars, Following, Follows, Midway, MidWords, MidBytes
<1> QED
  BY <1>5, <1>6, <1>7

LEMMA FollowingInit == Init => Following
<1> SUFFICES ASSUME Init PROVE Following
  OBVIOUS
<1>1. Reading /\ read = <<>> /\ pc = "call"
  BY ReadingInit DEF Init
<1>2. ASSUME IsAssembled(code) PROVE Len(code.listing) \in Nat /\ Len(read) = 0
  BY <1>1, <1>2, CodesAssumption, ListingsAssumption, LenProperties, EmptySeq
     DEF Reading, Listed
<1> QED
  BY <1>1, <1>2 DEF Following, Follows, Midway

LEMMA FollowingNext == Following /\ [Next]_vars => Following'
BY FirstWordFollows, NextWordFollows, OpcodeFollows, PrefixFollows, ArgumentFollows,
   FollowingStays, Zenon DEF Next

LEMMA FollowingAlways == Spec => []Following
BY FollowingInit, FollowingNext, PTL DEF Spec

\* Where the code ends.
LEMMA EndIs ==
  ASSUME Following, IsAssembled(code), pc = "done"
  PROVE  /\ Len(code.bytes) = EndOf(code.listing, Len(read))
         /\ Len(read) \in 0..Len(code.listing)
         /\ code.whole => Len(read) = Len(code.listing)
<1>1. pos = Len(code.bytes) /\ pos = LastEnd
  BY DEF Following, Reading, OneAfterAnother, LastEnd
<1>2. Len(code.bytes) = EndOf(code.listing, Len(read))
  BY <1>1, NowIs
<1>3. Len(read) <= Len(code.listing) /\ Len(read) \in Nat /\ Len(code.listing) \in Nat
  BY NowIs DEF Following, Follows
<1>4. ASSUME code.whole, Len(read) < Len(code.listing)
      PROVE  FALSE
  <2>1. /\ Now.at = Len(code.bytes) /\ Now.at < Now.next /\ Now.next <= Len(code.bytes)
        /\ Now \in Instruction
    BY <1>1, <1>4, NowIs
  <2>2. Now.at \in Nat /\ Now.next \in Nat
    BY <2>1 DEF Instruction
  <2> QED
    BY <2>1, <2>2
<1> QED
  BY <1>2, <1>3, <1>4

\* A jump of the listing, by the tables.
LEMMA JumpLands ==
  ASSUME NEW w \in Versions, NEW r, r.operand \in Int,
         NEW target, Leads(w, r, target), target # -1
  PROVE  /\ r.opcode \in Kind(w).conditional => offs(w, r) = target
         /\ IsPrintedJump(w, r.opcode) /\ ~(w = <<3, 11>> /\ r.opcode \in {111, 112}) =>
              PrintedTarget(w, r) = target
<1> DEFINE op == r.opcode
<1>1. /\ ~From(w, 3, 12)
      /\ \/ op \in hasjrel(w)  /\ target = r.next + Unit(w) * r.operand
         \/ op \in hasjback(w) /\ target = r.next - Unit(w) * r.operand
         \/ op \in hasjabs(w)  /\ target = Unit(w) * r.operand
  BY DEF Leads
<1>2. Agrees(w, Kind(w))
  BY <1>1, TablesAgree
<1>3. Scaled(w, r.operand) = Unit(w) * r.operand
  BY DEF Scaled, Unit, SinceIn, From
<1>4. ~SinceIn(w, 3, 12)
  BY <1>1 DEF SinceIn, From
<1> DEFINE jumps == Kind(w)
<1> HIDE DEF op, jumps
<1>5. CASE op \in hasjrel(w) /\ target = r.next + Unit(w) * r.operand
  <2>1. /\ op \notin jumps.backward
        /\ op \in jumps.absolute => w = <<3, 11>> /\ op \in {111, 112}
        /\ op \in jumps.conditional => op \in jumps.forward \/ SinceIn(w, 3, 11)
    BY <1>2, <1>5 DEF Agrees, jumps
  <2>2. target = r.next + Scaled(w, r.operand)
    BY <1>3, <1>5
  <2>3. op \in jumps.conditional => offs(w, r) = target
    BY <2>1, <2>2, Zenon DEF offs, op, jumps
  <2>4. ASSUME op \in jumps.forward, op \notin jumps.absolute
        PROVE  PrintedTarget(w, r) = target
    BY <2>1, <2>2, <2>4 DEF PrintedTarget, op, jumps
  <2> QED
    BY <2>1, <2>3, <2>4 DEF IsPrintedJump, op, jumps
<1>6. CASE op \in hasjback(w) /\ target = r.next - Unit(w) * r.operand
  <2>1. op \notin jumps.forward \cup jumps.absolute \cup jumps.conditional
    BY <1>2, <1>6 DEF Agrees, jumps
  <2>2. target = r.next - Scaled(w, r.operand)
    BY <1>3, <1>6
  <2>3. ASSUME op \in jumps.backward
        PROVE  PrintedTarget(w, r) = target
    BY <2>1, <2>2, <2>3 DEF PrintedTarget, op, jumps
  <2> QED
    BY <2>1, <2>3 DEF IsPrintedJump, op, jumps
<1>7. CASE op \in hasjabs(w) /\ target = Unit(w) * r.operand
  <2>1. op \notin jumps.forward \cup jumps.backward /\ ~SinceIn(w, 3, 11)
    BY <1>2, <1>7 DEF Agrees, jumps
  <2>2. target = Scaled(w, r.operand)
    BY <1>3, <1>7
  <2>3. offs(w, r) = target
    BY <2>1, <2>2, Zenon DEF offs, op, jumps
  <2>4. ASSUME op \in jumps.absolute
        PROVE  PrintedTarget(w, r) = target
    BY <1>4, <2>1, <2>2, <2>4 DEF PrintedTarget, op, jumps
  <2> QED
    BY <2>1, <2>3, <2>4 DEF IsPrintedJump, op, jumps
<1> QED
  BY <1>1, <1>5, <1>6, <1>7 DEF op

\* What there is left to read, and the step that ends it.
Rest == Len(code.bytes) - source

Left == IF pc \in {"done", "thrown"} THEN Rest ELSE Rest + 1

LEMMA RestIsFinite == Reading => Rest \in Nat
<1> SUFFICES ASSUME Reading PROVE Rest \in Nat
  OBVIOUS
<1> DEFINE n == Len(code.bytes)
<1>1. n \in Nat /\ source \in 0..n
  BY CodesAssumption, LenProperties DEF Reading, TypeOK
<1>2. Rest = n - source
  BY DEF Rest
<1> HIDE DEF n
<1> QED
  BY <1>1, <1>2

LEMMA LeftIsFinite == Reading => Left \in Nat
BY RestIsFinite DEF Left

LEMMA LeftShrinks == ASSUME Reading, Next PROVE Left' < Left
<1> DEFINE n == Len(code.bytes)
<1>1. n \in Nat /\ source \in Nat /\ Rest = n - source
  BY CodesAssumption, LenProperties DEF Reading, TypeOK, Rest
<1>2. CASE FirstWord \/ NextWord \/ Opcode \/ Prefix \/ Argument
  <2>1. code' = code /\ pc \in {"call", "prefixed", "argument"}
    BY <1>2 DEF FirstWord, NextWord, Opcode, Prefix, Argument, Calls, Go
  <2>2. \E k \in 1..3 : source' = source + k
    BY <1>2 DEF FirstWord, NextWord, Opcode, Prefix, Argument, Advance
  <2>3. Rest' = n - source'
    BY <2>1 DEF Rest
  <2> HIDE DEF n
  <2>4. Rest' < Rest /\ Rest' \in Int /\ Rest \in Int
    BY <1>1, <2>2, <2>3
  <2>5. Left = Rest + 1 /\ (Left' = Rest' \/ Left' = Rest' + 1)
    BY <2>1 DEF Left
  <2> QED
    BY <2>4, <2>5
<1>3. CASE Throw \/ End
  <2>1. /\ Rest' = Rest
        /\ pc \in {"call", "prefixed", "argument"} /\ pc' \in {"done", "thrown"}
    BY <1>3 DEF Throw, End, Rest
  <2>2. Left = Rest + 1 /\ Left' = Rest
    BY <2>1 DEF Left
  <2> QED
    BY <2>2, RestIsFinite
<1> QED
  BY <1>2, <1>3 DEF Next

----------------------------------------------------------------------------
(* The theorems                                                              *)

(* Whatever the bytes: bc_next knows the opcodes it returns or returns the     *)
(* invalid one, and shifting in the prefixes keeps the argument an int.        *)
THEOREM TypeCorrect == Spec => []TypeOK
<1>1. Reading => TypeOK
  BY DEF Reading
<1> QED
  BY <1>1, ReadingAlways, PTL

(* Whatever the bytes: each instruction begins where the one before ends, no   *)
(* instruction is empty, pos is the place in the buffer, and what ends without *)
(* an exception has been read to its last byte.                                *)
THEOREM Consecutive == Spec => []OneAfterAnother
<1>1. Reading => OneAfterAnother
  BY DEF Reading
<1> QED
  BY <1>1, ReadingAlways, PTL

(* Code that the assembler wrote is read as it was listed: each opcode of each *)
(* version, with its argument and at its place, however long the code is; the  *)
(* whole of it without an exception, to the last instruction.                  *)
THEOREM ReadBackAsListed == Spec => []ReadsBack
<1>1. Following => ReadsBack
  BY EndIs DEF Following, Follows, ReadsBack, IsAssembled
<1> QED
  BY <1>1, FollowingAlways, PTL

(* A listing that is cut off is read to an end only where an instruction ends. *)
THEOREM CutIsNoticed == Spec => []CutThrows
<1>1. Following => CutThrows
  BY EndIs DEF CutThrows
<1> QED
  BY <1>1, FollowingAlways, PTL

(* The jumps of every version lead where the assembler meant them to, but for  *)
(* those of 3.11 that are misprinted.                                          *)
THEOREM JumpsLandAsMeant == Spec => []JumpsLand
<1>1. Following => JumpsLand
  <2> SUFFICES ASSUME Following, code.whole,
                      NEW i \in 1..Len(read), code.targets[i] # -1
               PROVE  /\ read[i].opcode \in Kind(v).conditional =>
                           offs(v, read[i]) = code.targets[i]
                      /\ IsPrintedJump(v, read[i].opcode) /\ ~Misprinted(read[i]) =>
                           PrintedTarget(v, read[i]) = code.targets[i]
    BY DEF JumpsLand
  <2>1. IsAssembled(code) /\ Listed(code)
    BY NowIs DEF IsAssembled
  <2>2. read[i] = code.listing[i] /\ i \in DOMAIN code.listing
    <3>1. /\ Len(read) \in Nat /\ Len(code.listing) \in Nat
          /\ Len(read) <= Len(code.listing)
      BY <2>1, NowIs DEF Following, Follows
    <3>2. i \in 1..Len(code.listing)
      BY <3>1
    <3> QED
      BY <2>1, <3>2, LenProperties DEF Following, Follows, Listed
  <2>3. v \in Versions /\ Leads(v, read[i], code.targets[i])
    BY <2>1, <2>2 DEF Listed, v
  <2>4. read[i].operand \in Int
    <3>1. read \in Seq(Result)
      BY DEF Following, Reading, TypeOK, Result
    <3>2. read[i] \in Result
      BY <3>1, ElementOfSeq
    <3> QED
      BY <3>2, IntsInt DEF Result
  <2> QED
    BY <2>3, <2>4, JumpLands DEF Misprinted
<1> QED
  BY <1>1, FollowingAlways, PTL

(* Every step of bc_next takes a byte or ends the reading: no prefix is looked *)
(* at twice, so no code object, however damaged, is read for ever.             *)
THEOREM NothingIsReadTwice == Spec => [](Left \in Nat) /\ [][Left' < Left]_vars
<1>1. Reading /\ [Next]_vars => [Left' < Left]_vars
  BY LeftShrinks
<1> QED
  BY <1>1, LeftIsFinite, ReadingAlways, PTL DEF Spec
=============================================================================
