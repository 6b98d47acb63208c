--------------------------- MODULE PycLong_proofs ---------------------------
(***************************************************************************)
(* Numbers of any length are printed as they are in the file.              *)
(***************************************************************************)
EXTENDS PycLong, TLAPS

\* The bits of the first n words of a number.
Taken(words, n) == UNION {{15 * (k - 1) + b : b \in words[k]} : k \in 1..n}

\* The bits in temp, where they are in the number.
Pending == {32 * Len(bits) + b : b \in temp}

\* Every bit taken is in "bits" or in temp, and the next goes to shift.
Realigned ==
  /\ 15 * i = 32 * Len(bits) + shift
  /\ Positions(bits, 32) \cup Pending = Taken(file.words, i)

IsRead == m_value = file.words /\ m_size = LoadedSize(file)

\* What holds at each place of the program.
AtPc ==
  /\ pc \in {"load", "print"} => /\ i = 0 /\ shift = 0 /\ temp = {} /\ bits = <<>>
                                 /\ text = Nothing
  /\ pc # "load" => IsRead
  /\ pc \in {"realign", "write", "undefined"} => file.type = "long" /\ m_size # 0
  /\ pc = "realign" => Realigned
  /\ pc \in {"write", "undefined"} => Positions(bits, 32) = Positions(file.words, 15)
  /\ pc = "undefined" => bits = <<>>

IInv == file \in Longs /\ TypeOK /\ AtPc /\ ValueKept /\ TextFits

----------------------------------------------------------------------------

\* What a number in the file is.
LEMMA FileIsLong ==
  ASSUME file \in Longs
  PROVE  /\ file.size \in Int
         /\ file.words \in Seq(Word)
         /\ Len(file.words) \in Nat
         /\ file.type \in {"long", "int64"}
         /\ file.type = "long" => Len(file.words) \in {file.size, -file.size}
         /\ file.py3 \in BOOLEAN
         /\ \A k \in 1..Len(file.words) : file.words[k] \in SUBSET (0..15)
         /\ LoadedSize(file) \in Int
         /\ file.type = "long" => LoadedSize(file) = file.size
BY LongsAssumption, SMTT(20) DEF Word, LoadedSize

\* All words taken are the number.
LEMMA TakenAll == \A words : Taken(words, Len(words)) = Positions(words, 15)
BY DEF Taken, Positions

\* One more word taken.
LEMMA TakenNext ==
  ASSUME NEW words, NEW n \in Nat
  PROVE  Taken(words, n + 1) = Taken(words, n) \cup {15 * n + b : b \in words[n + 1]}
<1>1. 1..(n + 1) = (1..n) \cup {n + 1} /\ (n + 1) - 1 = n
  OBVIOUS
<1>2. QED
  BY <1>1 DEF Taken

\* One more word put away.
LEMMA PositionsAppend ==
  ASSUME NEW s \in Seq(SUBSET (0..31)), NEW w \in SUBSET (0..31)
  PROVE  Positions(Append(s, w), 32) = Positions(s, 32) \cup {32 * Len(s) + b : b \in w}
<1>1. /\ Len(Append(s, w)) = Len(s) + 1
      /\ Append(s, w)[Len(s) + 1] = w
      /\ \A k \in 1..Len(s) : Append(s, w)[k] = s[k]
  OBVIOUS
<1>2. 1..(Len(s) + 1) = (1..Len(s)) \cup {Len(s) + 1} /\ (Len(s) + 1) - 1 = Len(s)
  OBVIOUS
<1> DEFINE A(k) == {32 * (k - 1) + b : b \in Append(s, w)[k]}
           B(k) == {32 * (k - 1) + b : b \in s[k]}
<1>3. \A k \in 1..Len(s) : A(k) = B(k)
  BY <1>1
<1>4. A(Len(s) + 1) = {32 * Len(s) + b : b \in w}
  BY <1>1, <1>2
<1>5. Positions(Append(s, w), 32) = UNION {A(k) : k \in 1..(Len(s) + 1)}
  BY <1>1 DEF Positions
<1>6. Positions(s, 32) = UNION {B(k) : k \in 1..Len(s)}
  BY DEF Positions
<1> HIDE DEF A, B
<1>7. UNION {A(k) : k \in 1..(Len(s) + 1)} = (UNION {B(k) : k \in 1..Len(s)}) \cup A(Len(s) + 1)
  BY <1>2, <1>3
<1>8. QED
  BY <1>4, <1>5, <1>6, <1>7

\* A word of 32 bits has at most eight hexadecimal digits.
LEMMA DigitsBound ==
  ASSUME NEW w \in SUBSET (0..31)
  PROVE  HexDigits(w) \in 1..8
<1> DEFINE Fits(d) == \A b \in w : b < 4 * d
           Least(d) == Fits(d) /\ (d > 1 => \E b \in w : b >= 4 * (d - 1))
<1>1. Fits(8)
  OBVIOUS
<1>2. \A d \in 2..8 : Fits(d) => Least(d) \/ Fits(d - 1)
  OBVIOUS
<1>3. Fits(1) => Least(1)
  OBVIOUS
<1>4. \E d \in 1..8 : Least(d)
  <2> HIDE DEF Fits, Least
  <2>1. Least(8) \/ Fits(7)
    BY <1>1, <1>2
  <2>2. Fits(7) => Least(7) \/ Fits(6)
    BY <1>2
  <2>3. Fits(6) => Least(6) \/ Fits(5)
    BY <1>2
  <2>4. Fits(5) => Least(5) \/ Fits(4)
    BY <1>2
  <2>5. Fits(4) => Least(4) \/ Fits(3)
    BY <1>2
  <2>6. Fits(3) => Least(3) \/ Fits(2)
    BY <1>2
  <2>7. Fits(2) => Least(2) \/ Fits(1)
    BY <1>2
  <2>8. QED
    BY <1>3, <2>1, <2>2, <2>3, <2>4, <2>5, <2>6, <2>7
<1>5. QED
  BY <1>4 DEF HexDigits

\* What fits of a word stays where it is.
LEMMA LeftFits ==
  ASSUME NEW w \in SUBSET (0..15), NEW n \in 0..31, n + 15 < 32
  PROVE  /\ Left(w, n) \in SUBSET (0..31)
         /\ \A m \in Int : {m + b : b \in Left(w, n)} = {m + n + b : b \in w}
<1>1. Left(w, n) = {n + b : b \in w}
  BY DEF Left
<1>2. QED
  BY <1>1, SMTT(20) DEF Left

\* What does not fit starts the next word.
LEMMA LeftRight ==
  ASSUME NEW w \in SUBSET (0..15), NEW n \in 0..31, n + 15 >= 32
  PROVE  /\ Left(w, n) \in SUBSET (0..31)
         /\ Right(w, 32 - n) \in SUBSET (0..31)
         /\ \A m \in Int : {m + b : b \in Left(w, n)} \cup {m + 32 + b : b \in Right(w, 32 - n)}
                           = {m + n + b : b \in w}
<1>1. \A b \in w : \/ b + n \in Left(w, n)
                   \/ b + n - 32 \in Right(w, 32 - n)
  BY DEF Left, Right
<1>2. \A b \in Left(w, n) : b \in 0..31 /\ b - n \in w
  BY DEF Left
<1>3. \A b \in Right(w, 32 - n) : b \in 0..31 /\ b + (32 - n) \in w
  BY DEF Right
<1>4. ASSUME NEW m \in Int
      PROVE  {m + b : b \in Left(w, n)} \cup {m + 32 + b : b \in Right(w, 32 - n)}
               = {m + n + b : b \in w}
  <2>1. \A b \in w : m + n + b = m + (b + n) /\ m + n + b = m + 32 + (b + n - 32)
    OBVIOUS
  <2>2. \A b \in Left(w, n) : m + b = m + n + (b - n)
    BY <1>2
  <2>3. \A b \in Right(w, 32 - n) : m + 32 + b = m + n + (b + (32 - n))
    BY <1>3
  <2> HIDE DEF Left, Right
  <2>4. QED
    BY <1>1, <1>2, <1>3, <2>1, <2>2, <2>3
<1>5. QED
  BY <1>4 DEF Left, Right

----------------------------------------------------------------------------

LEMMA InitIInv == Init => IInv
BY DEF Init, IInv, TypeOK, AtPc, ValueKept, TextFits, Nothing, Word

\* What a round of the loop starts from.
LEMMA InLoopFacts ==
  ASSUME IInv, InLoop
  PROVE  /\ i \in Nat /\ i + 1 \in 1..Len(m_value) /\ m_value = file.words
         /\ shift \in 0..31 /\ temp \in SUBSET (0..31)
         /\ bits \in Seq(SUBSET (0..31)) /\ Len(bits) \in Nat
         /\ 15 * i = 32 * Len(bits) + shift
         /\ Positions(bits, 32) \cup Pending = Taken(file.words, i)
         /\ m_value[i + 1] \in SUBSET (0..15)
         /\ Taken(file.words, i + 1)
              = Taken(file.words, i) \cup {32 * Len(bits) + shift + b : b \in m_value[i + 1]}
<1>1. /\ m_value = file.words /\ i \in Nat /\ i < Len(m_value)
      /\ shift \in 0..31 /\ temp \in SUBSET (0..31) /\ bits \in Seq(SUBSET (0..31))
  BY FileIsLong DEF IInv, TypeOK, AtPc, IsRead, InLoop
<1>2. 15 * i = 32 * Len(bits) + shift /\ Positions(bits, 32) \cup Pending = Taken(file.words, i)
  BY DEF IInv, AtPc, InLoop, Realigned
<1>3. Len(bits) \in Nat
  BY <1>1
<1>4. i + 1 \in 1..Len(m_value)
  BY <1>1, FileIsLong DEF IInv
<1>5. m_value[i + 1] \in SUBSET (0..15)
  BY <1>1, <1>4, FileIsLong DEF IInv
<1>6. Taken(file.words, i + 1) = Taken(file.words, i) \cup {15 * i + b : b \in file.words[i + 1]}
  BY <1>1, TakenNext
<1>7. QED
  BY <1>1, <1>2, <1>3, <1>4, <1>5, <1>6

LEMMA NextWord ==
  ASSUME NEW a \in Int, NEW m \in Int, NEW n \in Int, 15 * a = m + n
  PROVE  15 * (a + 1) = m + (n + 15) /\ 15 * (a + 1) = m + 32 + (n - 17)
OBVIOUS

\* A round that fills temp keeps the bits together.
LEMMA GatherRealigns ==
  ASSUME IInv, Gather
  PROVE  Realigned' /\ temp' \in SUBSET (0..31) /\ shift' \in 0..31
<1> DEFINE w == m_value[i + 1]
           base == 32 * Len(bits)
<1>1. InLoop /\ shift + 15 < 32
  BY DEF Gather
<1>2. /\ temp' = temp \cup Left(w, shift) /\ shift' = shift + 15 /\ i' = i + 1
      /\ bits' = bits /\ file' = file
  BY DEF Gather, Filled
<1>3. /\ i \in Nat /\ shift \in 0..31 /\ temp \in SUBSET (0..31) /\ w \in SUBSET (0..15)
      /\ Len(bits) \in Nat /\ base \in Int
      /\ 15 * i = base + shift
      /\ Positions(bits, 32) \cup Pending = Taken(file.words, i)
      /\ Taken(file.words, i + 1) = Taken(file.words, i) \cup {base + shift + b : b \in w}
  BY <1>1, InLoopFacts
<1>4. Pending' = {base + b : b \in temp'}
  BY <1>2 DEF Pending
<1>5. Pending = {base + b : b \in temp}
  BY DEF Pending
<1>6. 15 * i' = 32 * Len(bits') + shift' /\ shift' \in 0..31
  <2>1. i \in Int /\ base \in Int /\ shift \in Int
    BY <1>3
  <2>2. 15 * (i + 1) = base + (shift + 15)
    BY <2>1, <1>3, NextWord
  <2>3. shift + 15 \in 0..31
    BY <2>1, <1>1, <1>3
  <2>4. 32 * Len(bits') = base
    BY <1>2
  <2> HIDE DEF w, base
  <2>5. 15 * i' = base + shift'
    BY <1>2, <2>2
  <2>6. QED
    BY <1>2, <2>3, <2>4, <2>5
<1>7. /\ Positions(bits, 32)' = Positions(bits, 32)
      /\ Taken(file.words, i)' = Taken(file.words, i + 1)
  BY <1>2
<1> HIDE DEF w, base
<1>8. /\ Left(w, shift) \in SUBSET (0..31)
      /\ {base + b : b \in Left(w, shift)} = {base + shift + b : b \in w}
  BY <1>1, <1>3, LeftFits
<1>9. Positions(bits, 32)' \cup Pending' = Taken(file.words, i)'
  <2>1. Pending' = Pending \cup {base + b : b \in Left(w, shift)}
    BY <1>2, <1>4, <1>5
  <2>2. QED
    BY <2>1, <1>3, <1>7, <1>8
<1>10. temp' \in SUBSET (0..31)
  BY <1>2, <1>3, <1>8
<1>11. QED
  BY <1>6, <1>9, <1>10 DEF Realigned

\* So does a round that starts a new word of 32 bits.
LEMMA CarryRealigns ==
  ASSUME IInv, Carry
  PROVE  /\ Realigned' /\ temp' \in SUBSET (0..31) /\ shift' \in 0..31
         /\ bits' \in Seq(SUBSET (0..31))
<1> DEFINE w == m_value[i + 1]
           base == 32 * Len(bits)
           full == temp \cup Left(w, shift)
<1>1. InLoop /\ shift + 15 >= 32
  BY DEF Carry
<1>2. /\ temp' = Right(w, 32 - shift) /\ shift' = shift - 17 /\ i' = i + 1
      /\ bits' = Append(bits, full) /\ file' = file
  BY DEF Carry, Filled
<1>3. /\ i \in Nat /\ shift \in 0..31 /\ temp \in SUBSET (0..31) /\ w \in SUBSET (0..15)
      /\ bits \in Seq(SUBSET (0..31)) /\ Len(bits) \in Nat /\ base \in Int
      /\ 15 * i = base + shift
      /\ Positions(bits, 32) \cup Pending = Taken(file.words, i)
      /\ Taken(file.words, i + 1) = Taken(file.words, i) \cup {base + shift + b : b \in w}
  BY <1>1, InLoopFacts
<1>4. /\ Left(w, shift) \in SUBSET (0..31)
      /\ Right(w, 32 - shift) \in SUBSET (0..31)
      /\ {base + b : b \in Left(w, shift)} \cup {base + 32 + b : b \in Right(w, 32 - shift)}
           = {base + shift + b : b \in w}
  <2> HIDE DEF w, base, full
  <2>1. w \in SUBSET (0..15) /\ shift \in 0..31 /\ base \in Int
    BY <1>3
  <2>2. \A m \in Int : {m + b : b \in Left(w, shift)} \cup {m + 32 + b : b \in Right(w, 32 - shift)}
                        = {m + shift + b : b \in w}
    BY <1>1, <2>1, LeftRight
  <2>3. Left(w, shift) \in SUBSET (0..31) /\ Right(w, 32 - shift) \in SUBSET (0..31)
    BY <1>1, <2>1, LeftRight
  <2>4. QED
    BY <2>1, <2>2, <2>3
<1>5. full \in SUBSET (0..31)
  BY <1>3, <1>4
<1>6. Pending = {base + b : b \in temp}
  BY DEF Pending
<1>7. {base + b : b \in full} = Pending \cup {base + b : b \in Left(w, shift)}
  BY <1>6
<1> HIDE DEF full
<1>8. /\ bits' \in Seq(SUBSET (0..31)) /\ Len(bits') = Len(bits) + 1
      /\ Positions(bits', 32) = Positions(bits, 32) \cup {base + b : b \in full}
  <2>1. bits' \in Seq(SUBSET (0..31)) /\ Len(bits') = Len(bits) + 1
    BY <1>2, <1>3, <1>5
  <2>2. Positions(Append(bits, full), 32) = Positions(bits, 32) \cup {32 * Len(bits) + b : b \in full}
    BY <1>3, <1>5, PositionsAppend
  <2>3. QED
    BY <1>2, <2>1, <2>2
<1>9. 32 * Len(bits') = base + 32
  BY <1>3, <1>8
<1>10. Pending' = {base + 32 + b : b \in Right(w, 32 - shift)}
  <2>1. Pending' = {32 * Len(bits') + b : b \in temp'}
    BY DEF Pending
  <2> HIDE DEF base, w
  <2>2. QED
    BY <2>1, <1>2, <1>9
<1>11. 15 * (i + 1) = base + 32 + (shift - 17)
  <2>1. i \in Int /\ base \in Int /\ shift \in Int
    BY <1>3
  <2>2. QED
    BY <2>1, <1>3, NextWord
<1> HIDE DEF w, base
<1>12. Positions(bits', 32) \cup Pending' = Taken(file'.words, i')
  BY <1>2, <1>3, <1>4, <1>7, <1>8, <1>10
<1>13. 15 * i' = 32 * Len(bits') + shift' /\ shift' \in 0..31
  <2>1. shift - 17 \in 0..31
    BY <1>1, <1>3
  <2> HIDE DEF w, base
  <2>2. 15 * i' = (base + 32) + shift'
    BY <1>2, <1>11
  <2>3. QED
    BY <1>2, <1>9, <2>1, <2>2
<1>14. Realigned'
  BY <1>12, <1>13 DEF Realigned
<1>15. QED
  BY <1>2, <1>4, <1>8, <1>13, <1>14

\* The last word is put away if it has a bit.
LEMMA EndLoopKeeps ==
  ASSUME IInv, EndLoop
  PROVE  /\ Positions(bits', 32) = Positions(file.words, 15)
         /\ bits' \in Seq(SUBSET (0..31))
<1>1. /\ file \in Longs /\ i = Len(file.words) /\ temp \in SUBSET (0..31)
      /\ bits \in Seq(SUBSET (0..31)) /\ Len(bits) \in Nat
      /\ Positions(bits, 32) \cup Pending = Taken(file.words, i)
  BY DEF IInv, TypeOK, AtPc, IsRead, Realigned, EndLoop
<1>2. Taken(file.words, i) = Positions(file.words, 15)
  BY <1>1, TakenAll
<1>3. bits' = IF temp = {} THEN bits ELSE Append(bits, temp)
  BY DEF EndLoop
<1>4. CASE temp = {}
  <2>1. Pending = {}
    BY <1>4 DEF Pending
  <2>2. QED
    BY <1>1, <1>2, <1>3, <1>4, <2>1
<1>5. CASE temp # {}
  <2>1. Positions(Append(bits, temp), 32) = Positions(bits, 32) \cup {32 * Len(bits) + b : b \in temp}
    BY <1>1, PositionsAppend
  <2>2. Positions(Append(bits, temp), 32) = Positions(file.words, 15)
    BY <2>1, <1>1, <1>2 DEF Pending
  <2>3. Append(bits, temp) \in Seq(SUBSET (0..31))
    BY <1>1
  <2>4. QED
    BY <1>3, <1>5, <2>2, <2>3
<1>6. QED
  BY <1>4, <1>5

LEMMA InSeq ==
  ASSUME NEW S, NEW s \in Seq(S)
  PROVE  \A k \in 1..Len(s) : s[k] \in S
OBVIOUS

\* The text of a word sequence fits into the room made for it.
LEMMA WriteFits ==
  ASSUME NEW s \in Seq(SUBSET (0..31)), s # <<>>, NEW t,
         t.groups = s, t.neg \in BOOLEAN, t.suffix \in BOOLEAN
  PROVE  Written(t) <= 3 + 8 * Len(s) + 2
<1>1. Len(s) \in Nat /\ Len(s) \in 1..Len(s)
  OBVIOUS
<1>2. s[Len(s)] \in SUBSET (0..31)
  <2>1. \A k \in 1..Len(s) : s[k] \in SUBSET (0..31)
    BY InSeq
  <2>2. QED
    BY <1>1, <2>1
<1>3. HexDigits(s[Len(s)]) \in 1..8
  BY <1>2, DigitsBound
<1>4. (IF t.neg THEN 1 ELSE 0) \in 0..1 /\ (IF t.suffix THEN 1 ELSE 0) \in 0..1
  OBVIOUS
<1>5. \A n \in Nat, h \in 1..8, a, b \in 0..1 : a + 2 + h + 8 * (n - 1) + b + 1 <= 3 + 8 * n + 2
  OBVIOUS
<1>6. QED
  BY <1>1, <1>3, <1>4, <1>5 DEF Written

LEMMA NextIInv == IInv /\ [Next]_vars => IInv'
<1> SUFFICES ASSUME IInv, [Next]_vars
             PROVE  IInv'
  OBVIOUS
<1>1. file \in Longs /\ file.py3 \in BOOLEAN
  BY FileIsLong DEF IInv
<1>2. CASE load
  <2>1. file' = file /\ pc' = "print" /\ m_value' = file.words /\ m_size' = LoadedSize(file)
    BY <1>2 DEF load
  <2>2. TypeOK'
    BY <1>1, <1>2, FileIsLong DEF IInv, TypeOK, AtPc, load
  <2>3. AtPc'
    BY <1>2 DEF IInv, AtPc, load, IsRead
  <2>4. QED
    BY <1>1, <2>1, <2>2, <2>3 DEF IInv, ValueKept, TextFits
<1>3. CASE PrintType
  <2>1. TypeOK'
    BY <1>1, <1>3 DEF IInv, TypeOK, PrintType, Text
  <2>2. AtPc' /\ file' = file /\ ValueKept' /\ TextFits'
    BY <1>3 DEF IInv, AtPc, PrintType, IsRead, ValueKept, TextFits, Text
  <2>3. QED
    BY <1>1, <2>1, <2>2 DEF IInv
<1>4. CASE PrintZero
  <2>1. TypeOK'
    BY <1>1, <1>4 DEF IInv, TypeOK, PrintZero, Text
  <2>2. AtPc' /\ file' = file
    BY <1>4 DEF IInv, AtPc, PrintZero, IsRead
  <2>3. file.type = "long" /\ file.size = 0 /\ Len(file.words) = 0 /\ bits = <<>>
    BY <1>1, <1>4, FileIsLong DEF IInv, AtPc, PrintZero, IsRead
  <2>4. Positions(file.words, 15) = {} /\ Positions(<<{}>>, 32) = {}
    BY <2>3 DEF Positions
  <2>5. ValueKept' /\ TextFits'
    <3>1. text'.groups = <<{}>> /\ text'.neg = FALSE /\ bits' = <<>>
      BY <1>4, <2>3 DEF PrintZero, Text
    <3>2. ~ (file.size < 0)
      BY <2>3
    <3>3. QED
      BY <2>2, <2>4, <3>1, <3>2 DEF ValueKept, TextFits
  <2>6. QED
    BY <1>1, <2>1, <2>2, <2>5 DEF IInv
<1>5. CASE PrintLong
  <2>1. TypeOK'
    BY <1>5 DEF IInv, TypeOK, PrintLong
  <2>2. /\ i = 0 /\ shift = 0 /\ temp = {} /\ bits = <<>> /\ file' = file /\ i' = i
        /\ shift' = shift /\ temp' = temp /\ bits' = bits /\ pc' = "realign"
    BY <1>5 DEF IInv, AtPc, PrintLong
  <2>3. Realigned'
    BY <2>2 DEF Realigned, Positions, Pending, Taken
  <2>4. AtPc'
    BY <1>5, <2>2, <2>3 DEF IInv, AtPc, PrintLong, IsRead
  <2>5. QED
    BY <1>1, <2>1, <2>2, <2>4 DEF IInv, ValueKept, TextFits
<1>6. CASE Gather
  <2>1. Realigned' /\ temp' \in SUBSET (0..31) /\ shift' \in 0..31
    BY <1>6, GatherRealigns
  <2>2. TypeOK'
    BY <1>6, <2>1, InLoopFacts DEF IInv, TypeOK, Gather, InLoop
  <2>3. AtPc'
    BY <1>6, <2>1 DEF IInv, AtPc, Gather, InLoop, IsRead
  <2>4. pc' = "realign" /\ file' = file
    BY <1>6 DEF Gather, InLoop
  <2>5. QED
    BY <1>1, <2>2, <2>3, <2>4 DEF IInv, ValueKept, TextFits
<1>7. CASE Carry
  <2>1. /\ Realigned' /\ temp' \in SUBSET (0..31) /\ shift' \in 0..31
        /\ bits' \in Seq(SUBSET (0..31))
    BY <1>7, CarryRealigns
  <2>2. TypeOK'
    BY <1>7, <2>1, InLoopFacts DEF IInv, TypeOK, Carry, InLoop
  <2>3. AtPc'
    BY <1>7, <2>1 DEF IInv, AtPc, Carry, InLoop, IsRead
  <2>4. pc' = "realign" /\ file' = file
    BY <1>7 DEF Carry, InLoop
  <2>5. QED
    BY <1>1, <2>2, <2>3, <2>4 DEF IInv, ValueKept, TextFits
<1>8. CASE EndLoop
  <2>1. /\ Positions(bits', 32) = Positions(file.words, 15)
        /\ bits' \in Seq(SUBSET (0..31))
    BY <1>8, EndLoopKeeps
  <2>2. TypeOK'
    BY <1>8, <2>1 DEF IInv, TypeOK, EndLoop
  <2>3. pc' = "write" /\ file' = file
    BY <1>8 DEF EndLoop
  <2>4. AtPc'
    BY <1>8, <2>1, <2>3 DEF IInv, AtPc, EndLoop, IsRead
  <2>5. QED
    BY <1>1, <2>2, <2>3, <2>4 DEF IInv, ValueKept, TextFits
<1>9. CASE Write
  <2>1. /\ file.type = "long" /\ bits # <<>> /\ bits \in Seq(SUBSET (0..31))
        /\ Positions(bits, 32) = Positions(file.words, 15) /\ m_size = file.size
        /\ text' = Text("hex", m_size < 0, bits) /\ file' = file /\ bits' = bits /\ pc' = "done"
    BY <1>1, <1>9, FileIsLong DEF IInv, TypeOK, AtPc, IsRead, Write
  <2>2. text'.groups = bits /\ text'.neg \in BOOLEAN /\ text'.suffix \in BOOLEAN
    BY <1>1, <2>1 DEF Text
  <2>3. TypeOK'
    BY <1>1, <1>9, <2>1 DEF IInv, TypeOK, Write, Text
  <2>4. AtPc'
    BY <1>9 DEF IInv, AtPc, Write, IsRead
  <2>5. ValueKept'
    BY <2>1 DEF ValueKept, Text
  <2>6. TextFits'
    BY <2>1, <2>2, WriteFits DEF TextFits, Room
  <2>7. QED
    BY <1>1, <2>1, <2>3, <2>4, <2>5, <2>6 DEF IInv
<1>10. CASE WriteUndefined
  <2>1. TypeOK' /\ file' = file /\ pc' = "undefined"
    BY <1>10 DEF IInv, TypeOK, WriteUndefined
  <2>2. AtPc'
    BY <1>10 DEF IInv, AtPc, WriteUndefined, IsRead
  <2>3. QED
    BY <1>1, <2>1, <2>2 DEF IInv, ValueKept, TextFits
<1>11. CASE UNCHANGED vars
  BY <1>11 DEF IInv, TypeOK, AtPc, ValueKept, TextFits, IsRead, Realigned, Pending, Room, vars
<1>12. QED
  BY <1>2, <1>3, <1>4, <1>5, <1>6, <1>7, <1>8, <1>9, <1>10, <1>11 DEF Next

THEOREM Inductive == Spec => []IInv
<1>1. QED
  BY InitIInv, NextIInv, PTL DEF Spec

----------------------------------------------------------------------------

\* The variables keep their types on numbers of any length: the shift stays
\* below 32 wherever a digit lies across two words.
THEOREM TypeCorrect == Spec => []TypeOK
<1>1. IInv => TypeOK
  BY DEF IInv
<1>2. QED
  BY <1>1, Inductive, PTL

\* A long of any length and sign is printed with the bits it has in the file.
THEOREM PrintsTheNumber == Spec => []ValueKept
<1>1. IInv => ValueKept
  BY DEF IInv
<1>2. QED
  BY <1>1, Inductive, PTL

\* The text never outgrows the string that repr() makes for it.
LEMMA StaysInItsRoom == Spec => []TextFits
<1>1. IInv => TextFits
  BY DEF IInv
<1>2. QED
  BY <1>1, Inductive, PTL

\* On what CPython writes repr() never reads from an empty vector.
LEMMA NeverUndefined == Spec => []NormalIsDefined
<1>1. IInv => NormalIsDefined
  <2> SUFFICES ASSUME IInv, Normal(file), pc = "undefined"
               PROVE  FALSE
    BY DEF NormalIsDefined
  <2>1. /\ file.type = "long" /\ file.size # 0 /\ bits = <<>>
        /\ Positions(bits, 32) = Positions(file.words, 15)
    BY FileIsLong DEF IInv, AtPc, IsRead
  <2>2. Len(file.words) \in 1..Len(file.words) /\ file.words # <<>>
    BY <2>1, FileIsLong DEF IInv
  <2>3. PICK b : b \in file.words[Len(file.words)]
    BY <2>2 DEF Normal
  <2>4. 15 * (Len(file.words) - 1) + b \in Positions(file.words, 15)
    BY <2>2, <2>3 DEF Positions
  <2>5. Positions(bits, 32) = {}
    BY <2>1 DEF Positions
  <2>6. QED
    BY <2>1, <2>4, <2>5
<1>2. QED
  BY <1>1, Inductive, PTL

\* repr() reads and writes inside its memory, for a long of any length: the
\* text fits, and the vector is empty only where all digits are zero.
THEOREM StaysInBounds == Spec => []InBounds
<1>1. TextFits /\ NormalIsDefined => InBounds
  BY DEF InBounds
<1>2. QED
  BY <1>1, StaysInItsRoom, NeverUndefined, PTL
=============================================================================
