----------------------- MODULE StatementBuilder_proofs ----------------------
(***************************************************************************)
(* Proofs about StatementBuilder, for any code: a parallel assignment that *)
(* has begun finds all its stores, with no other instruction in between;   *)
(* a statement that is out stays out; the build ends.                      *)
(***************************************************************************)
EXTENDS StatementBuilder, SequenceTheorems, WellFoundedInduction, TLAPS

----------------------------------------------------------------------------
(* The inductive invariant.  What stands before the next store of a run is *)
(* a store, so the store is no walrus's.                                   *)

TuplesTyped ==
  /\ tupleStore \in Nat
  /\ IsSequence(tupleStoreTargets) /\ IsSequence(tupleStoreValues)

CodeTyped == IsSequence(code) /\ pos \in Nat \ {0}

StoredBefore ==
  tupleStore > 0 => pos > 1 /\ pos - 1 \in DOMAIN code /\ code[pos - 1].op \in NameStores

IInv == CodeTyped /\ TuplesTyped /\ RunAhead /\ StoredBefore

----------------------------------------------------------------------------
(* Sequences and minima.                                                   *)

LEMMA AppendLengthens ==
  ASSUME NEW s, IsSequence(s), NEW x
  PROVE  /\ IsSequence(Append(s, x))
         /\ Len(s) \in Nat /\ Len(Append(s, x)) = Len(s) + 1
         /\ Append(s, x) # <<>>
<1> DEFINE T == {s[j] : j \in DOMAIN s} \cup {x}
           r == Append(s, x)
<1>1. s \in Seq(T) /\ x \in T
  BY DEF IsSequence
<1>2. r \in Seq(T) /\ Len(s) \in Nat /\ Len(r) = Len(s) + 1 /\ r # <<>>
  BY <1>1
<1>3. r \in Seq({r[j] : j \in DOMAIN r})
  <2>1. DOMAIN r = 1..Len(r) /\ Len(r) \in Nat /\ r = [j \in 1..Len(r) |-> r[j]]
    <3> HIDE DEF r, T
    <3> QED
      BY <1>2, LenProperties
  <2>2. r \in [1..Len(r) -> {r[j] : j \in DOMAIN r}]
    <3> HIDE DEF r
    <3> QED
      BY <2>1
  <2> HIDE DEF r
  <2> QED
    BY <2>1, <2>2, SeqDef
<1> QED
  BY <1>2, <1>3 DEF IsSequence

\* A set of numbers has a least one.
LEMMA LeastExists ==
  ASSUME NEW S, S \subseteq Nat, S # {}
  PROVE  \E q \in S : \A r \in S : q <= r
<1>1. PICK q \in S : \A r \in S : ~(<<r, q>> \in OpToRel(<, Nat))
  BY WFMin, NatLessThanWellFounded
<1>2. \A r \in S : ~(r < q)
  BY <1>1 DEF OpToRel
<1> QED
  BY <1>2

\* A run that starts consists of stores to names, at least two.
LEMMA RunOfStores ==
  ASSUME CodeTyped, pos <= Len(code), tupleAssignStart(pos) > 0
  PROVE  LET run == tupleAssignStart(pos)
         IN /\ run \in Nat /\ run >= 2
            /\ \A p \in pos..(pos + run - 1) : p \in DOMAIN code /\ code[p].op \in NameStores
<1> DEFINE ends == {q \in pos..(Len(code) + 1) :
                      q > Len(code) \/ code[q].op \notin NameStores}
           last == storesEnd(pos)
<1>1. Len(code) \in Nat /\ pos \in Nat /\ DOMAIN code = 1..Len(code) /\ pos >= 1
  BY DEF CodeTyped, IsSequence
<1>2. Len(code) + 1 \in ends /\ ends \subseteq Nat
  BY <1>1
<1>3. last \in ends /\ \A r \in ends : last <= r
  <2>1. \E q \in ends : \A r \in ends : q <= r
    BY <1>2, LeastExists
  <2>2. last = CHOOSE q \in ends : \A r \in ends : q <= r
    BY DEF storesEnd
  <2> HIDE DEF ends, last
  <2> QED
    BY <2>1, <2>2
<1>4. tupleAssignStart(pos) = last - pos /\ last - pos >= 2
  <2>1. last \in Nat
    BY <1>2, <1>3
  <2> HIDE DEF ends, last
  <2>2. \/ tupleAssignStart(pos) = 0
        \/ ~(last - pos < 2) /\ tupleAssignStart(pos) = last - pos
    BY DEF tupleAssignStart, last
  <2> QED
    BY <2>1, <2>2, <1>1
<1>5. ASSUME NEW p \in pos..(last - 1)
      PROVE  p \in DOMAIN code /\ code[p].op \in NameStores
  <2>1. p \notin ends /\ p \in pos..(Len(code) + 1) /\ p <= Len(code)
    BY <1>1, <1>3
  <2> QED
    BY <2>1, <1>1
<1>6. last \in Nat
  BY <1>2, <1>3
<1> HIDE DEF last
<1> QED
  BY <1>1, <1>4, <1>5, <1>6

----------------------------------------------------------------------------
(* The steps.                                                              *)

\* Every instruction but the stores of a run leaves the run alone.
LEMMA OthersLeaveTuples ==
  ASSUME CodeTyped, Step, ~tupleStoreStep
  PROVE  UNCHANGED <<code, tuples>> /\ pos' \in Nat \ {0}
<1> SUFFICES UNCHANGED <<code, tuples>> /\ pos' \in {pos, pos + 1, pos + 2}
  <2>1. pos \in Nat /\ pos # 0
    BY DEF CodeTyped
  <2>2. \A p \in Nat \ {0} : p + 1 \in Nat \ {0} /\ p + 2 \in Nat \ {0}
    OBVIOUS
  <2> QED
    BY <2>1, <2>2, Zenon
<1>1. CASE Evaluate \/ CallBuildClass \/ HandleCall \/ YieldValue
  BY <1>1 DEF Evaluate, CallBuildClass, HandleCall, YieldValue
<1>2. CASE StoreWalrus \/ StoreUnpacked \/ StoreAnnotation
  BY <1>2 DEF StoreWalrus, StoreUnpacked, StoreAnnotation, Stored
<1>3. CASE StoreMapEntry \/ StorePlain \/ StoreClassCell
  BY <1>3 DEF StoreMapEntry, StorePlain, StoreClassCell, Stored
<1>4. CASE UnpackNone \/ handleUnpack
  BY <1>4 DEF UnpackNone, handleUnpack
<1>5. CASE SwapAndPop \/ SwapExchanges \/ SwapOpensTuple
  BY <1>5 DEF SwapAndPop, SwapExchanges, SwapOpensTuple
<1>6. CASE handleStoreSlice \/ handleRaiseVarargs \/ handleExecStmt \/ ImportStar
  BY <1>6 DEF handleStoreSlice, handleRaiseVarargs, handleExecStmt, ImportStar, Statement
<1>7. CASE handleDelete
  BY <1>7 DEF handleDelete, Statement
<1>8. CASE handlePrint \/ SetupAnnotations \/ handlePopTop
  BY <1>8 DEF handlePrint, SetupAnnotations, handlePopTop
<1>9. CASE handleForIter \/ handleSetupWith \/ Unsupported
  BY <1>9 DEF handleForIter, handleSetupWith, Unsupported
<1> QED
  BY <1>1, <1>2, <1>3, <1>4, <1>5, <1>6, <1>7, <1>8, <1>9 DEF Step, Stores

\* While a run is open the next instruction stores to a name, and only the
\* run takes it.
LEMMA RunTakesTheStore ==
  ASSUME IInv, Step, tupleStore > 0
  PROVE  tupleStoreStep
<1> USE DEF IInv
<1>1. Ins.op \in NameStores
  BY DEF RunAhead, CodeTyped, TuplesTyped, Ins
<1>2. ~walrusStores(pos)
  <2>1. code[pos - 1].op # "COPY"
    BY DEF StoredBefore, NameStores
  <2> QED
    BY <2>1 DEF walrusStores, IsCopy
<1>3. InRun # 0
  BY DEF InRun, TuplesTyped
<1>4. ~NotYetStored /\ ~StoreWalrus
  BY <1>1, <1>2, <1>3 DEF NotYetStored, StoreWalrus
<1>5. Ins.op \notin ExpressionOpcodes
  BY <1>1 DEF NameStores, ExpressionOpcodes, UnaryOpcodes, BinaryOpcodes, LoadOpcodes,
     NameLoads, CollectionOpcodes, UpdateOpcodes, SubscriptOpcodes, ShuffleOpcodes,
     UnaryOps, FromOpcode
<1>6. ~Evaluate
  BY <1>5, Zenon DEF Evaluate, At
<1>7. ~CallBuildClass /\ ~HandleCall /\ ~YieldValue /\ ~UnpackNone /\ ~handleUnpack
  BY <1>1 DEF CallBuildClass, HandleCall, YieldValue, UnpackNone, handleUnpack, At,
              NameStores, Unpackings
<1>8. ~StoreUnpacked /\ ~StorePlain /\ ~StoreClassCell
  BY <1>4 DEF StoreUnpacked, StorePlain, StoreClassCell
<1>9. ~StoreAnnotation /\ ~StoreMapEntry
  BY <1>1 DEF StoreAnnotation, StoreMapEntry, IsAnnotation, NameStores
<1>10. ~SwapAndPop /\ ~SwapExchanges /\ ~SwapOpensTuple
  BY <1>1 DEF SwapAndPop, SwapExchanges, SwapOpensTuple, At, NameStores
<1>11. ~handleStoreSlice /\ ~handleDelete /\ ~handleRaiseVarargs /\ ~handleExecStmt
  BY <1>1 DEF handleStoreSlice, handleDelete, handleRaiseVarargs, handleExecStmt, At,
              NameStores, SliceStores, SliceDeletes, NameDeletes
<1>12. ~ImportStar /\ ~handlePrint /\ ~SetupAnnotations /\ ~handlePopTop
  BY <1>1 DEF ImportStar, handlePrint, SetupAnnotations, handlePopTop, At, NameStores
<1>13. ~handleForIter /\ ~handleSetupWith /\ ~Unsupported
  BY <1>1 DEF handleForIter, handleSetupWith, Unsupported, At, NameStores
<1> QED
  BY <1>4, <1>6, <1>7, <1>8, <1>9, <1>10, <1>11, <1>12, <1>13 DEF Step, Stores

\* A store of a run, its first one too.
LEMMA RunGoesOn ==
  ASSUME IInv, tupleStoreStep
  PROVE  IInv'
<1> USE DEF IInv
<1>1. /\ pos <= Len(code) /\ pos' = pos + 1 /\ code' = code
      /\ Ins.op \in NameStores /\ InRun > 0 /\ tupleStore' = InRun - 1
      /\ UNCHANGED unpack
      /\ IF InRun = 1 THEN tupleStoreTargets' = <<>> /\ tupleStoreValues' = <<>>
         ELSE /\ tupleStoreTargets' = Append(tupleStoreTargets, StoreTarget)
              /\ tupleStoreValues' = Append(tupleStoreValues, Peek(stack, 1))
  BY DEF tupleStoreStep, Stored, At, unpacking
<1>2. pos \in Nat /\ pos >= 1 /\ Len(code) \in Nat /\ DOMAIN code = 1..Len(code)
  BY DEF CodeTyped, IsSequence
<1>3. /\ InRun \in Nat
      /\ unpack = 0
      /\ \A p \in pos..(pos + InRun - 1) : p \in DOMAIN code /\ code[p].op \in NameStores
      /\ tupleStore = 0 => InRun >= 2
  <2>1. CASE InRun = tupleStore
    BY <2>1, <1>1 DEF TuplesTyped, RunAhead
  <2>2. CASE InRun # tupleStore
    <3>1. /\ tupleStore = 0 /\ unpack = 0
          /\ InRun = tupleAssignStart(pos) /\ tupleAssignStart(pos) > 0
      BY <2>2 DEF InRun
    <3> QED
      BY <3>1, <1>1, RunOfStores
  <2> QED
    BY <2>1, <2>2
<1>4. IsSequence(<<>>)
  BY DEF IsSequence
<1>5. CodeTyped'
  BY <1>1, <1>2 DEF CodeTyped, IsSequence
<1>6. TuplesTyped'
  <2>1. tupleStore' \in Nat
    BY <1>1, <1>3
  <2>2. IsSequence(tupleStoreTargets') /\ IsSequence(tupleStoreValues')
    BY <1>1, <1>4, AppendLengthens DEF TuplesTyped
  <2> QED
    BY <2>1, <2>2 DEF TuplesTyped, IsSequence
<1>7. StoredBefore'
  BY <1>1, <1>2 DEF StoredBefore, Ins
<1>8. RunAhead'
  <2>1. Len(tupleStoreTargets) = Len(tupleStoreValues)
    BY DEF RunAhead
  <2>2. Len(tupleStoreTargets)' = Len(tupleStoreValues)'
    BY <2>1, <1>1, AppendLengthens DEF TuplesTyped
  <2>3. tupleStore' = 0 <=> tupleStoreTargets' = <<>>
    BY <1>1, <1>3, AppendLengthens DEF TuplesTyped
  <2>4. unpack' = 0
    BY <1>1, <1>3
  <2>5. \A p \in pos'..(pos' + tupleStore' - 1) :
          p \in DOMAIN code' /\ code'[p].op \in NameStores
    BY <1>1, <1>2, <1>3
  <2> QED
    BY <2>2, <2>3, <2>4, <2>5 DEF RunAhead
<1> QED
  BY <1>5, <1>6, <1>7, <1>8

LEMMA StepKeeps ==
  ASSUME IInv, [Next]_vars
  PROVE  IInv'
<1> USE DEF IInv
<1>1. CASE tupleStoreStep
  BY <1>1, RunGoesOn
<1>2. CASE Step /\ ~tupleStoreStep
  <2>1. UNCHANGED <<code, tuples>> /\ pos' \in Nat \ {0}
    BY <1>2, OthersLeaveTuples
  <2>2. tupleStore = 0
    BY <1>2, RunTakesTheStore DEF TuplesTyped
  <2>3. /\ code' = code /\ tupleStore' = tupleStore
        /\ tupleStoreTargets' = tupleStoreTargets /\ tupleStoreValues' = tupleStoreValues
    BY <2>1 DEF tuples
  <2> QED
    BY <2>1, <2>2, <2>3 DEF CodeTyped, TuplesTyped, RunAhead, StoredBefore, IsSequence
<1>3. CASE UNCHANGED vars
  <2>1. /\ UNCHANGED <<code, pos, unpack, tupleStore, tupleStoreTargets, tupleStoreValues>>
    BY <1>3 DEF vars, tuples, unpacking
  <2> QED
    BY <2>1 DEF CodeTyped, TuplesTyped, RunAhead, StoredBefore, IsSequence
<1> QED
  BY <1>1, <1>2, <1>3 DEF Next, Finished

LEMMA InitHolds ==
  ASSUME Init
  PROVE  IInv
<1>1. IsSequence(code) /\ pos = 1
  BY CodesAssumption DEF Init
<1>2. /\ tupleStore = 0 /\ tupleStoreTargets = <<>> /\ tupleStoreValues = <<>>
  BY DEF Init
<1> QED
  BY <1>1, <1>2 DEF IInv, CodeTyped, TuplesTyped, RunAhead, StoredBefore, IsSequence

----------------------------------------------------------------------------

\* Once the first store of a parallel assignment is taken, the others follow
\* at once, each keeps its value, and no unpacking is open (tupleStore,
\* ASTree.cpp): the statement is complete in any code.
THEOREM RunsComplete == Spec => []RunAhead
<1>1. Spec => []IInv
  BY InitHolds, StepKeeps, PTL DEF Spec
<1>2. IInv => RunAhead
  BY DEF IInv
<1> QED
  BY <1>1, <1>2, PTL

----------------------------------------------------------------------------
(* Sequences of values and of statements.                                  *)

\* A value of the operand stack: no statement, and the names of a KW_NAMES
\* are a sequence.
Value(x) ==
  /\ "t" \in DOMAIN x
  /\ x.t \notin {"store", "print"}
  /\ x.t = "kw_names" => "kvs" \in DOMAIN x /\ IsSequence(x.kvs)

\* A statement of a block: what a later instruction may complete it by is
\* there.
Node(x) ==
  /\ "t" \in DOMAIN x
  /\ x.t = "store" => {"src", "dest"} \subseteq DOMAIN x /\ "t" \in DOMAIN x.src
  /\ x.t = "print" => "stream" \in DOMAIN x

ValueSeq(s) == IsSequence(s) /\ \A j \in 1..Len(s) : Value(s[j])
NodeSeq(s)  == IsSequence(s) /\ \A j \in 1..Len(s) : Node(s[j])

LEMMA SequenceOf ==
  ASSUME NEW s, NEW n \in Nat, DOMAIN s = 1..n, s = [j \in 1..n |-> s[j]]
  PROVE  IsSequence(s) /\ Len(s) = n
<1> DEFINE T == {s[j] : j \in DOMAIN s}
<1>1. s \in [1..n -> T]
  OBVIOUS
<1>2. s \in Seq(T)
  BY <1>1, SeqDef
<1> QED
  BY <1>1, <1>2 DEF IsSequence

LEMMA SequenceIs ==
  ASSUME NEW s, IsSequence(s)
  PROVE  Len(s) \in Nat /\ DOMAIN s = 1..Len(s) /\ s = [j \in 1..Len(s) |-> s[j]]
BY LenProperties DEF IsSequence

\* A prefix, a concatenation.
LEMMA Prefix ==
  ASSUME NEW s, IsSequence(s), NEW n \in 0..Len(s)
  PROVE  /\ IsSequence(SubSeq(s, 1, n)) /\ Len(SubSeq(s, 1, n)) = n
         /\ \A j \in 1..n : SubSeq(s, 1, n)[j] = s[j]
<1>1. s \in Seq({s[j] : j \in DOMAIN s}) /\ Len(s) \in Nat /\ n \in Nat
  BY SequenceIs DEF IsSequence
<1>2. SubSeq(s, 1, n) = [j \in 1..n |-> s[j]]
  BY <1>1, SubSeqProperties
<1> QED
  BY <1>1, <1>2, SequenceOf

LEMMA Joined ==
  ASSUME NEW s, IsSequence(s), NEW r, IsSequence(r)
  PROVE  /\ IsSequence(s \o r) /\ Len(s \o r) = Len(s) + Len(r)
         /\ \A j \in 1..Len(s) : (s \o r)[j] = s[j]
         /\ \A j \in 1..Len(r) : (s \o r)[Len(s) + j] = r[j]
<1> DEFINE T == {s[j] : j \in DOMAIN s} \cup {r[j] : j \in DOMAIN r}
           c == s \o r
<1>1. s \in Seq(T) /\ r \in Seq(T) /\ Len(s) \in Nat /\ Len(r) \in Nat
  BY SequenceIs, SeqDef DEF IsSequence
<1>2. /\ c \in Seq(T) /\ Len(c) = Len(s) + Len(r)
      /\ \A j \in 1..(Len(s) + Len(r)) : c[j] = IF j <= Len(s) THEN s[j] ELSE r[j - Len(s)]
  BY <1>1, ConcatProperties
<1>3. IsSequence(c)
  <2>1. DOMAIN c = 1..Len(c) /\ Len(c) \in Nat /\ c = [j \in 1..Len(c) |-> c[j]]
    <3> HIDE DEF c, T
    <3> QED
      BY <1>2, LenProperties
  <2> HIDE DEF c
  <2> QED
    BY <2>1, SequenceOf
<1> QED
  BY <1>1, <1>2, <1>3

LEMMA Appended ==
  ASSUME NEW s, IsSequence(s), NEW x
  PROVE  /\ IsSequence(Append(s, x)) /\ Len(s) \in Nat /\ Len(Append(s, x)) = Len(s) + 1
         /\ \A j \in 1..Len(s) : Append(s, x)[j] = s[j]
         /\ Append(s, x)[Len(s) + 1] = x
<1> DEFINE T == {s[j] : j \in DOMAIN s} \cup {x}
<1>1. s \in Seq(T) /\ x \in T /\ Len(s) \in Nat
  BY SequenceIs, SeqDef DEF IsSequence
<1>2. \A j \in 1..(Len(s) + 1) : Append(s, x)[j] = IF j <= Len(s) THEN s[j] ELSE x
  BY <1>1, AppendProperties
<1> QED
  BY <1>1, <1>2, AppendLengthens

Put(s, k, x) == [s EXCEPT ![k] = x]

LEMMA Replaced ==
  ASSUME NEW s, IsSequence(s), NEW k \in 1..Len(s), NEW x
  PROVE  /\ IsSequence(Put(s, k, x)) /\ Len(Put(s, k, x)) = Len(s)
         /\ \A j \in 1..Len(s) : Put(s, k, x)[j] = IF j = k THEN x ELSE s[j]
<1> DEFINE r == Put(s, k, x)
<1>1. Len(s) \in Nat /\ DOMAIN s = 1..Len(s)
  BY SequenceIs
<1>2. DOMAIN r = 1..Len(s) /\ r = [j \in 1..Len(s) |-> r[j]]
  BY <1>1 DEF Put
<1>3. \A j \in 1..Len(s) : r[j] = IF j = k THEN x ELSE s[j]
  BY <1>1 DEF Put
<1> HIDE DEF r
<1>4. IsSequence(r) /\ Len(r) = Len(s)
  BY <1>1, <1>2, SequenceOf
<1> QED
  BY <1>3, <1>4 DEF r

----------------------------------------------------------------------------
(* The operand stack holds values.                                         *)

LEMMA NullIsValue == Value(Null)
BY DEF Value, Null

LEMMA PeekValue ==
  ASSUME NEW s, ValueSeq(s), NEW j
  PROVE  Value(Peek(s, j))
<1>1. Len(s) \in Nat
  BY SequenceIs DEF ValueSeq
<1>2. CASE j \in 1..Len(s)
  <2>1. Len(s) + 1 - j \in 1..Len(s)
    BY <1>1, <1>2
  <2> QED
    BY <2>1, <1>2 DEF ValueSeq, Peek
<1>3. CASE j \notin 1..Len(s)
  BY <1>3, NullIsValue DEF Peek
<1> QED
  BY <1>2, <1>3

LEMMA NoValues == ValueSeq(<<>>)
BY DEF ValueSeq, IsSequence

LEMMA PushValue ==
  ASSUME NEW s, ValueSeq(s), NEW x, Value(x)
  PROVE  ValueSeq(Push(s, x))
<1>1. IsSequence(s) /\ \A j \in 1..Len(s) : Value(s[j])
  BY DEF ValueSeq
<1>2. /\ IsSequence(Push(s, x)) /\ Len(s) \in Nat /\ Len(Push(s, x)) = Len(s) + 1
      /\ \A j \in 1..Len(s) : Push(s, x)[j] = s[j]
      /\ Push(s, x)[Len(s) + 1] = x
  BY <1>1, Appended DEF Push
<1>3. ASSUME NEW j \in 1..(Len(s) + 1)
      PROVE  Value(Push(s, x)[j])
  <2>1. j \in 1..Len(s) \/ j = Len(s) + 1
    BY <1>2
  <2> QED
    BY <2>1, <1>1, <1>2
<1> QED
  BY <1>2, <1>3 DEF ValueSeq

LEMMA DropValues ==
  ASSUME NEW s, ValueSeq(s), NEW n \in Nat
  PROVE  ValueSeq(Drop(s, n)) /\ Len(Drop(s, n)) \in Nat /\ Len(Drop(s, n)) <= Len(s)
<1>1. IsSequence(s) /\ Len(s) \in Nat /\ \A j \in 1..Len(s) : Value(s[j])
  BY SequenceIs DEF ValueSeq
<1>2. CASE n < Len(s)
  <2>1. Len(s) - n \in 0..Len(s) /\ Drop(s, n) = SubSeq(s, 1, Len(s) - n)
    BY <1>1, <1>2 DEF Drop
  <2>2. /\ IsSequence(Drop(s, n)) /\ Len(Drop(s, n)) = Len(s) - n
        /\ \A j \in 1..(Len(s) - n) : Drop(s, n)[j] = s[j]
    BY <1>1, <2>1, Prefix
  <2>3. \A j \in 1..(Len(s) - n) : Value(Drop(s, n)[j])
    BY <1>1, <2>1, <2>2
  <2> QED
    BY <1>1, <2>2, <2>3 DEF ValueSeq
<1>3. CASE ~(n < Len(s))
  BY <1>1, <1>3, NoValues DEF Drop
<1> QED
  BY <1>2, <1>3

LEMMA FoldValues ==
  ASSUME NEW s, ValueSeq(s), NEW n \in Nat, NEW x, Value(x)
  PROVE  ValueSeq(Fold(s, n, x))
BY DropValues, PushValue DEF Fold

LEMMA JoinedValues ==
  ASSUME NEW s, ValueSeq(s), NEW r, ValueSeq(r)
  PROVE  ValueSeq(s \o r)
<1>1. /\ IsSequence(s) /\ Len(s) \in Nat /\ \A j \in 1..Len(s) : Value(s[j])
      /\ IsSequence(r) /\ Len(r) \in Nat /\ \A j \in 1..Len(r) : Value(r[j])
  BY SequenceIs DEF ValueSeq
<1> DEFINE c == s \o r
<1>2. /\ IsSequence(c) /\ Len(c) = Len(s) + Len(r)
      /\ \A j \in 1..Len(s) : c[j] = s[j]
      /\ \A j \in 1..Len(r) : c[Len(s) + j] = r[j]
  BY <1>1, Joined
<1> HIDE DEF c
<1>3. ASSUME NEW j \in 1..Len(c)
      PROVE  Value(c[j])
  <2>1. j \in 1..Len(s) \/ (j - Len(s) \in 1..Len(r) /\ j = Len(s) + (j - Len(s)))
    BY <1>1, <1>2
  <2> QED
    BY <2>1, <1>1, <1>2
<1>4. ValueSeq(c)
  BY <1>2, <1>3 DEF ValueSeq
<1> QED
  BY <1>4 DEF c

\* Values one by one.
LEMMA ListedValues ==
  ASSUME NEW n \in Nat, NEW s, DOMAIN s = 1..n, s = [j \in 1..n |-> s[j]],
         \A j \in 1..n : Value(s[j])
  PROVE  ValueSeq(s) /\ Len(s) = n
BY SequenceOf DEF ValueSeq

LEMMA AboveValues ==
  ASSUME NEW s, ValueSeq(s), NEW n \in Nat
  PROVE  /\ ValueSeq(Above(s, n)) /\ Len(Above(s, n)) = n
         /\ \A j \in 1..n : Above(s, n)[j] = Peek(s, n + 1 - j)
<1> DEFINE r == Above(s, n)
<1>1. /\ DOMAIN r = 1..n /\ r = [j \in 1..n |-> r[j]]
      /\ \A j \in 1..n : r[j] = Peek(s, n + 1 - j)
  BY DEF Above
<1>2. \A j \in 1..n : Value(r[j])
  BY <1>1, PeekValue
<1> HIDE DEF r
<1>3. ValueSeq(r) /\ Len(r) = n
  BY <1>1, <1>2, ListedValues
<1> QED
  BY <1>1, <1>3 DEF r

LEMMA PairOfValues ==
  ASSUME NEW x, Value(x), NEW y, Value(y)
  PROVE  ValueSeq(<<x, y>>)
<1> DEFINE r == <<x, y>>
<1>1. DOMAIN r = 1..2 /\ r = [j \in 1..2 |-> r[j]] /\ r[1] = x /\ r[2] = y
  OBVIOUS
<1>2. \A j \in 1..2 : Value(r[j])
  BY <1>1
<1> HIDE DEF r
<1>3. ValueSeq(r)
  BY <1>1, <1>2, ListedValues
<1> QED
  BY <1>3 DEF r

LEMMA OneValue ==
  ASSUME NEW x, Value(x)
  PROVE  ValueSeq(<<x>>)
<1> DEFINE r == <<x>>
<1>1. DOMAIN r = 1..1 /\ r = [j \in 1..1 |-> r[j]] /\ r[1] = x
  OBVIOUS
<1>2. \A j \in 1..1 : Value(r[j])
  BY <1>1
<1> HIDE DEF r
<1>3. ValueSeq(r)
  BY <1>1, <1>2, ListedValues
<1> QED
  BY <1>3 DEF r

\* A value with another field replaced is a value.
LEMMA FieldReplaced ==
  ASSUME NEW x, Value(x), NEW f, f # "t", f # "kvs", NEW y
  PROVE  Value([x EXCEPT ![f] = y])
BY DEF Value

LEMMA EntriesReplaced ==
  ASSUME NEW x, Value(x), NEW y, x.t = "kw_names" => IsSequence(y)
  PROVE  Value([x EXCEPT !.kvs = y])
BY DEF Value

\* The values that the handlers make.
LEMMA Made ==
  /\ \A o : Value(Object(o))
  /\ \A x : Value(Name(x))
  /\ \A o, x : Value(Unary(o, x))
  /\ \A o, x, y : Value(Binary(o, x, y))
  /\ \A o, x, y : Value(Compare(o, x, y))
  /\ \A x, y : Value(Attr(x, y))
  /\ \A x, y : Value(Subscr(x, y))
  /\ \A x : Value(Convert(x))
  /\ \A x : Value(Await(x))
  /\ \A xs : Value(List(xs))
  /\ \A xs : Value(Set(xs))
  /\ \A xs : Value(Tuple(xs))
  /\ \A xs : Value(Map(xs))
  /\ \A o, xs : Value(ConstMap(o, xs))
  /\ \A xs : Value(JoinedStr(xs))
BY DEF Value, Object, Name, Unary, Binary, Compare, Attr, Subscr, Convert, Await, List,
       Set, Tuple, Map, ConstMap, JoinedStr

LEMMA AlsoMade ==
  /\ \A n, x, y : Value(Slice(n, x, y))
  /\ \A x, n, y : Value(Formatted(x, n, y))
  /\ \A x, y, z : Value(Call(x, y, z))
  /\ \A o, x, y, z : Value(Function(o, x, y, z))
  /\ \A o, x, y, z : Value(Class(o, x, y, z))
  /\ Value(LoadBuildClass)
  /\ \A x, y, n : Value(Import(x, y, n))
  /\ \A x, y : Value(Walrus(x, y))
  /\ \A x : Value(ChainStore(x))
  /\ \A x : Value(YieldExpr(x))
BY DEF Value, Slice, Formatted, Call, Function, Class, LoadBuildClass, Import, Walrus,
       ChainStore, YieldExpr

----------------------------------------------------------------------------
(* The handlers that only work on the stack leave values there.            *)

LEMMA UnaryLeaves ==
  ASSUME NEW s, ValueSeq(s), NEW i
  PROVE  ValueSeq(handleUnaryOp(s, i))
<1> DEFINE x == Peek(s, 1)
           y == IF i.op = "UNARY_CALL" THEN Call(x, <<>>, <<>>)
                ELSE IF i.op = "UNARY_CONVERT" THEN Convert(x) ELSE Unary(UnaryOps[i.op], x)
<1>1. Value(y)
  BY Made, AlsoMade
<1>2. ValueSeq(Fold(s, 1, y))
  <2> HIDE DEF y
  <2> QED
    BY <1>1, FoldValues
<1> QED
  BY <1>2 DEF handleUnaryOp

LEMMA BinaryLeaves ==
  ASSUME NEW s, ValueSeq(s), NEW i
  PROVE  ValueSeq(handleBinaryOp(s, i))
BY Made, FoldValues DEF handleBinaryOp

LEMMA ComparesLeave ==
  ASSUME NEW s, ValueSeq(s), NEW i
  PROVE  ValueSeq(handleIsContainsOp(s, i)) /\ ValueSeq(handleCompareOp(s, i, ver))
<1>1. ValueSeq(handleIsContainsOp(s, i))
  BY Made, FoldValues DEF handleIsContainsOp
<1>2. ValueSeq(handleCompareOp(s, i, ver))
  BY Made, FoldValues DEF handleCompareOp
<1> QED
  BY <1>1, <1>2

LEMMA ConstLeaves ==
  ASSUME NEW s, ValueSeq(s), NEW i
  PROVE  ValueSeq(handleLoadConst(s, i))
<1> DEFINE y == IF i.obj = TupleObj(<<>>) THEN Tuple(<<>>)
                ELSE IF i.obj = NoneObj THEN Null ELSE Object(i.obj)
<1>1. Value(y)
  BY Made, NullIsValue
<1>2. ValueSeq(Push(s, y))
  <2> HIDE DEF y
  <2> QED
    BY <1>1, PushValue
<1> QED
  BY <1>2 DEF handleLoadConst

LEMMA LoadLeaves ==
  ASSUME NEW s, ValueSeq(s), NEW i, i.op \in LoadOpcodes
  PROVE  ValueSeq(handleLoad(s, i, ver, NextOp))
<1> DEFINE attr == Attr(Peek(s, 1), i.obj.v)
           h == handleLoad(s, i, ver, NextOp)
<1>1. /\ Value(attr) /\ Value(Name(i.obj.v)) /\ Value(Null) /\ Value(LoadBuildClass)
  BY Made, AlsoMade, NullIsValue
<1>2. ValueSeq(Push(s, Name(i.obj.v))) /\ ValueSeq(Push(Push(s, Null), Name(i.obj.v)))
  BY <1>1, PushValue
<1>3. ValueSeq(Push(Fold(s, 1, Null), attr)) /\ ValueSeq(Fold(s, 1, attr))
  <2> HIDE DEF attr
  <2> QED
    BY <1>1, PushValue, FoldValues
<1>4. ValueSeq(Push(s, LoadBuildClass))
  BY <1>1, PushValue
<1>5. CASE i.op \in NameLoads
  <2>1. h = Push(s, Name(i.obj.v))
    BY <1>5 DEF handleLoad, NameLoads
  <2> QED
    BY <2>1, <1>2
<1>6. CASE i.op = "LOAD_GLOBAL"
  <2>1. h = Push(IF ver >= 311 /\ i.arg % 2 = 1 THEN Push(s, Null) ELSE s, Name(i.obj.v))
    BY <1>6 DEF handleLoad, NameLoads
  <2> QED
    BY <2>1, <1>2
<1>7. CASE i.op = "LOAD_ATTR"
  <2>1. \/ h = s \/ h = Push(Fold(s, 1, Null), attr) \/ h = Fold(s, 1, attr)
    BY <1>7 DEF handleLoad, NameLoads
  <2> QED
    BY <2>1, <1>3
<1>8. CASE i.op = "LOAD_METHOD"
  <2>1. \/ h = Push(Fold(s, 1, Null), attr) \/ h = Fold(s, 1, attr)
    BY <1>8 DEF handleLoad, NameLoads
  <2> QED
    BY <2>1, <1>3
<1>9. CASE i.op = "LOAD_BUILD_CLASS"
  <2>1. h = Push(s, LoadBuildClass)
    BY <1>9 DEF handleLoad, NameLoads
  <2> QED
    BY <2>1, <1>4
<1>10. CASE i.op = "LOAD_CLOSURE"
  <2>1. h = s \/ h = Push(s, Name(i.obj.v))
    BY <1>10 DEF handleLoad, NameLoads
  <2> QED
    BY <2>1, <1>2
<1> QED
  BY <1>5, <1>6, <1>7, <1>8, <1>9, <1>10 DEF LoadOpcodes

LEMMA SlicesMade ==
  /\ \A x, y : Value(BuildSlice(x, y))
  /\ \A x, y, z : Value(SteppedSlice(x, y, z))
<1>1. \A x, y : Value(BuildSlice(x, y))
  BY AlsoMade DEF BuildSlice
<1>2. \A x, y, z : Value(SteppedSlice(x, y, z))
  BY AlsoMade DEF SteppedSlice
<1> QED
  BY <1>1, <1>2

LEMMA BuildLeaves ==
  ASSUME NEW s, ValueSeq(s), NEW i, i.arg \in Nat, i.op \in CollectionOpcodes
  PROVE  ValueSeq(handleBuildCollection(s, i, ver))
<1> DEFINE vs == Above(s, i.arg)
           h == handleBuildCollection(s, i, ver)
<1>1. /\ 2 * i.arg \in Nat /\ i.arg + 1 \in Nat
      /\ ValueSeq(s)
  OBVIOUS
<1>2. \A x : Value(x) => ValueSeq(Fold(s, i.arg, x)) /\ ValueSeq(Fold(s, 2 * i.arg, x))
                         /\ ValueSeq(Fold(s, i.arg + 1, x))
  BY <1>1, FoldValues
<1>3. CASE i.op \in {"BUILD_LIST", "BUILD_SET", "BUILD_STRING"}
  <2>1. \/ h = Fold(s, i.arg, List(vs)) \/ h = Fold(s, i.arg, Set(vs))
        \/ h = Fold(s, i.arg, JoinedStr(vs))
    BY <1>3 DEF handleBuildCollection
  <2> QED
    BY <2>1, <1>2, Made
<1>4. CASE i.op = "BUILD_TUPLE"
  <2>1. h = s \/ h = Fold(s, i.arg, Tuple(vs))
    BY <1>4 DEF handleBuildCollection
  <2> QED
    BY <2>1, <1>2, Made
<1>5. CASE i.op = "BUILD_MAP"
  <2>1. \/ h = Fold(s, 2 * i.arg, Map(Pairs(Above(s, 2 * i.arg))))
        \/ h = Push(Drop(s, 1), Map(<<>>)) \/ h = Push(s, Map(<<>>))
    BY <1>5 DEF handleBuildCollection
  <2>2. ValueSeq(Push(Drop(s, 1), Map(<<>>))) /\ ValueSeq(Push(s, Map(<<>>)))
    BY Made, DropValues, PushValue
  <2> QED
    BY <2>1, <2>2, <1>2, Made
<1>6. CASE i.op = "BUILD_CONST_KEY_MAP"
  <2>1. h = Fold(s, i.arg + 1, ConstMap(Peek(s, 1).obj, Above(Drop(s, 1), i.arg)))
    BY <1>6 DEF handleBuildCollection
  <2> QED
    BY <2>1, <1>2, Made
<1>7. CASE i.op = "BUILD_SLICE"
  <2>1. \/ h = Fold(s, i.arg, BuildSlice(vs[1], vs[2]))
        \/ h = Fold(s, i.arg, SteppedSlice(vs[1], vs[2], vs[3]))
    BY <1>7 DEF handleBuildCollection
  <2> QED
    BY <2>1, <1>2, SlicesMade
<1> QED
  BY <1>3, <1>4, <1>5, <1>6, <1>7 DEF CollectionOpcodes

LEMMA StoreMapLeaves ==
  ASSUME NEW s, ValueSeq(s)
  PROVE  ValueSeq(handleStoreMap(s))
<1> DEFINE m == Peek(s, 3)
           y == Append(m.kvs, <<Peek(s, 1), Peek(s, 2)>>)
<1>1. Value(m)
  BY PeekValue
<1>2. m.t = "kw_names" => IsSequence(y)
  BY <1>1, Appended DEF Value
<1>3. Value([m EXCEPT !.kvs = y])
  <2> HIDE DEF m, y
  <2> QED
    BY <1>1, <1>2, EntriesReplaced
<1> QED
  BY <1>3, FoldValues DEF handleStoreMap

LEMMA UpdateLeaves ==
  ASSUME NEW s, ValueSeq(s), NEW i, i.op \in UpdateOpcodes
  PROVE  ValueSeq(handleCollectionUpdate(s, i))
<1> DEFINE x == Peek(s, 1)
           y == Peek(s, 2)
           z == Peek(s, 3)
           h == handleCollectionUpdate(s, i)
<1>1. Value(x) /\ Value(y) /\ Value(z)
  BY PeekValue
<1>2. \A v : Value(v) => /\ ValueSeq(Fold(s, 1, v)) /\ ValueSeq(Fold(s, 2, v))
                         /\ ValueSeq(Fold(s, 3, v)) /\ ValueSeq(Push(Drop(s, 1), v))
                         /\ ValueSeq(Push(Drop(s, 2), v))
  BY FoldValues, PushValue, DropValues
<1>3. ValueSeq(Drop(s, 1))
  BY DropValues
<1>4. \A vs : Value(Extended(y, vs))
  <2>1. Value(y)
    BY <1>1
  <2> HIDE DEF y
  <2> QED
    BY <2>1, FieldReplaced DEF Extended
<1>5. CASE i.op \in {"LIST_APPEND", "SET_ADD"}
  <2>1. h = Fold(s, 2, Extended(y, <<x>>)) \/ h = Push(Drop(s, 1), Subscr(y, x))
    BY <1>5 DEF handleCollectionUpdate
  <2>2. Value(Extended(y, <<x>>)) /\ Value(Subscr(y, x))
    BY <1>4, Made
  <2> QED
    BY <2>1, <2>2, <1>2
<1>6. CASE i.op = "MAP_ADD"
  <2>1. \/ z.t = "map" /\ h = Fold(s, 3, [z EXCEPT !.kvs = Append(@, <<y, x>>)])
        \/ h = Push(Drop(s, 2), Subscr(z, y))
    BY <1>6 DEF handleCollectionUpdate
  <2>2. Value(Subscr(z, y))
    BY Made
  <2>3. z.t = "map" => Value([z EXCEPT !.kvs = Append(@, <<y, x>>)])
    <3>1. Value(z)
      BY <1>1
    <3> HIDE DEF z, x, y
    <3> QED
      BY <3>1, EntriesReplaced
  <2> QED
    BY <2>1, <2>2, <2>3, <1>2
<1>7. CASE i.op \in {"LIST_EXTEND", "SET_UPDATE"}
  <2>1. \/ h = Fold(s, 2, Extended(y, Spread(x, "tuple")))
        \/ h = Fold(s, 2, Extended(y, Spread(x, "frozenset")))
    BY <1>7 DEF handleCollectionUpdate
  <2> QED
    BY <2>1, <1>2, <1>4
<1>8. CASE i.op \in {"DICT_UPDATE", "DICT_MERGE"}
  <2>1. h = Drop(s, 1) \/ \E kvs : h = Fold(s, 2, Map(kvs))
    BY <1>8 DEF handleCollectionUpdate
  <2> QED
    BY <2>1, <1>2, <1>3, Made
<1>9. CASE i.op = "LIST_TO_TUPLE"
  <2>1. h = s \/ h = Fold(s, 1, Tuple(x.vs))
    BY <1>9 DEF handleCollectionUpdate
  <2> QED
    BY <2>1, <1>2, Made
<1> QED
  BY <1>5, <1>6, <1>7, <1>8, <1>9 DEF UpdateOpcodes

LEMMA SubscriptLeaves ==
  ASSUME NEW s, ValueSeq(s), NEW i
  PROVE  ValueSeq(handleSubscript(s, i)) /\ SubscrArity(i.op) \in Nat
         /\ Value(SubscrOnTop(s, i.op))
<1>1. SubscrArity(i.op) \in Nat
  BY DEF SubscrArity
<1>2. Value(SubscrOnTop(s, i.op))
  BY Made DEF SubscrOnTop
<1> QED
  BY <1>1, <1>2, FoldValues DEF handleSubscript

LEMMA DuplicateLeaves ==
  ASSUME NEW s, ValueSeq(s)
  PROVE  ValueSeq(Duplicate(s))
<1> DEFINE rest == Drop(s, 1)
<1>1. ValueSeq(rest) /\ Value(Peek(rest, 1)) /\ Value(Peek(s, 1))
  BY DropValues, PeekValue
<1>2. ValueSeq(rest \o <<Peek(rest, 1), Peek(s, 1)>>)
  <2> HIDE DEF rest
  <2> QED
    BY <1>1, PairOfValues, JoinedValues
<1>3. ValueSeq(s \o <<Peek(s, 1), ChainStore(Peek(s, 1))>>)
  BY <1>1, AlsoMade, PairOfValues, JoinedValues
<1> QED
  BY <1>2, <1>3 DEF Duplicate

LEMMA RotateLeaves ==
  ASSUME NEW s, ValueSeq(s), NEW n \in {2, 3, 4}
  PROVE  ValueSeq(Rotate(s, n))
<1> DEFINE top   == Above(s, n - 1)
           below == Drop(s, n - 1)
           base  == IF TypeAt(below, 1) = "chain_store" THEN Drop(below, 1) ELSE below
<1>1. n - 1 \in Nat /\ n - 1 >= 1 /\ n - 2 \in 0..(n - 1)
  OBVIOUS
<1>2. ValueSeq(top) /\ Len(top) = n - 1 /\ ValueSeq(below)
  BY <1>1, AboveValues, DropValues
<1>3. ValueSeq(base)
  <2> HIDE DEF below
  <2> QED
    BY <1>2, DropValues
<1>4. Value(top[n - 1])
  <2> HIDE DEF top
  <2> QED
    BY <1>1, <1>2 DEF ValueSeq
<1>5. ValueSeq(SubSeq(top, 1, n - 2))
  <2> HIDE DEF top
  <2>1. /\ IsSequence(SubSeq(top, 1, n - 2)) /\ Len(SubSeq(top, 1, n - 2)) = n - 2
        /\ \A j \in 1..(n - 2) : SubSeq(top, 1, n - 2)[j] = top[j]
    BY <1>1, <1>2, Prefix DEF ValueSeq
  <2> QED
    BY <1>1, <1>2, <2>1 DEF ValueSeq
<1>6. ValueSeq(Fold(base, 1, top[n - 1])) /\ ValueSeq(<<Peek(base, 1)>>)
  <2> HIDE DEF base, top
  <2> QED
    BY <1>3, <1>4, FoldValues, PeekValue, OneValue
<1>7. Rotate(s, n) = (Fold(base, 1, top[n - 1]) \o <<Peek(base, 1)>>) \o SubSeq(top, 1, n - 2)
  BY DEF Rotate
<1> HIDE DEF base, top
<1>8. ValueSeq(Fold(base, 1, top[n - 1]) \o <<Peek(base, 1)>>)
  BY <1>6, JoinedValues
<1> QED
  BY <1>5, <1>7, <1>8, JoinedValues

LEMMA ShuffleLeaves ==
  ASSUME NEW s, ValueSeq(s), NEW i, i.arg \in Nat, i.op \in ShuffleOpcodes
  PROVE  ValueSeq(handleStackManip(s, i))
<1> DEFINE h == handleStackManip(s, i)
<1>1. CASE i.op = "DUP_TOP"
  <2>1. h = Push(s, Null) \/ h = Duplicate(s)
    BY <1>1 DEF handleStackManip
  <2> QED
    BY <2>1, PushValue, NullIsValue, DuplicateLeaves
<1>2. CASE i.op \in {"DUP_TOP_TWO", "DUP_TOPX"}
  <2>1. h = s \o Above(s, 2) \/ h = s \o Above(s, i.arg)
    BY <1>2 DEF handleStackManip
  <2> QED
    BY <2>1, AboveValues, JoinedValues
<1>3. CASE i.op \in {"ROT_TWO", "ROT_THREE", "ROT_FOUR"}
  <2>1. h = Rotate(s, 2) \/ h = Rotate(s, 3) \/ h = Rotate(s, 4)
    BY <1>3 DEF handleStackManip
  <2> QED
    BY <2>1, RotateLeaves
<1> QED
  BY <1>1, <1>2, <1>3 DEF ShuffleOpcodes

LEMMA WrapLeaves ==
  ASSUME NEW s, ValueSeq(s), NEW i
  PROVE  ValueSeq(handleExprWrap(s, i))
<1> DEFINE h == handleExprWrap(s, i)
<1>1. \/ h = Fold(s, 1, Await(Peek(s, 1)))
      \/ h = Fold(s, 2, Formatted(Peek(s, 2), i.arg % 4, Peek(s, 1)))
      \/ h = Fold(s, 1, Formatted(Peek(s, 1), i.arg % 4, Null))
  BY DEF handleExprWrap
<1> QED
  BY <1>1, Made, AlsoMade, FoldValues

LEMMA KwNamesLeave ==
  ASSUME NEW s, ValueSeq(s), NEW i, IsSequence(i.obj.vs)
  PROVE  ValueSeq(handleKwNames(s, i))
<1> DEFINE n   == Len(i.obj.vs)
           kvs == [j \in 1..n |-> <<Object(i.obj.vs[n + 1 - j]), Peek(s, j)>>]
<1>1. n \in Nat
  BY SequenceIs
<1>2. IsSequence(kvs)
  <2>1. DOMAIN kvs = 1..n /\ kvs = [j \in 1..n |-> kvs[j]]
    OBVIOUS
  <2> HIDE DEF kvs
  <2> QED
    BY <1>1, <2>1, SequenceOf
<1>3. Value(KwNamesMap(kvs))
  <2> HIDE DEF kvs
  <2> QED
    BY <1>2 DEF Value, KwNamesMap
<1> QED
  BY <1>1, <1>3, FoldValues DEF handleKwNames

LEMMA FunctionLeaves ==
  ASSUME NEW s, ValueSeq(s), NEW i, i.arg \in Nat
  PROVE  ValueSeq(handleMakeFunction(s, i, ver))
<1> DEFINE named == ~(Peek(s, 1).t = "object" /\ Peek(s, 1).obj.k = "code")
           s0 == IF named THEN Drop(s, 1) ELSE s
           fc == Peek(s0, 1).obj
           s1 == Drop(s0, 1)
           s2 == IF Bit(i.arg, 8) THEN Drop(s1, 1) ELSE s1
           s3 == IF Bit(i.arg, 4) THEN Drop(s2, 1) ELSE s2
           s4 == IF Bit(i.arg, 2) THEN Drop(s3, 1) ELSE s3
           s5 == IF Bit(i.arg, 1) THEN Drop(s4, 1) ELSE s4
           nd == i.arg % 256
           nk == (i.arg \div 256) % 256
           defaults == IF Bit(i.arg, 1) THEN Defaults(Peek(s4, 1)) ELSE <<>>
           kwdefaults == IF Bit(i.arg, 2) THEN KwDefaults(Peek(s3, 1)) ELSE <<>>
           annots == IF Bit(i.arg, 4) THEN Annotations(Peek(s2, 1)) ELSE <<>>
<1>1. \A r : ValueSeq(r) => ValueSeq(Drop(r, 1))
  BY DropValues
<1>2. ValueSeq(s0) /\ ValueSeq(s1)
  BY <1>1
<1>3. ValueSeq(s2)
  <2> HIDE DEF s1
  <2> QED
    BY <1>1, <1>2
<1>4. ValueSeq(s3)
  <2> HIDE DEF s2
  <2> QED
    BY <1>1, <1>3
<1>5. ValueSeq(s4)
  <2> HIDE DEF s3
  <2> QED
    BY <1>1, <1>4
<1>6. ValueSeq(s5)
  <2> HIDE DEF s4
  <2> QED
    BY <1>1, <1>5
<1>7. nd \in Nat /\ nk \in Nat /\ nd + nk \in Nat
  BY SMTT(30)
<1>8. \/ handleMakeFunction(s, i, ver) = Push(s5, Function(fc, defaults, kwdefaults, annots))
      \/ handleMakeFunction(s, i, ver)
           = Fold(s1, nd + nk, Function(fc, Above(s1, nd), Above(Drop(s1, nd), nk), <<>>))
  BY DEF handleMakeFunction
<1> HIDE DEF s0, s1, s2, s3, s4, s5, fc, nd, nk, defaults, kwdefaults, annots
<1> QED
  BY <1>2, <1>6, <1>7, <1>8, AlsoMade, PushValue, FoldValues

LEMMA SpreadPlain ==
  ASSUME NEW s, ValueSeq(s), NEW arg \in Nat, NEW x, NEW y
  PROVE  ValueSeq(PlainCall(s, arg, x, y))
<1> DEFINE k == Keywords(arg)
           p == Positional(arg)
           s1 == Drop(s, 2 * k)
           call == Call(Peek(s1, p + 1), Above(s1, p), Pairs(Above(s, 2 * k)))
           starred == [call EXCEPT !.var = x]
           full == [call EXCEPT !.var = x, !.kw = y]
<1>1. 2 * k \in Nat /\ p + 1 \in Nat
  BY DEF Keywords, Positional
<1>2. ValueSeq(s1)
  BY <1>1, DropValues
<1>3. Value(call)
  BY AlsoMade
<1>4. Value(full)
  <2> HIDE DEF call
  <2>1. Value([call EXCEPT !.var = x])
    BY <1>3, FieldReplaced
  <2>2. full = [[call EXCEPT !.var = x] EXCEPT !.kw = y]
    OBVIOUS
  <2> DEFINE c == [call EXCEPT !.var = x]
  <2>3. Value([c EXCEPT !.kw = y])
    <3> HIDE DEF c
    <3>1. Value(c)
      BY <2>1 DEF c
    <3> QED
      BY <3>1, FieldReplaced
  <2> QED
    BY <2>2, <2>3
<1>5. PlainCall(s, arg, x, y) = Fold(s1, p + 1, full)
  BY DEF PlainCall
<1> HIDE DEF s1, full, p
<1> QED
  BY <1>1, <1>2, <1>4, <1>5, FoldValues

LEMMA SpreadStar ==
  ASSUME NEW s, ValueSeq(s), NEW arg
  PROVE  ValueSeq(StarCall(s, arg))
<1> DEFINE marked == arg % 2 = 1
           kw   == IF marked THEN Peek(s, 1) ELSE Null
           s1   == IF marked THEN Drop(s, 1) ELSE s
           var  == Peek(s1, 1)
           func == Peek(s1, 2)
           rest == Drop(s1, IF Peek(s1, 3) = Null THEN 3 ELSE 2)
           class == Class(var.vs[1], SubSeq(var.vs, 3, Len(var.vs)), var.vs[2], Null)
           call1 == [Call(var, <<>>, <<>>) EXCEPT !.kw = kw]
           call2 == [Call(func, <<>>, <<>>) EXCEPT !.var = var, !.kw = kw]
<1>1. ValueSeq(s1)
  BY DropValues
<1>2. ValueSeq(rest)
  <2> HIDE DEF s1
  <2> QED
    BY <1>1, DropValues
<1>3. StarCall(s, arg) \in {Push(rest, class), Push(rest, call1), Push(rest, call2)}
  BY DEF StarCall
<1>4. Value(class)
  BY AlsoMade
<1>5. Value(call1) /\ Value(call2)
  <2> HIDE DEF kw, var, func
  <2> QED
    BY DEF Value, Call
<1> HIDE DEF rest, class, call1, call2
<1> QED
  BY <1>2, <1>3, <1>4, <1>5, PushValue

LEMMA SpreadLeaves ==
  ASSUME NEW s, ValueSeq(s), NEW i, i.arg \in Nat,
         i.op \in {"CALL_FUNCTION_VAR", "CALL_FUNCTION_KW", "CALL_FUNCTION_VAR_KW",
                   "CALL_FUNCTION_EX"}
  PROVE  ValueSeq(handleSpreadCall(s, i))
<1> DEFINE h == handleSpreadCall(s, i)
<1>1. ValueSeq(Drop(s, 1)) /\ ValueSeq(Drop(s, 2))
  BY DropValues
<1>2. \/ h = PlainCall(Drop(s, 1), i.arg, Peek(s, 1), Null)
      \/ h = PlainCall(Drop(s, 1), i.arg, Null, Peek(s, 1))
      \/ h = PlainCall(Drop(s, 2), i.arg, Peek(s, 2), Peek(s, 1))
      \/ h = StarCall(s, i.arg)
  BY DEF handleSpreadCall
<1> QED
  BY <1>1, <1>2, SpreadPlain, SpreadStar

LEMMA ImportLeaves ==
  ASSUME NEW s, ValueSeq(s), NEW i
  PROVE  ValueSeq(handleImport(s, i))
<1>1. \/ handleImport(s, i) = Push(s, Name(i.obj.v))
      \/ \E x, n : handleImport(s, i) = Fold(s, 2, Import(i.obj.v, x, n))
      \/ \E x, n : handleImport(s, i) = Fold(s, 1, Import(i.obj.v, x, n))
  BY DEF handleImport
<1> QED
  BY <1>1, Made, AlsoMade, PushValue, FoldValues

LEMMA CopyLeaves ==
  ASSUME NEW s, ValueSeq(s), NEW i
  PROVE  ValueSeq(handleCopy(s, i))
<1> DEFINE value == IF Peek(s, 1) = Null THEN Object(NoneObj) ELSE Peek(s, 1)
<1>1. Value(value)
  BY Made, PeekValue
<1>2. \/ handleCopy(s, i) = Duplicate(s) \/ handleCopy(s, i) = Duplicate(Fold(s, 1, value))
      \/ handleCopy(s, i) = s \/ handleCopy(s, i) = Push(s, Peek(s, i.arg))
  BY DEF handleCopy
<1> HIDE DEF value
<1> QED
  BY <1>1, <1>2, FoldValues, DuplicateLeaves, PushValue, PeekValue

LEMMA StampedValues ==
  ASSUME NEW s, ValueSeq(s)
  PROVE  ValueSeq(Stamped(s))
<1> DEFINE x == Peek(s, 1)
           y == [f \in DOMAIN x \cup {"at"} |-> IF f = "at" THEN pos ELSE x[f]]
<1>1. Value(x)
  BY PeekValue
<1>2. Value(y)
  <2> HIDE DEF x
  <2> QED
    BY <1>1 DEF Value
<1>3. Stamped(s) = s \/ Stamped(s) = Fold(s, 1, y)
  BY DEF Stamped
<1> HIDE DEF y
<1> QED
  BY <1>2, <1>3, FoldValues

LEMMA EvaluatedValues ==
  ASSUME ValueSeq(stack), NEW i, IsInstruction(i), i.op \in ExpressionOpcodes
  PROVE  ValueSeq(Evaluated(stack, i))
<1>1. i.arg \in Nat
  BY DEF IsInstruction
<1>3. i.op = "KW_NAMES" => IsSequence(i.obj.vs)
  BY DEF IsInstruction
<1>4. ValueSeq(handleUnaryOp(stack, i)) /\ ValueSeq(handleBinaryOp(stack, i))
  BY UnaryLeaves, BinaryLeaves
<1>5. /\ i.op \in LoadOpcodes => ValueSeq(handleLoad(stack, i, ver, NextOp))
      /\ i.op \in CollectionOpcodes => ValueSeq(handleBuildCollection(stack, i, ver))
      /\ i.op \in UpdateOpcodes => ValueSeq(handleCollectionUpdate(stack, i))
      /\ i.op \in ShuffleOpcodes => ValueSeq(handleStackManip(stack, i))
  BY <1>1, LoadLeaves, BuildLeaves, UpdateLeaves, ShuffleLeaves
<1>6. /\ ValueSeq(handleSubscript(stack, i)) /\ ValueSeq(handleIsContainsOp(stack, i))
      /\ ValueSeq(handleCompareOp(stack, i, ver)) /\ ValueSeq(handleLoadConst(stack, i))
      /\ ValueSeq(handleStoreMap(stack)) /\ ValueSeq(handleExprWrap(stack, i))
  BY SubscriptLeaves, ComparesLeave, ConstLeaves, StoreMapLeaves, WrapLeaves
<1>7. i.op = "KW_NAMES" => ValueSeq(handleKwNames(stack, i))
  BY <1>3, KwNamesLeave
<1>8. /\ ValueSeq(handleMakeFunction(stack, i, ver)) /\ ValueSeq(handleImport(stack, i))
      /\ ValueSeq(handleCopy(stack, i)) /\ ValueSeq(Push(stack, Null))
  BY <1>1, FunctionLeaves, ImportLeaves, CopyLeaves, PushValue, NullIsValue
<1>9. /\ i.op \in {"CALL_FUNCTION_VAR", "CALL_FUNCTION_KW", "CALL_FUNCTION_VAR_KW",
                   "CALL_FUNCTION_EX"} => ValueSeq(handleSpreadCall(stack, i))
  BY <1>1, SpreadLeaves
<1> QED
  BY <1>4, <1>5, <1>6, <1>7, <1>8, <1>9 DEF Evaluated, ExpressionOpcodes

----------------------------------------------------------------------------
(* The open blocks hold statements, and a step only adds to them.          *)

IsBlock(b)   == "nodes" \in DOMAIN b /\ NodeSeq(b.nodes)
BlockSeq(bs) == /\ IsSequence(bs) /\ Len(bs) > 0
                /\ \A j \in 1..Len(bs) : IsBlock(bs[j])

\* The statements old stay in new but for the last, which may be completed.
NodesStay(old, new) ==
  /\ Len(new) >= Len(old)
  /\ \A j \in 1..(Len(old) - 1) : new[j] = old[j]
  /\ old # <<>> => \/ new[Len(old)] = old[Len(old)]
                   \/ Completes(new[Len(old)], old[Len(old)])

BlocksStay(bs, cs) ==
  /\ Len(cs) >= Len(bs)
  /\ \A j \in 1..(Len(bs) - 1) : cs[j] = bs[j]
  /\ NodesStay(bs[Len(bs)].nodes, cs[Len(bs)].nodes)

LEMMA ValueIsNode ==
  ASSUME NEW x, Value(x)
  PROVE  Node(x)
BY DEF Value, Node

LEMMA CurBlock ==
  ASSUME BlockSeq(blocks)
  PROVE  /\ Len(blocks) \in Nat \ {0} /\ IsSequence(blocks)
         /\ IsBlock(curblock) /\ NodeSeq(curblock.nodes)
         /\ IsSequence(curblock.nodes) /\ Len(curblock.nodes) \in Nat
<1>1. Len(blocks) \in Nat \ {0} /\ IsSequence(blocks)
  BY SequenceIs DEF BlockSeq
<1>2. IsBlock(curblock)
  BY <1>1 DEF BlockSeq, curblock
<1> QED
  BY <1>1, <1>2, SequenceIs DEF IsBlock, NodeSeq

LEMMA NodesSame ==
  ASSUME NEW ns, IsSequence(ns)
  PROVE  NodesStay(ns, ns)
BY SequenceIs DEF NodesStay

LEMMA BlocksSame ==
  ASSUME BlockSeq(blocks)
  PROVE  BlocksStay(blocks, blocks)
<1>1. Len(blocks) \in Nat /\ IsSequence(curblock.nodes)
  BY CurBlock
<1> QED
  BY <1>1, NodesSame DEF BlocksStay, curblock

\* Another innermost block whose statements stay.
LEMMA WithCurStays ==
  ASSUME BlockSeq(blocks), NEW b, IsBlock(b), NodesStay(curblock.nodes, b.nodes)
  PROVE  BlockSeq(WithCur(b)) /\ BlocksStay(blocks, WithCur(b))
<1> DEFINE cs == Put(blocks, Len(blocks), b)
<1>1. Len(blocks) \in Nat \ {0} /\ IsSequence(blocks) /\ Len(blocks) \in 1..Len(blocks)
  BY CurBlock
<1>2. /\ IsSequence(cs) /\ Len(cs) = Len(blocks)
      /\ \A j \in 1..Len(blocks) : cs[j] = IF j = Len(blocks) THEN b ELSE blocks[j]
  BY <1>1, Replaced
<1>3. WithCur(b) = cs
  BY DEF WithCur, Put
<1> HIDE DEF cs
<1>4. \A j \in 1..Len(cs) : IsBlock(cs[j])
  BY <1>2 DEF BlockSeq
<1>5. BlockSeq(cs)
  BY <1>1, <1>2, <1>4 DEF BlockSeq
<1>6. BlocksStay(blocks, cs)
  BY <1>1, <1>2 DEF BlocksStay, curblock
<1> QED
  BY <1>3, <1>5, <1>6

LEMMA WithNodesStays ==
  ASSUME BlockSeq(blocks), NEW ns, NodeSeq(ns), NodesStay(curblock.nodes, ns)
  PROVE  BlockSeq(WithNodes(ns)) /\ BlocksStay(blocks, WithNodes(ns))
<1> DEFINE b == [curblock EXCEPT !.nodes = ns]
<1>1. "nodes" \in DOMAIN curblock
  BY CurBlock DEF IsBlock
<1>2. "nodes" \in DOMAIN b /\ b.nodes = ns
  BY <1>1
<1>3. WithNodes(ns) = WithCur(b)
  BY DEF WithNodes
<1> HIDE DEF b
<1>4. IsBlock(b) /\ NodesStay(curblock.nodes, b.nodes)
  BY <1>2 DEF IsBlock
<1> QED
  BY <1>3, <1>4, WithCurStays

\* A header is filled.
LEMMA HeaderStays ==
  ASSUME BlockSeq(blocks), NEW b, DOMAIN b = DOMAIN curblock, b.nodes = curblock.nodes
  PROVE  BlockSeq(WithCur(b)) /\ BlocksStay(blocks, WithCur(b))
<1>1. IsBlock(b) /\ IsSequence(curblock.nodes)
  BY CurBlock DEF IsBlock
<1>2. NodesStay(curblock.nodes, b.nodes)
  BY <1>1, NodesSame
<1> QED
  BY <1>1, <1>2, WithCurStays

LEMMA HeadersStay ==
  ASSUME BlockSeq(blocks), NEW x, NEW y
  PROVE  /\ BlockSeq(setIndex(x)) /\ BlocksStay(blocks, setIndex(x))
         /\ BlockSeq(setExpr(x, y)) /\ BlocksStay(blocks, setExpr(x, y))
         /\ BlockSeq(WithCur([curblock EXCEPT !.inited = TRUE]))
         /\ BlocksStay(blocks, WithCur([curblock EXCEPT !.inited = TRUE]))
<1> DEFINE b1 == [curblock EXCEPT !.index = x, !.inited = TRUE]
           b2 == [curblock EXCEPT !.expr = x, !.var = y, !.inited = TRUE]
           b3 == [curblock EXCEPT !.inited = TRUE]
<1>1. "nodes" \in DOMAIN curblock
  BY CurBlock DEF IsBlock
<1>2. /\ DOMAIN b1 = DOMAIN curblock /\ b1.nodes = curblock.nodes
      /\ DOMAIN b2 = DOMAIN curblock /\ b2.nodes = curblock.nodes
      /\ DOMAIN b3 = DOMAIN curblock /\ b3.nodes = curblock.nodes
  <2> HIDE DEF curblock
  <2> QED
    BY <1>1
<1>3. setIndex(x) = WithCur(b1) /\ setExpr(x, y) = WithCur(b2)
  BY DEF setIndex, setExpr
<1> HIDE DEF b1, b2, b3
<1>4. /\ BlockSeq(WithCur(b1)) /\ BlocksStay(blocks, WithCur(b1))
      /\ BlockSeq(WithCur(b2)) /\ BlocksStay(blocks, WithCur(b2))
      /\ BlockSeq(WithCur(b3)) /\ BlocksStay(blocks, WithCur(b3))
  BY <1>2, HeaderStays
<1> QED
  BY <1>3, <1>4 DEF b3

LEMMA EmittedStay ==
  ASSUME BlockSeq(blocks), NEW xs, NodeSeq(xs)
  PROVE  BlockSeq(Emitted(xs)) /\ BlocksStay(blocks, Emitted(xs))
<1> DEFINE old == curblock.nodes
           new == old \o xs
<1>1. /\ IsSequence(old) /\ Len(old) \in Nat /\ \A j \in 1..Len(old) : Node(old[j])
      /\ IsSequence(xs) /\ Len(xs) \in Nat /\ \A j \in 1..Len(xs) : Node(xs[j])
  BY CurBlock, SequenceIs DEF NodeSeq
<1>2. /\ IsSequence(new) /\ Len(new) = Len(old) + Len(xs)
      /\ \A j \in 1..Len(old) : new[j] = old[j]
      /\ \A j \in 1..Len(xs) : new[Len(old) + j] = xs[j]
  <2> HIDE DEF old
  <2> QED
    BY <1>1, Joined
<1>3. Emitted(xs) = WithNodes(new)
  BY DEF Emitted
<1> HIDE DEF new, old
<1>4. ASSUME NEW j \in 1..Len(new)
      PROVE  Node(new[j])
  <2>1. j \in 1..Len(old) \/ (j - Len(old) \in 1..Len(xs) /\ j = Len(old) + (j - Len(old)))
    BY <1>1, <1>2
  <2> QED
    BY <2>1, <1>1, <1>2
<1>5. NodeSeq(new)
  BY <1>2, <1>4 DEF NodeSeq
<1>6. NodesStay(old, new)
  <2>1. old # <<>> => Len(old) \in 1..Len(old)
    <3>1. IsSequence(old) /\ Len(old) = 0 => old = <<>>
      BY EmptySeq DEF IsSequence
    <3> QED
      BY <3>1, <1>1
  <2> QED
    BY <2>1, <1>1, <1>2 DEF NodesStay
<1> QED
  BY <1>3, <1>5, <1>6, WithNodesStays DEF old

LEMMA AppendStays ==
  ASSUME BlockSeq(blocks), NEW x, Node(x)
  PROVE  BlockSeq(append(x)) /\ BlocksStay(blocks, append(x))
<1> DEFINE old == curblock.nodes
           new == Append(old, x)
<1>1. /\ IsSequence(old) /\ Len(old) \in Nat /\ \A j \in 1..Len(old) : Node(old[j])
  BY CurBlock, SequenceIs DEF NodeSeq
<1>2. /\ IsSequence(new) /\ Len(new) = Len(old) + 1
      /\ \A j \in 1..Len(old) : new[j] = old[j]
      /\ new[Len(old) + 1] = x
  <2> HIDE DEF old
  <2> QED
    BY <1>1, Appended
<1>3. append(x) = WithNodes(new)
  BY DEF append
<1> HIDE DEF new, old
<1>4. ASSUME NEW j \in 1..Len(new)
      PROVE  Node(new[j])
  <2>1. j \in 1..Len(old) \/ j = Len(old) + 1
    BY <1>1, <1>2
  <2> QED
    BY <2>1, <1>1, <1>2
<1>5. NodeSeq(new)
  BY <1>2, <1>4 DEF NodeSeq
<1>6. NodesStay(old, new)
  <2>1. old # <<>> => Len(old) \in 1..Len(old)
    <3>1. IsSequence(old) /\ Len(old) = 0 => old = <<>>
      BY EmptySeq DEF IsSequence
    <3> QED
      BY <3>1, <1>1
  <2> QED
    BY <2>1, <1>1, <1>2 DEF NodesStay
<1> QED
  BY <1>3, <1>5, <1>6, WithNodesStays DEF old

LEMMA LastOf ==
  ASSUME BlockSeq(blocks), HasLast
  PROVE  Len(curblock.nodes) \in 1..Len(curblock.nodes) /\ Node(LastNode)
<1>1. /\ IsSequence(curblock.nodes) /\ Len(curblock.nodes) \in Nat
      /\ \A j \in 1..Len(curblock.nodes) : Node(curblock.nodes[j])
  BY CurBlock DEF NodeSeq
<1>2. Len(curblock.nodes) # 0
  BY <1>1, EmptySeq DEF IsSequence, HasLast
<1> QED
  BY <1>1, <1>2 DEF LastNode

LEMMA ReplaceLastStays ==
  ASSUME BlockSeq(blocks), HasLast, NEW x, Node(x), Completes(x, LastNode)
  PROVE  BlockSeq(WithNodes(ReplaceLast(x))) /\ BlocksStay(blocks, WithNodes(ReplaceLast(x)))
<1> DEFINE old == curblock.nodes
           new == Put(old, Len(old), x)
<1>1. /\ IsSequence(old) /\ Len(old) \in Nat /\ \A j \in 1..Len(old) : Node(old[j])
      /\ Len(old) \in 1..Len(old)
  BY CurBlock, LastOf DEF NodeSeq
<1>2. /\ IsSequence(new) /\ Len(new) = Len(old)
      /\ \A j \in 1..Len(old) : new[j] = IF j = Len(old) THEN x ELSE old[j]
  <2> HIDE DEF old
  <2> QED
    BY <1>1, Replaced
<1>3. ReplaceLast(x) = new
  BY DEF ReplaceLast, Put
<1>4. Completes(x, old[Len(old)])
  BY DEF LastNode
<1> HIDE DEF new, old
<1>5. NodeSeq(new)
  BY <1>1, <1>2 DEF NodeSeq
<1>6. NodesStay(old, new)
  BY <1>1, <1>2, <1>4 DEF NodesStay
<1> QED
  BY <1>3, <1>5, <1>6, WithNodesStays DEF old

LEMMA OpenStays ==
  ASSUME BlockSeq(blocks), NEW type, NEW inited, NEW iter
  PROVE  /\ BlockSeq(Append(blocks, Block(type, inited, iter)))
         /\ BlocksStay(blocks, Append(blocks, Block(type, inited, iter)))
<1> DEFINE b  == Block(type, inited, iter)
           cs == Append(blocks, b)
<1>1. /\ IsSequence(blocks) /\ Len(blocks) \in Nat \ {0} /\ IsSequence(curblock.nodes)
      /\ \A j \in 1..Len(blocks) : IsBlock(blocks[j])
  BY CurBlock DEF BlockSeq
<1>2. /\ IsSequence(cs) /\ Len(cs) = Len(blocks) + 1
      /\ \A j \in 1..Len(blocks) : cs[j] = blocks[j]
      /\ cs[Len(blocks) + 1] = b
  <2> HIDE DEF b
  <2> QED
    BY <1>1, Appended
<1>3. IsBlock(b)
  BY DEF IsBlock, Block, NodeSeq, IsSequence
<1> HIDE DEF cs, b
<1>4. ASSUME NEW j \in 1..Len(cs)
      PROVE  IsBlock(cs[j])
  <2>1. j \in 1..Len(blocks) \/ j = Len(blocks) + 1
    BY <1>1, <1>2
  <2> QED
    BY <2>1, <1>1, <1>2, <1>3
<1>5. BlockSeq(cs)
  BY <1>1, <1>2, <1>4 DEF BlockSeq
<1>6. BlocksStay(blocks, cs)
  <2>1. NodesStay(curblock.nodes, curblock.nodes)
    BY <1>1, NodesSame
  <2> QED
    BY <2>1, <1>1, <1>2 DEF BlocksStay, curblock
<1> QED
  BY <1>5, <1>6 DEF cs, b

----------------------------------------------------------------------------
(* Every handler leaves values on the stack, statements in the blocks, and *)
(* the statements that are out where they are.                             *)

CodeShaped == IsSequence(code) /\ \A p \in DOMAIN code : IsInstruction(code[p])

Shaped ==
  /\ CodeShaped
  /\ ValueSeq(stack)
  /\ BlockSeq(blocks)
  /\ IsSequence(unpackNest)

Extends == BlockSeq(blocks') /\ BlocksStay(blocks, blocks')
Kept    == ValueSeq(stack') /\ Extends /\ IsSequence(unpackNest')

LEMMA InsShaped ==
  ASSUME Shaped, CodeTyped, NEW ops, At(ops)
  PROVE  IsInstruction(Ins) /\ Ins.arg \in Nat /\ Ins.op \in ops
<1>1. pos \in DOMAIN code
  BY SequenceIs DEF CodeTyped, At
<1> QED
  BY <1>1 DEF Shaped, CodeShaped, IsInstruction, Ins, At

LEMMA BlocksUnchanged ==
  ASSUME Shaped, UNCHANGED blocks
  PROVE  Extends
<1>1. blocks' = blocks /\ BlockSeq(blocks) /\ BlocksStay(blocks, blocks)
  BY BlocksSame DEF Shaped
<1> QED
  BY <1>1 DEF Extends

LEMMA BlocksAppended ==
  ASSUME Shaped, NEW x, Node(x), blocks' = append(x)
  PROVE  Extends
<1>1. BlockSeq(append(x)) /\ BlocksStay(blocks, append(x))
  BY AppendStays DEF Shaped
<1> QED
  BY <1>1 DEF Extends

LEMMA StoreIsNode ==
  ASSUME NEW v, "t" \in DOMAIN v, NEW x
  PROVE  Node(Store(v, x))
BY DEF Node, Store

LEMMA EvaluateKeeps ==
  ASSUME Shaped, CodeTyped, Evaluate
  PROVE  Kept
<1>1. At(ExpressionOpcodes) /\ stack' = Stamped(Evaluated(stack, Ins))
      /\ UNCHANGED <<blocks, unpackNest>>
  BY DEF Evaluate, unpacking
<1>2. ValueSeq(Stamped(Evaluated(stack, Ins)))
  BY <1>1, InsShaped, EvaluatedValues, StampedValues DEF Shaped
<1> QED
  BY <1>1, <1>2, BlocksUnchanged DEF Kept, Shaped

LEMMA UnderKwMapValues ==
  ASSUME Shaped
  PROVE  ValueSeq(UnderKwMap)
BY DropValues DEF Shaped, UnderKwMap

LEMMA WithoutMarkValues ==
  ASSUME NEW s, ValueSeq(s)
  PROVE  ValueSeq(WithoutMark(s))
BY DropValues DEF WithoutMark

LEMMA CallBuildClassKeeps ==
  ASSUME Shaped, CallBuildClass
  PROVE  Kept
<1>1. PICK n \in 1..Len(stack) :
        stack' = Stamped(BuiltClass(UnderKwMap, n,
                           IF KwMapOnTop THEN Peek(stack, 1) ELSE Null))
  BY DEF CallBuildClass
<1>2. UNCHANGED <<blocks, unpackNest>>
  BY DEF CallBuildClass, unpacking
<1> DEFINE kw == IF KwMapOnTop THEN Peek(stack, 1) ELSE Null
<1>3. n + 2 \in Nat
  BY SequenceIs DEF Shaped, ValueSeq
<1>4. ValueSeq(BuiltClass(UnderKwMap, n, kw))
  <2>1. ValueSeq(WithoutMark(Drop(UnderKwMap, n + 2)))
    BY <1>3, UnderKwMapValues, DropValues, WithoutMarkValues
  <2> QED
    BY <2>1, AlsoMade, PushValue DEF BuiltClass
<1> HIDE DEF kw
<1>5. stack' = Stamped(BuiltClass(UnderKwMap, n, kw))
  BY <1>1 DEF kw
<1> QED
  BY <1>2, <1>4, <1>5, StampedValues, BlocksUnchanged DEF Kept, Shaped

\* The definitions among the arguments of a call, the last argument first.
LEMMA HoistedNodes ==
  ASSUME NEW ps, ValueSeq(ps)
  PROVE  NodeSeq(Hoisted(ps))
<1> DEFINE n == Len(ps)
           step(j, before) ==
             IF j = 0 THEN <<>>
             ELSE IF IsDefinition(ps[j]) THEN <<Store(ps[j], NameOf(ps[j]))>> \o before
             ELSE before
           Is(f, m) == f = [j \in 0..m |-> step(j, f[j - 1])]
           Has(m) == \E f : Is(f, m)
<1>1. n \in Nat /\ \A j \in 1..n : Value(ps[j])
  BY SequenceIs DEF ValueSeq
<1>2. \A m \in Nat : Has(m)
  <2>1. \A x : step(0, x) = <<>>
    OBVIOUS
  <2> HIDE DEF step
  <2>2. Has(0)
    <3> DEFINE f == [j \in 0..0 |-> <<>>]
    <3>1. f = [j \in 0..0 |-> step(j, f[j - 1])]
      BY <2>1
    <3> HIDE DEF f
    <3> QED
      BY <3>1
  <2>3. ASSUME NEW m \in Nat, Has(m)
        PROVE  Has(m + 1)
    <3>1. PICK g : g = [j \in 0..m |-> step(j, g[j - 1])]
      BY <2>3
    <3> DEFINE f == [j \in 0..(m + 1) |-> IF j = m + 1 THEN step(m + 1, g[m]) ELSE g[j]]
    <3>2. ASSUME NEW j \in 0..(m + 1)
          PROVE  f[j] = step(j, f[j - 1])
      <4>1. CASE j = 0
        <5>1. f[0] = g[0] /\ g[0] = step(0, g[0 - 1])
          BY <3>1
        <5> HIDE DEF f
        <5> QED
          BY <5>1, <4>1, <2>1
      <4>2. CASE j = m + 1
        <5>1. f[j] = step(j, g[m]) /\ f[m] = g[m] /\ j - 1 = m
          BY <4>2
        <5> HIDE DEF f
        <5> QED
          BY <5>1
      <4>3. CASE j # 0 /\ j # m + 1
        <5>1. j \in 0..m /\ f[j] = g[j] /\ f[j - 1] = g[j - 1] /\ g[j] = step(j, g[j - 1])
          BY <4>3, <3>1
        <5> HIDE DEF f
        <5> QED
          BY <5>1
      <4> QED
        BY <4>1, <4>2, <4>3
    <3>3. f = [j \in 0..(m + 1) |-> f[j]]
      OBVIOUS
    <3> HIDE DEF f
    <3>4. f = [j \in 0..(m + 1) |-> step(j, f[j - 1])]
      BY <3>2, <3>3
    <3> QED
      BY <3>4
  <2> HIDE DEF Has
  <2> DEFINE S == {m \in Nat : ~Has(m)}
  <2> SUFFICES ASSUME S # {} PROVE FALSE
    OBVIOUS
  <2>4. PICK m \in S : \A r \in S : m <= r
    <3>1. S \subseteq Nat
      OBVIOUS
    <3> HIDE DEF S
    <3> QED
      BY <3>1, LeastExists
  <2>5. m \in Nat /\ ~Has(m) /\ m # 0
    BY <2>2, <2>4
  <2>6. m - 1 \in Nat /\ m - 1 \notin S
    BY <2>4, <2>5
  <2>7. Has(m - 1)
    BY <2>6
  <2>8. Has((m - 1) + 1)
    BY <2>3, <2>6, <2>7
  <2>9. (m - 1) + 1 = m
    BY <2>5
  <2> QED
    BY <2>5, <2>8, <2>9
<1> DEFINE defs == CHOOSE f : Is(f, n)
<1>3. Is(defs, n)
  <2>1. \E f : Is(f, n)
    BY <1>1, <1>2
  <2> HIDE DEF Is
  <2> QED
    BY <2>1
<1>4. Hoisted(ps) = defs[n]
  BY DEF Hoisted
<1> HIDE DEF defs
<1>5. \A j \in 0..n : defs[j] = step(j, defs[j - 1])
  BY <1>3
<1>6. \A j \in 0..n : NodeSeq(defs[j])
  <2> DEFINE S == {j \in 0..n : ~NodeSeq(defs[j])}
  <2> SUFFICES ASSUME S # {} PROVE FALSE
    OBVIOUS
  <2>1. PICK j \in S : \A r \in S : j <= r
    <3>1. S \subseteq Nat
      BY <1>1
    <3> HIDE DEF S
    <3> QED
      BY <3>1, LeastExists
  <2>2. CASE j = 0
    <3>1. NodeSeq(<<>>)
      BY DEF NodeSeq, IsSequence
    <3> QED
      BY <3>1, <2>1, <2>2, <1>5
  <2>3. CASE j # 0
    <3>1. j \in 1..n /\ j - 1 \in 0..n /\ j - 1 \notin S
      BY <2>1, <2>3, <1>1
    <3>2. NodeSeq(defs[j - 1])
      BY <3>1
    <3>3. CASE IsDefinition(ps[j])
      <4> DEFINE x == Store(ps[j], NameOf(ps[j]))
                 r == defs[j - 1]
      <4>1. Node(x)
        BY <3>1, <1>1, StoreIsNode DEF Value
      <4>2. defs[j] = <<x>> \o r
        BY <3>1, <3>3, <2>3, <1>5
      <4> HIDE DEF x, r
      <4>3. IsSequence(<<x>>) /\ Len(<<x>>) = 1 /\ <<x>>[1] = x
        BY DEF IsSequence
      <4>4. IsSequence(r) /\ Len(r) \in Nat /\ \A k \in 1..Len(r) : Node(r[k])
        BY <3>2, SequenceIs DEF NodeSeq, r
      <4> DEFINE c == <<x>> \o r
      <4>5. /\ IsSequence(c) /\ Len(c) = 1 + Len(r)
            /\ c[1] = x /\ \A k \in 1..Len(r) : c[1 + k] = r[k]
        <5>1. /\ IsSequence(c) /\ Len(c) = Len(<<x>>) + Len(r)
              /\ \A k \in 1..Len(<<x>>) : c[k] = <<x>>[k]
              /\ \A k \in 1..Len(r) : c[Len(<<x>>) + k] = r[k]
          BY <4>3, <4>4, Joined
        <5> HIDE DEF c
        <5> QED
          BY <5>1, <4>3
      <4> HIDE DEF c
      <4>6. ASSUME NEW k \in 1..Len(c)
            PROVE  Node(c[k])
        <5>1. k = 1 \/ (k - 1 \in 1..Len(r) /\ k = 1 + (k - 1))
          BY <4>4, <4>5
        <5> QED
          BY <5>1, <4>1, <4>4, <4>5
      <4>7. NodeSeq(c)
        BY <4>5, <4>6 DEF NodeSeq
      <4> QED
        BY <4>2, <4>7, <2>1 DEF c
    <3>4. CASE ~IsDefinition(ps[j])
      <4>1. defs[j] = defs[j - 1]
        BY <3>1, <3>4, <2>3, <1>5
      <4> QED
        BY <4>1, <3>2, <2>1
    <3> QED
      BY <3>3, <3>4
  <2> QED
    BY <2>2, <2>3
<1> QED
  BY <1>1, <1>4, <1>6

LEMMA HandleCallKeeps ==
  ASSUME Shaped, CodeTyped, HandleCall
  PROVE  Kept
<1> DEFINE kvs  == IF KwMapOnTop THEN [j \in DOMAIN Peek(stack, 1).kvs |->
                    Peek(stack, 1).kvs[Len(Peek(stack, 1).kvs) + 1 - j]]
                   ELSE IF ver >= 311 \/ Ins.op = "CALL_METHOD" THEN <<>>
                   ELSE Pairs(Above(stack, 2 * Keywords(Ins.arg)))
           s1   == IF KwMapOnTop THEN UnderKwMap ELSE Drop(stack, 2 * Len(kvs))
           pparams == IF KwMapOnTop THEN Positional(Ins.arg) - Len(kvs)
                      ELSE Positional(Ins.arg)
           n    == IF pparams < 0 THEN 0 ELSE pparams
           ps   == Above(s1, n)
           func == Peek(s1, n + 1)
           rest == Drop(s1, n + 1)
           decorator == /\ Ins.op = "CALL" /\ pparams = 0 /\ Keywords(Ins.arg) = 0
                        /\ Peek(rest, 1) # Null
                        /\ IsDecorated(func)
           target == IF func.t = "class" THEN Name(func.name.obj.v) ELSE NameOf(func)
           own  == IF decorator /\ func.t # "call" THEN <<Store(func, target)>> ELSE <<>>
           call == IF decorator THEN Call(Peek(rest, 1), <<target>>, <<>>)
                   ELSE Call(func, [j \in DOMAIN ps |-> NameOf(ps[j])], kvs)
           left == IF decorator THEN Drop(rest, 1)
                   ELSE IF Ins.op = "CALL" THEN WithoutMark(rest) ELSE rest
<1>1. /\ At({"CALL", "CALL_FUNCTION", "CALL_METHOD"})
      /\ stack' = Stamped(Push(left, call))
      /\ blocks' = Emitted(Hoisted(ps) \o own)
      /\ UNCHANGED unpackNest
  BY ZenonT(60) DEF HandleCall, unpacking
<1>2. Ins.arg \in Nat /\ Positional(Ins.arg) \in Nat /\ Keywords(Ins.arg) \in Nat
  <2>1. Ins.arg \in Nat
    BY <1>1, InsShaped
  <2> QED
    BY <2>1 DEF Positional, Keywords
<1>3. Len(kvs) \in Nat
  <2>1. CASE KwMapOnTop
    <3> DEFINE m == Peek(stack, 1)
               back == [j \in DOMAIN m.kvs |-> m.kvs[Len(m.kvs) + 1 - j]]
    <3>1. Value(m) /\ m.t = "kw_names"
      BY <2>1, PeekValue DEF Shaped, KwMapOnTop, TypeAt
    <3>2. IsSequence(m.kvs)
      BY <3>1 DEF Value
    <3> HIDE DEF m
    <3>3. DOMAIN back = 1..Len(m.kvs) /\ Len(m.kvs) \in Nat
          /\ back = [j \in 1..Len(m.kvs) |-> back[j]]
      BY <3>2, SequenceIs
    <3>4. kvs = back
      BY <2>1 DEF m
    <3> HIDE DEF back, kvs
    <3>5. Len(back) = Len(m.kvs)
      BY <3>3, SequenceOf
    <3> QED
      BY <3>3, <3>4, <3>5
  <2>2. CASE ~KwMapOnTop /\ (ver >= 311 \/ Ins.op = "CALL_METHOD")
    BY <2>2
  <2>3. CASE ~KwMapOnTop /\ ~(ver >= 311 \/ Ins.op = "CALL_METHOD")
    <3> DEFINE k  == Keywords(Ins.arg)
               vs == Above(stack, 2 * k)
               pairs == Pairs(vs)
    <3>1. Len(vs) = 2 * k /\ k \in Nat
      <4>1. 2 * k \in Nat /\ k \in Nat /\ ValueSeq(stack)
        BY <1>2 DEF Shaped
      <4> HIDE DEF k
      <4> QED
        BY <4>1, AboveValues
    <3> HIDE DEF k, vs
    <3>2. Len(vs) \div 2 = k
      BY <3>1
    <3>3. DOMAIN pairs = 1..k /\ pairs = [j \in 1..k |-> pairs[j]]
      BY <3>2 DEF Pairs
    <3> HIDE DEF pairs
    <3>4. Len(pairs) \in Nat
      BY <3>1, <3>3, SequenceOf
    <3>5. kvs = pairs
      BY <2>3 DEF pairs, vs, k
    <3> HIDE DEF kvs
    <3> QED
      BY <3>4, <3>5
  <2> QED
    BY <2>1, <2>2, <2>3
<1> HIDE DEF kvs
<1>4. n \in Nat
  BY <1>2, <1>3
<1>5. ValueSeq(s1)
  BY <1>3, UnderKwMapValues, DropValues DEF Shaped
<1> HIDE DEF s1, n
<1>6. ValueSeq(ps) /\ ValueSeq(rest) /\ Value(func)
  BY <1>4, <1>5, AboveValues, DropValues, PeekValue
<1>7. NodeSeq(Hoisted(ps))
  BY <1>6, HoistedNodes
<1>8. NodeSeq(own)
  <2>1. Node(Store(func, target))
    <3> HIDE DEF func, target
    <3> QED
      BY <1>6, StoreIsNode DEF Value
  <2> DEFINE x == Store(func, target)
  <2>2. own = <<>> \/ own = <<x>>
    OBVIOUS
  <2>3. Node(x)
    BY <2>1
  <2> HIDE DEF x, own
  <2>4. NodeSeq(<<>>) /\ NodeSeq(<<x>>)
    BY <2>3 DEF NodeSeq, IsSequence
  <2> QED
    BY <2>2, <2>4
<1> HIDE DEF ps, own, rest, func
<1>9. NodeSeq(Hoisted(ps) \o own)
  <2> DEFINE r == Hoisted(ps)
             c == r \o own
  <2>1. /\ IsSequence(r) /\ Len(r) \in Nat /\ \A j \in 1..Len(r) : Node(r[j])
        /\ IsSequence(own) /\ Len(own) \in Nat /\ \A j \in 1..Len(own) : Node(own[j])
    BY <1>7, <1>8, SequenceIs DEF NodeSeq
  <2> HIDE DEF r
  <2>2. /\ IsSequence(c) /\ Len(c) = Len(r) + Len(own)
        /\ \A j \in 1..Len(r) : c[j] = r[j]
        /\ \A j \in 1..Len(own) : c[Len(r) + j] = own[j]
    BY <2>1, Joined
  <2> HIDE DEF c
  <2>3. ASSUME NEW j \in 1..Len(c)
        PROVE  Node(c[j])
    <3>1. j \in 1..Len(r) \/ (j - Len(r) \in 1..Len(own) /\ j = Len(r) + (j - Len(r)))
      BY <2>1, <2>2
    <3> QED
      BY <3>1, <2>1, <2>2
  <2>4. NodeSeq(c)
    BY <2>2, <2>3 DEF NodeSeq
  <2> QED
    BY <2>4 DEF c, r
<1>10. BlockSeq(Emitted(Hoisted(ps) \o own)) /\ BlocksStay(blocks, Emitted(Hoisted(ps) \o own))
  BY <1>9, EmittedStay DEF Shaped
<1>11. Extends
  BY <1>1, <1>10 DEF Extends
<1>12. ValueSeq(left)
  BY <1>6, DropValues, WithoutMarkValues
<1>13. Value(call)
  BY AlsoMade
<1> HIDE DEF left, call
<1>14. ValueSeq(Stamped(Push(left, call)))
  BY <1>12, <1>13, PushValue, StampedValues
<1> QED
  BY <1>1, <1>11, <1>14 DEF Kept, Shaped

LEMMA YieldValueKeeps ==
  ASSUME Shaped, YieldValue
  PROVE  Kept
<1>1. /\ \/ stack' = Stamped(Fold(stack, 1, YieldExpr(Peek(stack, 1)))) /\ UNCHANGED blocks
         \/ stack' = Drop(stack, 1) /\ blocks' = append(Yield(Peek(stack, 1)))
      /\ UNCHANGED unpackNest
  BY DEF YieldValue, unpacking
<1>2. /\ ValueSeq(Stamped(Fold(stack, 1, YieldExpr(Peek(stack, 1)))))
      /\ ValueSeq(Drop(stack, 1))
  BY AlsoMade, FoldValues, StampedValues, DropValues DEF Shaped
<1>3. Node(Yield(Peek(stack, 1)))
  BY DEF Node, Yield
<1> QED
  BY <1>1, <1>2, <1>3, BlocksUnchanged, BlocksAppended DEF Kept, Shaped

----------------------------------------------------------------------------
(* Stores.                                                                 *)

LEMMA ChainKeeps ==
  ASSUME Shaped, NEW chain, Value(chain), NEW x, NEW s, ValueSeq(s),
         append_to_chain_store(chain, x, s)
  PROVE  ValueSeq(stack') /\ Extends
<1> DEFINE longer == [chain EXCEPT !.vs = Append(@, x)]
           rest   == Drop(s, 1)
<1>1. Value(longer) /\ ValueSeq(rest)
  BY FieldReplaced, DropValues
<1>2. \/ stack' = rest /\ blocks' = append(longer)
      \/ stack' = Push(rest, longer) /\ UNCHANGED blocks
  BY DEF append_to_chain_store
<1> HIDE DEF longer, rest
<1> QED
  BY <1>1, <1>2, PushValue, ValueIsNode, BlocksAppended, BlocksUnchanged

\* Decorators complete the definition that was stored last.
LEMMA DecoratedStays ==
  ASSUME Shaped, NEW v, NEW x, NEW n, tryAttachDecorators(v, x, n),
         blocks' = WithNodes(Decorated(v, n))
  PROVE  Extends
<1> DEFINE d == LastNode.src.decorators \o [j \in 1..n |-> Inner(v, j - 1).func]
           src == [LastNode.src EXCEPT !.decorators = d]
           y == [LastNode EXCEPT !.src = src]
<1>1. HasLast /\ LastNode.t = "store" /\ LastNode.src.t \in {"function", "class"}
  BY DEF tryAttachDecorators, IsDefinition
<1>2. Node(LastNode)
  BY <1>1, LastOf DEF Shaped
<1>3. /\ "t" \in DOMAIN LastNode /\ {"src", "dest"} \subseteq DOMAIN LastNode
      /\ "t" \in DOMAIN LastNode.src
  BY <1>1, <1>2 DEF Node
<1>4. DOMAIN src = DOMAIN LastNode.src /\ src.t = LastNode.src.t
  <2> HIDE DEF d
  <2> QED
    BY <1>3
<1>5. Decorated(v, n) = ReplaceLast(y)
  BY DEF Decorated
<1> HIDE DEF src
<1>6. /\ y.t = "store" /\ y.src = src /\ y.dest = LastNode.dest
      /\ DOMAIN y = DOMAIN LastNode
  BY <1>1, <1>3
<1> HIDE DEF y
<1>7. Node(y)
  BY <1>3, <1>4, <1>6 DEF Node
<1>8. Completes(y, LastNode)
  BY <1>1, <1>4, <1>6 DEF Completes
<1>9. BlockSeq(WithNodes(ReplaceLast(y))) /\ BlocksStay(blocks, WithNodes(ReplaceLast(y)))
  BY <1>1, <1>7, <1>8, ReplaceLastStays DEF Shaped
<1> QED
  BY <1>5, <1>9 DEF Extends

LEMMA BindKeeps ==
  ASSUME Shaped, NEW takers, NEW v, Value(v), NEW x, NEW s, ValueSeq(s),
         Bind(takers, v, x, s)
  PROVE  ValueSeq(stack') /\ Extends
<1> DEFINE imp == [Peek(s, 1) EXCEPT !.stores = Append(@, Store(v, x))]
<1>1. \/ stack' = s /\ blocks' = setIndex(x)
      \/ stack' = Fold(s, 1, imp) /\ UNCHANGED blocks
      \/ stack' = s /\ blocks' = setExpr(v, x)
      \/ append_to_chain_store(v, x, s)
      \/ /\ \E n \in 1..MaxDecorators :
              /\ tryAttachDecorators(v, x, n)
              /\ stack' = s /\ blocks' = WithNodes(Decorated(v, n))
      \/ stack' = s /\ blocks' = append(Store(v, x))
  BY DEF Bind
<1>2. Value(imp)
  <2> DEFINE y == Peek(s, 1)
  <2>1. Value(y)
    BY PeekValue
  <2> HIDE DEF y
  <2>2. Value([y EXCEPT !.stores = Append(@, Store(v, x))])
    BY <2>1, FieldReplaced
  <2> QED
    BY <2>2 DEF y
<1> HIDE DEF imp
<1>3. CASE stack' = s /\ (blocks' = setIndex(x) \/ blocks' = setExpr(v, x))
  <2>1. /\ BlockSeq(setIndex(x)) /\ BlocksStay(blocks, setIndex(x))
        /\ BlockSeq(setExpr(v, x)) /\ BlocksStay(blocks, setExpr(v, x))
    BY HeadersStay DEF Shaped
  <2> QED
    BY <2>1, <1>3 DEF Extends
<1>4. CASE stack' = Fold(s, 1, imp) /\ UNCHANGED blocks
  BY <1>2, <1>4, FoldValues, BlocksUnchanged
<1>5. CASE append_to_chain_store(v, x, s)
  BY <1>5, ChainKeeps
<1>6. CASE \E n \in 1..MaxDecorators :
             /\ tryAttachDecorators(v, x, n)
             /\ stack' = s /\ blocks' = WithNodes(Decorated(v, n))
  BY <1>6, DecoratedStays
<1>7. CASE stack' = s /\ blocks' = append(Store(v, x))
  <2>1. Node(Store(v, x))
    BY StoreIsNode DEF Value
  <2> QED
    BY <2>1, <1>7, BlocksAppended
<1> QED
  BY <1>1, <1>3, <1>4, <1>5, <1>6, <1>7

LEMMA TargetArityIs ==
  ASSUME At(StoreOps)
  PROVE  TargetArity \in Nat
BY DEF At, StoreOps, TargetArity, NameStores

LEMMA StoreWalrusKeeps ==
  ASSUME Shaped, StoreWalrus
  PROVE  Kept
<1>1. /\ stack' = Stamped(Fold(stack, 1, Walrus(Peek(stack, 1), StoreTarget)))
      /\ UNCHANGED <<blocks, unpackNest>>
  BY DEF StoreWalrus, unpacking
<1>2. ValueSeq(Stamped(Fold(stack, 1, Walrus(Peek(stack, 1), StoreTarget))))
  BY AlsoMade, FoldValues, StampedValues DEF Shaped
<1> QED
  BY <1>1, <1>2, BlocksUnchanged DEF Kept, Shaped

LEMMA TupleStoreKeeps ==
  ASSUME Shaped, tupleStoreStep
  PROVE  Kept
<1>1. /\ stack' = Drop(stack, 1) /\ UNCHANGED unpackNest
      /\ UNCHANGED blocks \/ \E x, y : blocks' = append(Store(Tuple(x), Tuple(y)))
  BY DEF tupleStoreStep, unpacking
<1>2. \A x, y : Node(Store(Tuple(x), Tuple(y)))
  BY StoreIsNode DEF Tuple
<1> QED
  BY <1>1, <1>2, DropValues, BlocksUnchanged, BlocksAppended DEF Kept, Shaped

LEMMA StoreMapEntryKeeps ==
  ASSUME Shaped, StoreMapEntry
  PROVE  Kept
<1> DEFINE m     == Peek(stack, 2)
           rest  == Drop(stack, 3)
           entry == <<Peek(stack, 1), Peek(stack, 3)>>
           full  == [m EXCEPT !.kvs = Append(@, entry)]
           after == [j \in DOMAIN rest |-> IF SameNode(rest[j], m) THEN full ELSE rest[j]]
<1>1. /\ m.t = "map" /\ stack' = after /\ UNCHANGED <<blocks, unpackNest>>
  BY DEF StoreMapEntry, TypeAt, unpacking
<1>2. Value(m) /\ ValueSeq(rest)
  BY PeekValue, DropValues DEF Shaped
<1>3. Value(full)
  <2> HIDE DEF m, entry
  <2> QED
    BY <1>1, <1>2, EntriesReplaced
<1> HIDE DEF full, rest, m
<1>4. /\ Len(rest) \in Nat /\ DOMAIN rest = 1..Len(rest)
      /\ \A j \in 1..Len(rest) : Value(rest[j])
  BY <1>2, SequenceIs DEF ValueSeq
<1>5. /\ DOMAIN after = 1..Len(rest) /\ after = [j \in 1..Len(rest) |-> after[j]]
      /\ \A j \in 1..Len(rest) : Value(after[j])
  BY <1>3, <1>4
<1> HIDE DEF after
<1>6. ValueSeq(after)
  BY <1>4, <1>5, ListedValues
<1> QED
  BY <1>1, <1>6, BlocksUnchanged DEF Kept, Shaped

LEMMA StorePlainKeeps ==
  ASSUME Shaped, StorePlain
  PROVE  Kept
<1> DEFINE v == Peek(stack, TargetArity + 1)
           s == Drop(stack, TargetArity + 1)
<1>1. /\ Bind(Takers[Ins.op], v, StoreTarget, s)
      /\ At(StoreOps) /\ UNCHANGED unpackNest
  BY DEF StorePlain, Stored, unpacking
<1>2. TargetArity + 1 \in Nat
  BY <1>1, TargetArityIs
<1>3. Value(v) /\ ValueSeq(s)
  BY <1>2, PeekValue, DropValues DEF Shaped
<1> HIDE DEF v, s
<1> QED
  BY <1>1, <1>3, BindKeeps DEF Kept, Shaped

LEMMA StoreClassCellKeeps ==
  ASSUME Shaped, StoreClassCell
  PROVE  Kept
<1>1. stack' = Drop(stack, 1) /\ UNCHANGED <<blocks, unpackNest>>
  BY DEF StoreClassCell, unpacking
<1> QED
  BY <1>1, DropValues, BlocksUnchanged DEF Kept, Shaped

\* An annotation replaces the assignment before it by that of an annotated
\* name, or is a statement.
LEMMA StoreAnnotationKeeps ==
  ASSUME Shaped, StoreAnnotation
  PROVE  Kept
<1> DEFINE key == Peek(stack, 1)
           annotated == AnnotatedVar(key, Peek(stack, 3))
           x == Store(LastNode.src, annotated)
<1>1. /\ stack' = Drop(stack, 3) /\ UNCHANGED unpackNest
      /\ \/ blocks' = append(annotated)
         \/ HasLast /\ LastNode.t = "store" /\ blocks' = WithNodes(ReplaceLast(x))
  BY DEF StoreAnnotation, unpacking
<1>2. ValueSeq(Drop(stack, 3))
  BY DropValues DEF Shaped
<1>3. CASE blocks' = append(annotated)
  <2>1. Node(annotated)
    BY DEF Node, AnnotatedVar
  <2> HIDE DEF annotated
  <2> QED
    BY <2>1, <1>1, <1>2, <1>3, BlocksAppended DEF Kept, Shaped
<1>4. CASE HasLast /\ LastNode.t = "store" /\ blocks' = WithNodes(ReplaceLast(x))
  <2>1. Node(LastNode)
    BY <1>4, LastOf DEF Shaped
  <2>2. "t" \in DOMAIN LastNode.src
    BY <2>1, <1>4 DEF Node
  <2>3. Node(x)
    BY <2>2, StoreIsNode
  <2>4. Completes(x, LastNode)
    BY <1>4 DEF Completes, Store, AnnotatedVar
  <2> HIDE DEF x
  <2>5. BlockSeq(WithNodes(ReplaceLast(x))) /\ BlocksStay(blocks, WithNodes(ReplaceLast(x)))
    BY <1>4, <2>3, <2>4, ReplaceLastStays DEF Shaped
  <2> QED
    BY <1>1, <1>2, <1>4, <2>5 DEF Kept, Extends, Shaped
<1> QED
  BY <1>1, <1>3, <1>4

\* The tuples of nested targets are filled from the innermost out.
LEMMA StoreUnpackedKeeps ==
  ASSUME Shaped, StoreUnpacked
  PROVE  Kept
<1> DEFINE target == IF unpack = unpackStar THEN Unary("*", StoreTarget) ELSE StoreTarget
           s      == Drop(stack, TargetArity)
           depth  == Len(unpackNest)
           step(k, before) ==
             IF k = 0 THEN AddTo(Peek(s, 1), target) ELSE AddTo(Peek(s, k + 1), before)
           Is(f, m) == f = [k \in 0..m |-> step(k, f[k - 1])]
           Has(m) == \E f : Is(f, m)
           tup == CHOOSE f : Is(f, depth)
<1>1. PICK k \in 0..depth :
        /\ unpackNest' = SubSeq(unpackNest, 1, depth - k)
        /\ \/ stack' = Fold(s, k + 1, tup[k]) /\ UNCHANGED blocks
           \/ Bind(UnpackTakers, Peek(s, k + 2), tup[k], Drop(s, k + 2))
  BY DEF StoreUnpacked
<1>2. At(StoreOps)
  BY DEF StoreUnpacked, Stored
<1>3. depth \in Nat
  BY SequenceIs DEF Shaped
<1>4. ValueSeq(s)
  BY <1>2, TargetArityIs, DropValues DEF Shaped
<1>5. \A x : Value(step(k, x))
  <2>1. \A x, y : Value(x) => Value(AddTo(x, y))
    BY FieldReplaced DEF AddTo, Extended
  <2>2. Value(Peek(s, 1)) /\ Value(Peek(s, k + 1))
    BY <1>4, PeekValue
  <2> HIDE DEF s, target
  <2> QED
    BY <2>1, <2>2
<1>6. \A m \in Nat : Has(m)
  <2>1. \A x, y : step(0, x) = step(0, y)
    OBVIOUS
  <2> HIDE DEF step
  <2>2. Has(0)
    <3> DEFINE f == [j \in 0..0 |-> step(0, 0)]
    <3>1. f = [j \in 0..0 |-> step(j, f[j - 1])]
      BY <2>1
    <3> HIDE DEF f
    <3> QED
      BY <3>1
  <2>3. ASSUME NEW m \in Nat, Has(m)
        PROVE  Has(m + 1)
    <3>1. PICK g : g = [j \in 0..m |-> step(j, g[j - 1])]
      BY <2>3
    <3> DEFINE f == [j \in 0..(m + 1) |-> IF j = m + 1 THEN step(m + 1, g[m]) ELSE g[j]]
    <3>2. ASSUME NEW j \in 0..(m + 1)
          PROVE  f[j] = step(j, f[j - 1])
      <4>1. CASE j = 0
        <5>1. f[0] = g[0] /\ g[0] = step(0, g[0 - 1])
          BY <3>1
        <5> HIDE DEF f
        <5> QED
          BY <5>1, <4>1, <2>1
      <4>2. CASE j = m + 1
        <5>1. f[j] = step(j, g[m]) /\ f[m] = g[m] /\ j - 1 = m
          BY <4>2
        <5> HIDE DEF f
        <5> QED
          BY <5>1
      <4>3. CASE j # 0 /\ j # m + 1
        <5>1. j \in 0..m /\ f[j] = g[j] /\ f[j - 1] = g[j - 1] /\ g[j] = step(j, g[j - 1])
          BY <4>3, <3>1
        <5> HIDE DEF f
        <5> QED
          BY <5>1
      <4> QED
        BY <4>1, <4>2, <4>3
    <3>3. f = [j \in 0..(m + 1) |-> f[j]]
      OBVIOUS
    <3> HIDE DEF f
    <3>4. f = [j \in 0..(m + 1) |-> step(j, f[j - 1])]
      BY <3>2, <3>3
    <3> QED
      BY <3>4
  <2> HIDE DEF Has
  <2> DEFINE S == {m \in Nat : ~Has(m)}
  <2> SUFFICES ASSUME S # {} PROVE FALSE
    OBVIOUS
  <2>4. PICK m \in S : \A r \in S : m <= r
    <3>1. S \subseteq Nat
      OBVIOUS
    <3> HIDE DEF S
    <3> QED
      BY <3>1, LeastExists
  <2>5. m \in Nat /\ ~Has(m) /\ m # 0
    BY <2>2, <2>4
  <2>6. m - 1 \in Nat /\ m - 1 \notin S
    BY <2>4, <2>5
  <2>7. Has((m - 1) + 1)
    BY <2>3, <2>6
  <2>8. (m - 1) + 1 = m
    BY <2>5
  <2> QED
    BY <2>5, <2>7, <2>8
<1>7. Value(tup[k])
  <2>1. Is(tup, depth)
    <3>1. \E f : Is(f, depth)
      BY <1>3, <1>6
    <3> HIDE DEF Is
    <3> QED
      BY <3>1
  <2> HIDE DEF tup
  <2>2. tup[k] = step(k, tup[k - 1])
    <3> HIDE DEF step
    <3> QED
      BY <2>1
  <2> HIDE DEF step
  <2> QED
    BY <2>2, <1>5
<1> HIDE DEF tup, s
<1>8. k + 1 \in Nat /\ k + 2 \in Nat
  BY <1>3
<1>9. ValueSeq(stack') /\ Extends
  <2>1. CASE stack' = Fold(s, k + 1, tup[k]) /\ UNCHANGED blocks
    BY <2>1, <1>4, <1>7, <1>8, FoldValues, BlocksUnchanged
  <2>2. CASE Bind(UnpackTakers, Peek(s, k + 2), tup[k], Drop(s, k + 2))
    <3>1. Value(Peek(s, k + 2)) /\ ValueSeq(Drop(s, k + 2))
      BY <1>4, <1>8, PeekValue, DropValues
    <3> QED
      BY <3>1, <2>2, BindKeeps
  <2> QED
    BY <1>1, <2>1, <2>2
<1>10. IsSequence(unpackNest')
  <2>1. depth - k \in 0..depth
    BY <1>3
  <2>2. IsSequence(SubSeq(unpackNest, 1, depth - k))
    BY <2>1, Prefix DEF Shaped
  <2> QED
    BY <1>1, <2>2
<1> QED
  BY <1>9, <1>10 DEF Kept

LEMMA UnpackNoneKeeps ==
  ASSUME Shaped, UnpackNone
  PROVE  Kept
<1> DEFINE x == Tuple(<<>>)
           v == Peek(stack, 1)
           s == Drop(stack, 1)
<1>1. /\ UNCHANGED unpackNest
      /\ \/ blocks' = setIndex(x) /\ UNCHANGED stack
         \/ append_to_chain_store(v, x, s)
         \/ stack' = s /\ blocks' = append(Store(v, x))
  BY DEF UnpackNone
<1>2. Value(v) /\ ValueSeq(s)
  BY PeekValue, DropValues DEF Shaped
<1> HIDE DEF v, s, x
<1>3. CASE blocks' = setIndex(x) /\ UNCHANGED stack
  <2>1. BlockSeq(setIndex(x)) /\ BlocksStay(blocks, setIndex(x))
    BY HeadersStay DEF Shaped
  <2> QED
    BY <2>1, <1>1, <1>3 DEF Kept, Extends, Shaped
<1>4. CASE append_to_chain_store(v, x, s)
  BY <1>1, <1>2, <1>4, ChainKeeps DEF Kept, Shaped
<1>5. CASE stack' = s /\ blocks' = append(Store(v, x))
  <2>1. Node(Store(v, x))
    BY <1>2, StoreIsNode DEF Value
  <2> QED
    BY <2>1, <1>1, <1>2, <1>5, BlocksAppended DEF Kept, Shaped
<1> QED
  BY <1>1, <1>3, <1>4, <1>5

LEMMA UnpackKeeps ==
  ASSUME Shaped, handleUnpack
  PROVE  Kept
<1>1. /\ stack' = Stamped(Push(stack, Tuple(<<>>))) /\ UNCHANGED blocks
      /\ unpackNest' = unpackNest \/ unpackNest' = Append(unpackNest, unpack)
  BY DEF handleUnpack
<1>2. ValueSeq(Stamped(Push(stack, Tuple(<<>>))))
  BY Made, PushValue, StampedValues DEF Shaped
<1>3. IsSequence(Append(unpackNest, unpack))
  BY Appended DEF Shaped
<1> QED
  BY <1>1, <1>2, <1>3, BlocksUnchanged DEF Kept, Shaped

LEMMA ExchangedValues ==
  ASSUME NEW s, ValueSeq(s), NEW n \in Nat
  PROVE  ValueSeq(Exchanged(s, n))
<1> DEFINE a == Above(s, n)
           p == Peek(s, 1)
           q == Peek(s, n)
           e == [a EXCEPT ![1] = p, ![n] = q]
<1>1. Value(p) /\ Value(q) /\ ValueSeq(Drop(s, n)) /\ ValueSeq(a) /\ Len(a) = n
  BY PeekValue, DropValues, AboveValues
<1>2. DOMAIN a = 1..n /\ \A j \in 1..n : Value(a[j])
  BY <1>1, SequenceIs DEF ValueSeq
<1>3. Exchanged(s, n) = Drop(s, n) \o e
  BY DEF Exchanged
<1> HIDE DEF a, p, q
<1>4. /\ DOMAIN e = 1..n /\ e = [j \in 1..n |-> e[j]]
      /\ \A j \in 1..n : Value(e[j])
  BY <1>1, <1>2
<1> HIDE DEF e
<1>5. ValueSeq(e)
  BY <1>4, ListedValues
<1> QED
  BY <1>1, <1>3, <1>5, JoinedValues

LEMMA SwapsKeep ==
  ASSUME Shaped, CodeTyped, SwapAndPop \/ SwapExchanges \/ SwapOpensTuple
  PROVE  Kept
<1> DEFINE x == IF /\ Peek(stack, 2).t = "import" /\ IsNone(Peek(stack, 2).from)
                   /\ Peek(stack, 2).n = 0
                THEN Peek(stack, 2) ELSE Peek(stack, 1)
           y == Tuple(Above(stack, Ins.arg))
<1>1. /\ At({"SWAP"}) /\ UNCHANGED <<blocks, unpackNest>>
      /\ \/ stack' = Fold(stack, 2, x)
         \/ stack' = Exchanged(stack, Ins.arg)
         \/ stack' = Stamped(Push(Fold(stack, Ins.arg, y), Tuple(<<>>)))
  BY DEF SwapAndPop, SwapExchanges, SwapOpensTuple, unpacking
<1>2. Ins.arg \in Nat
  BY <1>1, InsShaped
<1>3. Value(x) /\ Value(y) /\ Value(Tuple(<<>>))
  BY PeekValue, Made DEF Shaped
<1> HIDE DEF x, y
<1>4. /\ ValueSeq(Fold(stack, 2, x)) /\ ValueSeq(Exchanged(stack, Ins.arg))
      /\ ValueSeq(Stamped(Push(Fold(stack, Ins.arg, y), Tuple(<<>>))))
  BY <1>2, <1>3, FoldValues, PushValue, StampedValues, ExchangedValues DEF Shaped
<1> QED
  BY <1>1, <1>4, BlocksUnchanged DEF Kept, Shaped

----------------------------------------------------------------------------
(* Statements of one instruction and headers.                              *)

LEMMA StatementKeeps ==
  ASSUME Shaped, NEW n \in Nat, NEW x, Node(x), Statement(n, x)
  PROVE  Kept
<1>1. stack' = Drop(stack, n) /\ blocks' = append(x) /\ UNCHANGED unpackNest
  BY DEF Statement, unpacking
<1> QED
  BY <1>1, DropValues, BlocksAppended DEF Kept, Shaped

LEMMA StatementsKeep ==
  ASSUME Shaped, CodeTyped,
         handleStoreSlice \/ handleDelete \/ handleRaiseVarargs \/ handleExecStmt
         \/ ImportStar
  PROVE  Kept
<1>1. \A v, x : Node(Store(v, x)) <=> "t" \in DOMAIN v
  BY DEF Node, Store
<1>2. \A x : Node(Delete(x)) /\ Node(Raise(x))
  BY DEF Node, Delete, Raise
<1>3. \A x, y, z : Node(Exec(x, y, z))
  BY DEF Node, Exec
<1>4. \A op : SubscrArity(op) \in Nat /\ SubscrArity(op) + 1 \in Nat
  BY DEF SubscrArity
<1>5. \A j : "t" \in DOMAIN Peek(stack, j)
  BY PeekValue DEF Shaped, Value
<1>6. CASE handleStoreSlice
  <2> DEFINE n == SubscrArity(Ins.op)
             x == Store(Peek(stack, n + 1), SubscrOnTop(stack, Ins.op))
  <2>1. Statement(n + 1, x)
    BY <1>6 DEF handleStoreSlice
  <2>2. n + 1 \in Nat /\ Node(x)
    BY <1>1, <1>4, <1>5
  <2> HIDE DEF n, x
  <2> QED
    BY <2>1, <2>2, StatementKeeps
<1>7. CASE handleDelete
  <2>1. \/ \E x : Statement(0, Delete(x))
        \/ \E x : Statement(1, Delete(x))
        \/ Statement(SubscrArity(Ins.op), Delete(SubscrOnTop(stack, Ins.op)))
    BY <1>7 DEF handleDelete
  <2> QED
    BY <2>1, <1>2, <1>4, StatementKeeps
<1>8. CASE handleRaiseVarargs
  <2>1. At({"RAISE_VARARGS"}) /\ Statement(Ins.arg, Raise(Above(stack, Ins.arg)))
    BY <1>8 DEF handleRaiseVarargs
  <2>2. Ins.arg \in Nat
    BY <2>1, InsShaped
  <2> QED
    BY <2>1, <2>2, <1>2, StatementKeeps
<1>9. CASE handleExecStmt
  <2> DEFINE s == IF TypeAt(stack, 1) = "chain_store" THEN Drop(stack, 1) ELSE stack
             n == Len(stack) - Len(Drop(s, 3))
  <2>1. Statement(n, Exec(Peek(s, 3), Peek(s, 2), Peek(s, 1)))
    BY <1>9 DEF handleExecStmt
  <2>2. n \in Nat
    <3>1. ValueSeq(stack) /\ Len(stack) \in Nat
      BY SequenceIs DEF Shaped, ValueSeq
    <3>2. ValueSeq(s) /\ Len(s) \in Nat /\ Len(s) <= Len(stack)
      BY <3>1, DropValues
    <3> HIDE DEF s
    <3>3. Len(Drop(s, 3)) \in Nat /\ Len(Drop(s, 3)) <= Len(s)
      BY <3>2, DropValues
    <3> QED
      BY <3>1, <3>2, <3>3
  <2> HIDE DEF n, s
  <2> QED
    BY <2>1, <2>2, <1>3, StatementKeeps
<1>10. CASE ImportStar
  <2>1. Statement(1, Store(Peek(stack, 1), Null))
    BY <1>10 DEF ImportStar
  <2> QED
    BY <2>1, <1>1, <1>5, StatementKeeps
<1> QED
  BY <1>6, <1>7, <1>8, <1>9, <1>10

\* An item or a newline completes the print statement before it, or starts
\* one.
LEMMA PrintKeeps ==
  ASSUME Shaped, handlePrint
  PROVE  Kept
<1> DEFINE toStream == Ins.op \in {"PRINT_ITEM_TO", "PRINT_NEWLINE_TO"}
           s        == IF toStream THEN Drop(stack, 1) ELSE stack
           longer   == Extended(LastNode, <<Peek(s, 1)>>)
           ended    == [LastNode EXCEPT !.eol = TRUE]
<1>1. /\ stack' = Drop(s, 1) /\ UNCHANGED unpackNest
      /\ \/ \E vs, stream : blocks' = append(PrintNode(vs, stream))
         \/ /\ HasLast /\ LastNode.t = "print" /\ ~LastNode.eol
            /\ \/ blocks' = WithNodes(ReplaceLast(longer))
               \/ blocks' = WithNodes(ReplaceLast(ended))
  BY DEF handlePrint, unpacking
<1>2. ValueSeq(Drop(s, 1))
  <2>1. ValueSeq(s)
    BY DropValues DEF Shaped
  <2> HIDE DEF s
  <2> QED
    BY <2>1, DropValues
<1>3. CASE \E vs, stream : blocks' = append(PrintNode(vs, stream))
  <2>1. \A vs, stream : Node(PrintNode(vs, stream))
    BY DEF Node, PrintNode
  <2> QED
    BY <2>1, <1>1, <1>2, <1>3, BlocksAppended DEF Kept, Shaped
<1>4. CASE /\ HasLast /\ LastNode.t = "print" /\ ~LastNode.eol
           /\ \/ blocks' = WithNodes(ReplaceLast(longer))
              \/ blocks' = WithNodes(ReplaceLast(ended))
  <2>1. "t" \in DOMAIN LastNode /\ "stream" \in DOMAIN LastNode
    BY <1>4, LastOf DEF Shaped, Node
  <2>2. /\ longer.t = "print" /\ longer.stream = LastNode.stream
        /\ ended.t = "print" /\ ended.stream = LastNode.stream
        /\ {"t", "stream"} \subseteq DOMAIN longer /\ {"t", "stream"} \subseteq DOMAIN ended
    <3> DEFINE last == LastNode
    <3>1. last.t = "print" /\ {"t", "stream"} \subseteq DOMAIN last
      BY <2>1, <1>4
    <3> HIDE DEF last, s
    <3>2. /\ Extended(last, <<Peek(s, 1)>>).t = "print"
          /\ Extended(last, <<Peek(s, 1)>>).stream = last.stream
          /\ {"t", "stream"} \subseteq DOMAIN Extended(last, <<Peek(s, 1)>>)
      BY <3>1 DEF Extended
    <3>3. LET e == [last EXCEPT !.eol = TRUE]
          IN e.t = "print" /\ e.stream = last.stream /\ {"t", "stream"} \subseteq DOMAIN e
      BY <3>1
    <3> QED
      BY <3>2, <3>3 DEF last
  <2> HIDE DEF longer, ended
  <2>3. Node(longer) /\ Node(ended)
    BY <2>2 DEF Node
  <2>4. Completes(longer, LastNode) /\ Completes(ended, LastNode)
    BY <2>2, <1>4 DEF Completes
  <2>5. /\ BlockSeq(WithNodes(ReplaceLast(longer)))
        /\ BlocksStay(blocks, WithNodes(ReplaceLast(longer)))
        /\ BlockSeq(WithNodes(ReplaceLast(ended)))
        /\ BlocksStay(blocks, WithNodes(ReplaceLast(ended)))
    BY <2>3, <2>4, <1>4, ReplaceLastStays DEF Shaped
  <2> QED
    BY <2>5, <1>1, <1>2, <1>4 DEF Kept, Extends, Shaped
<1> QED
  BY <1>1, <1>3, <1>4

LEMMA HeadersKeep ==
  ASSUME Shaped, handlePopTop \/ handleForIter \/ handleSetupWith
  PROVE  Kept
<1>1. CASE handlePopTop
  <2> DEFINE x == Peek(stack, 1)
  <2>1. /\ stack' = Drop(stack, 1) /\ UNCHANGED unpackNest
        /\ \/ blocks' = setExpr(x, Null)
           \/ blocks' = WithCur([curblock EXCEPT !.inited = TRUE])
           \/ blocks' = blocks
           \/ blocks' = append(x)
    BY <1>1 DEF handlePopTop, unpacking
  <2>2. Node(x)
    BY PeekValue, ValueIsNode DEF Shaped
  <2> HIDE DEF x
  <2>3. /\ BlockSeq(setExpr(x, Null)) /\ BlocksStay(blocks, setExpr(x, Null))
        /\ BlockSeq(WithCur([curblock EXCEPT !.inited = TRUE]))
        /\ BlocksStay(blocks, WithCur([curblock EXCEPT !.inited = TRUE]))
        /\ BlockSeq(append(x)) /\ BlocksStay(blocks, append(x))
        /\ BlockSeq(blocks) /\ BlocksStay(blocks, blocks)
    BY <2>2, HeadersStay, AppendStays, BlocksSame DEF Shaped
  <2>4. ValueSeq(Drop(stack, 1))
    BY DropValues DEF Shaped
  <2>5. Extends
    BY <2>1, <2>3 DEF Extends
  <2> QED
    BY <2>1, <2>4, <2>5 DEF Kept, Shaped
<1>2. CASE handleForIter
  <2> DEFINE s == IF ver < 312 THEN Drop(stack, 1) ELSE stack
             iter == Peek(stack, 1)
  <2>1. /\ stack' = Push(s, Null) /\ UNCHANGED unpackNest
        /\ blocks' = Append(blocks, Block("for", FALSE, iter))
    BY <1>2 DEF handleForIter, unpacking
  <2>2. ValueSeq(s)
    BY DropValues DEF Shaped
  <2> HIDE DEF s, iter
  <2>3. ValueSeq(Push(s, Null))
    BY <2>2, PushValue, NullIsValue
  <2>4. /\ BlockSeq(Append(blocks, Block("for", FALSE, iter)))
        /\ BlocksStay(blocks, Append(blocks, Block("for", FALSE, iter)))
    BY OpenStays DEF Shaped
  <2> QED
    BY <2>1, <2>3, <2>4 DEF Kept, Extends, Shaped
<1>3. CASE handleSetupWith
  <2>1. /\ UNCHANGED <<stack, unpackNest>>
        /\ blocks' = Append(blocks, Block("with", FALSE, Null))
    BY <1>3 DEF handleSetupWith, unpacking
  <2>2. /\ BlockSeq(Append(blocks, Block("with", FALSE, Null)))
        /\ BlocksStay(blocks, Append(blocks, Block("with", FALSE, Null)))
    BY OpenStays DEF Shaped
  <2> QED
    BY <2>1, <2>2 DEF Kept, Extends, Shaped
<1> QED
  BY <1>1, <1>2, <1>3

LEMMA RestingKeeps ==
  ASSUME Shaped, SetupAnnotations \/ Unsupported \/ UNCHANGED vars
  PROVE  Kept
<1>1. UNCHANGED <<stack, blocks, unpackNest>>
  BY DEF SetupAnnotations, Unsupported, vars, unpacking
<1> QED
  BY <1>1, BlocksUnchanged DEF Kept, Shaped

LEMMA StepsKeep ==
  ASSUME Shaped, CodeTyped, [Next]_vars
  PROVE  Kept
<1>1. CASE Evaluate \/ CallBuildClass \/ HandleCall \/ YieldValue
  BY <1>1, EvaluateKeeps, CallBuildClassKeeps, HandleCallKeeps, YieldValueKeeps
<1>2. CASE Stores
  BY <1>2, StoreWalrusKeeps, TupleStoreKeeps, StoreUnpackedKeeps, StoreAnnotationKeeps,
     StoreMapEntryKeeps, StorePlainKeeps, StoreClassCellKeeps DEF Stores
<1>3. CASE UnpackNone \/ handleUnpack \/ SwapAndPop \/ SwapExchanges \/ SwapOpensTuple
  BY <1>3, UnpackNoneKeeps, UnpackKeeps, SwapsKeep
<1>4. CASE handleStoreSlice \/ handleDelete \/ handleRaiseVarargs \/ handleExecStmt
           \/ ImportStar
  BY <1>4, StatementsKeep
<1>5. CASE handlePrint \/ handlePopTop \/ handleForIter \/ handleSetupWith
  BY <1>5, PrintKeeps, HeadersKeep
<1>6. CASE SetupAnnotations \/ Unsupported \/ UNCHANGED vars
  BY <1>6, RestingKeeps
<1> QED
  BY <1>1, <1>2, <1>3, <1>4, <1>5, <1>6 DEF Next, Step, Finished

LEMMA CodeStays ==
  ASSUME IInv, [Next]_vars
  PROVE  code' = code
<1>1. CASE tupleStoreStep
  BY <1>1 DEF tupleStoreStep, Stored
<1>2. CASE Step /\ ~tupleStoreStep
  BY <1>2, OthersLeaveTuples DEF IInv
<1>3. CASE UNCHANGED vars
  BY <1>3 DEF vars
<1> QED
  BY <1>1, <1>2, <1>3 DEF Next, Finished

LEMMA ShapedAtFirst ==
  ASSUME Init
  PROVE  Shaped
<1>1. CodeShaped
  BY CodesAssumption DEF Init, CodeShaped
<1>2. stack = <<>> /\ unpackNest = <<>> /\ blocks = <<Block("main", TRUE, Null)>>
  BY DEF Init
<1> DEFINE b == Block("main", TRUE, Null)
<1>3. IsBlock(b)
  BY DEF IsBlock, Block, NodeSeq, IsSequence
<1> HIDE DEF b
<1>4. BlockSeq(<<b>>)
  BY <1>3 DEF BlockSeq, IsSequence
<1>5. ValueSeq(<<>>) /\ IsSequence(<<>>)
  BY NoValues DEF IsSequence
<1> QED
  BY <1>1, <1>2, <1>4, <1>5 DEF Shaped, b

LEMMA StaysShaped ==
  ASSUME IInv, Shaped, [Next]_vars
  PROVE  Shaped'
<1>1. Kept /\ code' = code
  BY StepsKeep, CodeStays DEF IInv
<1>2. CodeShaped'
  BY <1>1 DEF Shaped, CodeShaped
<1> QED
  BY <1>1, <1>2 DEF Shaped, Kept, Extends

\* A statement that is out stays out, whatever the code: a step leaves the
\* outer blocks alone, adds statements to the innermost one, and of those
\* that are there completes the last at most (append, removeLast and
\* setDecorators on curblock, ASTree.cpp).
THEOREM EmittedAreKept == Spec => EmittedStays
<1>1. Spec => [](IInv /\ Shaped)
  <2>1. Init => IInv /\ Shaped
    BY InitHolds, ShapedAtFirst
  <2>2. IInv /\ Shaped /\ [Next]_vars => (IInv /\ Shaped)'
    BY StepKeeps, StaysShaped
  <2> QED
    BY <2>1, <2>2, PTL DEF Spec
<1>2. IInv /\ Shaped /\ [Next]_vars =>
        [/\ Len(blocks') >= Len(blocks)
         /\ \A j \in 1..(Len(blocks) - 1) : blocks'[j] = blocks[j]
         /\ LET old == curblock.nodes
                new == blocks'[Len(blocks)].nodes
            IN /\ Len(new) >= Len(old)
               /\ \A j \in 1..(Len(old) - 1) : new[j] = old[j]
               /\ old # <<>> =>
                    \/ new[Len(old)] = old[Len(old)]
                    \/ Completes(new[Len(old)], old[Len(old)])]_vars
  <2> SUFFICES ASSUME IInv, Shaped, [Next]_vars PROVE BlocksStay(blocks, blocks')
    BY DEF BlocksStay, NodesStay, curblock
  <2> QED
    BY StepsKeep DEF IInv, Kept, Extends
<1> QED
  BY <1>1, <1>2, PTL DEF Spec, EmittedStays

----------------------------------------------------------------------------
(* The machine ends.                                                       *)

\* What is left to read: nothing once an exception was thrown.
Left == IF cleanBuild THEN Len(code) + 3 - pos ELSE 0

InCode == pos <= Len(code) + 2

LEMMA StepsAdvance ==
  ASSUME Step
  PROVE  /\ cleanBuild /\ pos <= Len(code) /\ code' = code
         /\ \/ pos' = pos + 1
            \/ pos' = pos + 2
            \/ pos' = pos /\ ~cleanBuild'
<1>1. CASE Evaluate \/ CallBuildClass \/ HandleCall \/ YieldValue
  BY <1>1 DEF Evaluate, CallBuildClass, HandleCall, YieldValue, At
<1>2. CASE StoreWalrus \/ tupleStoreStep \/ StoreUnpacked \/ StoreAnnotation
  BY <1>2 DEF StoreWalrus, tupleStoreStep, StoreUnpacked, StoreAnnotation, Stored, At
<1>3. CASE StoreMapEntry \/ StorePlain \/ StoreClassCell
  BY <1>3 DEF StoreMapEntry, StorePlain, StoreClassCell, Stored, At
<1>4. CASE UnpackNone \/ handleUnpack
  BY <1>4 DEF UnpackNone, handleUnpack, At
<1>5. CASE SwapAndPop \/ SwapExchanges \/ SwapOpensTuple
  BY <1>5 DEF SwapAndPop, SwapExchanges, SwapOpensTuple, At
<1>6. CASE handleStoreSlice \/ handleRaiseVarargs \/ handleExecStmt \/ ImportStar
  BY <1>6 DEF handleStoreSlice, handleRaiseVarargs, handleExecStmt, ImportStar, Statement,
              At
<1>7. CASE handleDelete
  BY <1>7 DEF handleDelete, Statement, At
<1>8. CASE handlePrint \/ SetupAnnotations \/ handlePopTop
  BY <1>8 DEF handlePrint, SetupAnnotations, handlePopTop, At
<1>9. CASE handleForIter \/ handleSetupWith \/ Unsupported
  BY <1>9 DEF handleForIter, handleSetupWith, Unsupported, At
<1> QED
  BY <1>1, <1>2, <1>3, <1>4, <1>5, <1>6, <1>7, <1>8, <1>9 DEF Step, Stores

\* No instruction is handled twice (the loop of build(), ASTree.cpp): each
\* step reads on, or ends the build, so that a build has at most as many
\* steps as the code has instructions.
THEOREM EveryStepAdvances == Spec => [](Left \in Nat) /\ [][Left' < Left]_vars
<1>1. Init => InCode
  <2>1. Init => IsSequence(code) /\ pos = 1
    BY CodesAssumption DEF Init
  <2> QED
    BY <2>1, SequenceIs DEF InCode
<1>2. IInv => Len(code) \in Nat /\ pos \in Nat
  BY SequenceIs DEF IInv, CodeTyped
<1>3. IInv /\ InCode /\ [Next]_vars => InCode' /\ (Left' < Left \/ UNCHANGED vars)
  <2> SUFFICES ASSUME IInv, InCode, [Next]_vars
               PROVE  InCode' /\ (Left' < Left \/ UNCHANGED vars)
    OBVIOUS
  <2>1. CASE Step
    BY <2>1, <1>2, StepsAdvance DEF InCode, Left
  <2>2. CASE UNCHANGED vars
    BY <2>2 DEF InCode, vars
  <2> QED
    BY <2>1, <2>2 DEF Next, Finished
<1>4. Spec => [](IInv /\ InCode)
  BY <1>1, <1>3, InitHolds, StepKeeps, PTL DEF Spec
<1>5. IInv /\ InCode => Left \in Nat
  BY <1>2 DEF InCode, Left
<1>6. IInv /\ InCode /\ [Next]_vars => [Left' < Left]_vars
  BY <1>3
<1> QED
  BY <1>4, <1>5, <1>6, PTL DEF Spec

=============================================================================
