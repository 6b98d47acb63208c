---------------------------- MODULE PycRef_proofs ---------------------------
(***************************************************************************)
(* Proofs about PycRef: for any number of objects, fields and variables,   *)
(* counts are the numbers of references, no reference dangles, and the     *)
(* counting implements module Ownership.                                   *)
(***************************************************************************)
EXTENDS PycRef, FiniteSetTheorems, TLAPS

----------------------------------------------------------------------------
(* The inductive invariant.                                                *)

\* Deleted objects included, of which the count is zero.
Counted == \A o \in Objects : refs[o] = Cardinality(Holders(o)) + lost[o]
Living  == \A o \in Objects : o \in alive <=> refs[o] > 0

\* The fields of a deleted object wait for their release, those of a live
\* one do not.
FieldsDie ==
  /\ \A o \in Objects \ alive : \A p \in FieldsOf(o) : value[p] = Null \/ p \in dying
  /\ \A o \in alive : \A p \in FieldsOf(o) :
       p \in dying => assigning # <<>> /\ p = assigning[1]

DyingHold == Argument \notin dying /\ \A s \in dying : value[s] # Null

\* Slot q is a variable, or in an object that a variable besides s holds.
Lasts(q, s) ==
  \/ q \in Vars
  \/ \E r \in Vars \ {s} : value[r] # Null /\ q \in FieldsOf(value[r])

Assigned ==
  IF assigning = <<>> THEN value[Argument] = Null
  ELSE /\ assigning[1] # Argument
       /\ value[assigning[2]] = value[Argument]
       /\ \A v \in Vars : v \in dying => v = assigning[1]
       /\ Lasts(assigning[1], assigning[1])
       /\ assigning[2] \in {Argument, assigning[1]} \/ Lasts(assigning[2], assigning[1])

IInv == TypeOK /\ Counted /\ Living /\ FieldsDie /\ DyingHold /\ Assigned

----------------------------------------------------------------------------
(* Slots and counts.                                                       *)

\* There are finitely many slots.
LEMMA SlotsFinite == IsFiniteSet(Slots)
<1>1. IsFiniteSet(Objects \X Fields)
  BY SlotsAssumption, FS_Product
<1>2. IsFiniteSet({Argument})
  BY FS_Singleton
<1> QED
  BY <1>1, <1>2, SlotsAssumption, FS_Union DEF Slots

\* A field is a slot of its object's, and of no other.
LEMMA FieldsAreSlots ==
  ASSUME NEW o \in Objects, NEW p \in FieldsOf(o)
  PROVE  /\ p \in Slots /\ p \notin Vars /\ p # Argument
         /\ \A q \in Objects : p \in FieldsOf(q) => q = o
  BY SlotsAssumption DEF FieldsOf, Slots

\* Every slot is the argument, a variable or a field.
LEMMA EachSlot ==
  ASSUME NEW s \in Slots
  PROVE  s = Argument \/ s \in Vars \/ \E o \in Objects : s \in FieldsOf(o)
<1> SUFFICES ASSUME s \in Objects \X Fields
             PROVE  \E o \in Objects : s \in FieldsOf(o)
  BY DEF Slots
<1>1. PICK o \in Objects, f \in Fields : s = <<o, f>>
  OBVIOUS
<1>2. s \in FieldsOf(o)
  BY <1>1 DEF FieldsOf
<1> QED
  BY <1>2

\* What a set of slots counts, one added or one taken away.
LEMMA CountChanges ==
  ASSUME NEW S, S \subseteq Slots, NEW s \in Slots
  PROVE  /\ IsFiniteSet(S) /\ Cardinality(S) \in Nat
         /\ s \in S => /\ Cardinality(S \ {s}) = Cardinality(S) - 1
                       /\ Cardinality(S) > 0
                       /\ Cardinality(S) = 1 => S = {s}
         /\ s \notin S => Cardinality(S \cup {s}) = Cardinality(S) + 1
<1>1. IsFiniteSet(S)
  BY SlotsFinite, FS_Subset
<1>2. Cardinality(S) \in Nat
  BY <1>1, FS_CardinalityType
<1>3. ASSUME s \in S
      PROVE  /\ Cardinality(S \ {s}) = Cardinality(S) - 1
             /\ Cardinality(S) > 0
             /\ Cardinality(S) = 1 => S = {s}
  <2>1. Cardinality(S \ {s}) = Cardinality(S) - 1 /\ IsFiniteSet(S \ {s})
    BY <1>1, <1>3, FS_RemoveElement
  <2>2. Cardinality(S \ {s}) \in Nat
    BY <2>1, FS_CardinalityType
  <2>3. Cardinality(S) = 1 => S \ {s} = {}
    BY <2>1, <1>2, FS_EmptySet
  <2> QED
    BY <2>1, <2>2, <2>3, <1>2, <1>3
<1>4. s \notin S => Cardinality(S \cup {s}) = Cardinality(S) + 1
  BY <1>1, FS_AddElement
<1> QED
  BY <1>1, <1>2, <1>3, <1>4

\* What is counted refers to a live object, and an object of one reference
\* has no other.
LEMMA HeldIsAlive ==
  ASSUME TypeOK, Counted, Living, NEW s \in Slots, s \notin Stale, value[s] # Null
  PROVE  /\ value[s] \in alive
         /\ s \in Holders(value[s])
         /\ refs[value[s]] = 1 => Holders(value[s]) = {s} /\ lost[value[s]] = 0
<1> DEFINE o == value[s]
<1>1. o \in Objects /\ refs[o] \in Nat /\ lost[o] \in Nat
  BY DEF TypeOK
<1>2. s \in Holders(o) /\ Holders(o) \subseteq Slots
  BY DEF Holders
<1>3. /\ Cardinality(Holders(o)) \in Nat /\ Cardinality(Holders(o)) > 0
      /\ Cardinality(Holders(o)) = 1 => Holders(o) = {s}
  BY <1>2, CountChanges
<1>4. refs[o] = Cardinality(Holders(o)) + lost[o]
  BY <1>1 DEF Counted
<1>5. o \in alive
  BY <1>1, <1>3, <1>4 DEF Living
<1> QED
  BY <1>1, <1>2, <1>3, <1>4, <1>5

\* What the invariant says of properties.
LEMMA InvariantImplies ==
  ASSUME IInv
  PROVE  NoDangling /\ EachReferenceCounted
<1> USE DEF IInv
<1>1. NoDangling
  <2> SUFFICES ASSUME NEW s \in Slots \ Stale, value[s] # Null
               PROVE  value[s] \in alive
    BY DEF NoDangling
  <2> QED
    BY HeldIsAlive
<1>2. EachReferenceCounted
  BY DEF EachReferenceCounted, Counted, Living, TypeOK
<1> QED
  BY <1>1, <1>2

\* Between two calls every slot in reach is a variable or a field of a live
\* object, and nothing is stale.
LEMMA InReach ==
  ASSUME IInv, Idle, NEW s \in Reachable(Vars)
  PROVE  /\ Stale = {}
         /\ s \in Slots /\ s # Argument
         /\ \A o \in Objects : s \in FieldsOf(o) => o \in alive
         /\ value[s] \in alive \cup {Null}
         /\ s \in Vars \/ \E r \in Vars : value[r] # Null /\ s \in FieldsOf(value[r])
<1>1. Stale = {}
  BY DEF Stale, Idle
<1>2. \A r \in Vars : value[r] # Null => value[r] \in alive /\ value[r] \in Objects
  BY <1>1, HeldIsAlive DEF IInv, TypeOK, Slots
<1>3. s \in Vars \/ \E r \in Vars : value[r] # Null /\ s \in FieldsOf(value[r])
  BY DEF Reachable
<1>4. s \in Slots /\ s # Argument /\ \A o \in Objects : s \in FieldsOf(o) => o \in alive
  BY <1>2, <1>3, SlotsAssumption DEF Slots, FieldsOf
<1>5. value[s] \in alive \cup {Null}
  BY <1>1, <1>4, HeldIsAlive DEF IInv
<1> QED
  BY <1>1, <1>3, <1>4, <1>5

----------------------------------------------------------------------------
(* Each action keeps the invariant.                                        *)

\* A counting constructor.
LEMMA ConstructStep ==
  ASSUME IInv, NEW s \in Vars, NEW p \in Pointers, Construct(s, p)
  PROVE  IInv'
<1> USE DEF IInv
<1>1. p \in Objects /\ p # Null /\ s \in Slots /\ s # Argument /\ value[s] = Null
  <2>1. \A t \in Reachable(Vars) : value[t] \in Objects \cup {Null}
    BY InReach DEF Construct, TypeOK
  <2> QED
    BY <2>1, SlotsAssumption DEF Construct, Pointers, Slots
<1>2. /\ Idle /\ value' = [value EXCEPT ![s] = p] /\ refs' = [refs EXCEPT ![p] = @ + 1]
      /\ alive' = alive \cup {p} /\ UNCHANGED <<dying, assigning, lost>>
  BY <1>1 DEF Construct, addRef, Created
<1>3. Stale = {} /\ Stale' = {} /\ s \notin Holders(p)
  BY <1>1, <1>2, SlotsAssumption DEF Stale, Idle, Holders
<1>5. TypeOK'
  BY <1>1, <1>2 DEF TypeOK
<1>6. Counted'
  <2> SUFFICES ASSUME NEW q \in Objects
               PROVE  refs'[q] = Cardinality(Holders(q)') + lost[q]
    BY <1>2 DEF Counted
  <2>0. Holders(q)' = IF q = p THEN Holders(q) \cup {s} ELSE Holders(q)
    BY <1>1, <1>2, <1>3, SlotsAssumption DEF Holders, TypeOK
  <2>1. Holders(q) \subseteq Slots /\ refs[q] = Cardinality(Holders(q)) + lost[q]
    BY DEF Holders, Counted
  <2>2. /\ Cardinality(Holders(q)) \in Nat /\ refs[q] \in Nat /\ lost[q] \in Nat
        /\ s \notin Holders(q) => Cardinality(Holders(q) \cup {s}) = Cardinality(Holders(q)) + 1
    BY <2>1, <1>1, CountChanges DEF TypeOK
  <2> QED
    BY <2>0, <2>1, <2>2, <1>2, <1>3 DEF TypeOK
<1>7. Living'
  BY <1>1, <1>2 DEF Living, TypeOK
<1>8. FieldsDie'
  BY <1>1, <1>2, FieldsAreSlots DEF FieldsDie, TypeOK, Idle
<1>9. DyingHold' /\ Assigned'
  BY <1>1, <1>2 DEF DyingHold, Assigned, Idle, TypeOK
<1> QED
  BY <1>5, <1>6, <1>7, <1>8, <1>9

\* The move constructor: t's reference is now s's.
LEMMA MoveConstructStep ==
  ASSUME IInv, NEW s \in Vars, NEW t \in Reachable(Vars), MoveConstruct(s, t)
  PROVE  IInv'
<1> USE DEF IInv
<1>1. /\ Idle /\ value[s] = Null /\ value[t] # Null /\ s # t
      /\ value' = [value EXCEPT ![s] = value[t], ![t] = Null]
      /\ UNCHANGED <<alive, refs, dying, assigning, lost>>
  BY DEF MoveConstruct
<1>2. /\ s \in Slots /\ s # Argument /\ t \in Slots /\ t # Argument
      /\ value[t] \in Objects /\ value[t] \in alive
  BY <1>1, InReach, SlotsAssumption DEF Slots, TypeOK
<1>3. Stale = {} /\ Stale' = {}
  BY <1>1 DEF Stale, Idle
<1>5. TypeOK'
  BY <1>1, <1>2 DEF TypeOK
<1>6. Counted'
  <2> SUFFICES ASSUME NEW q \in Objects
               PROVE  Cardinality(Holders(q)') = Cardinality(Holders(q))
    BY <1>1 DEF Counted
  <2>0. Holders(q)' = IF q = value[t] THEN (Holders(q) \ {t}) \cup {s} ELSE Holders(q)
    BY <1>1, <1>2, <1>3, SlotsAssumption DEF Holders, TypeOK
  <2>1. CASE q = value[t]
    <3>1. t \in Holders(q) /\ s \notin Holders(q) /\ Holders(q) \subseteq Slots
      BY <2>1, <1>1, <1>2, <1>3, SlotsAssumption DEF Holders
    <3>2. /\ Cardinality(Holders(q)) \in Nat
          /\ Cardinality(Holders(q) \ {t}) = Cardinality(Holders(q)) - 1
      BY <3>1, <1>2, CountChanges
    <3>3. Cardinality((Holders(q) \ {t}) \cup {s}) = Cardinality(Holders(q) \ {t}) + 1
      <4> DEFINE rest == Holders(q) \ {t}
      <4>1. rest \subseteq Slots /\ s \notin rest
        BY <3>1
      <4> HIDE DEF rest
      <4>2. Cardinality(rest \cup {s}) = Cardinality(rest) + 1
        BY <4>1, <1>2, CountChanges
      <4> QED
        BY <4>2 DEF rest
    <3> QED
      BY <3>2, <3>3, <2>1, <2>0
  <2> QED
    BY <2>1, <2>0
<1>7. Living' /\ DyingHold'
  BY <1>1, <1>2 DEF Living, DyingHold, Idle
<1>8. FieldsDie'
  BY <1>1, <1>2, FieldsAreSlots DEF FieldsDie, TypeOK, Idle
<1>9. Assigned'
  <2>1. value'[Argument] = value[Argument] /\ value[Argument] = Null /\ assigning' = <<>>
    BY <1>1, <1>2 DEF Assigned, Idle, TypeOK, Slots
  <2> QED
    BY <2>1 DEF Assigned
<1> QED
  BY <1>5, <1>6, <1>7, <1>8, <1>9

\* A destructor begins.
LEMMA DestroyStep ==
  ASSUME IInv, NEW s \in Vars, Destroy(s)
  PROVE  IInv'
<1> USE DEF IInv
<1>1. /\ Idle /\ value[s] # Null /\ dying' = {s} /\ s \in Slots /\ s # Argument
      /\ UNCHANGED <<alive, refs, value, assigning, lost>>
  BY SlotsAssumption DEF Destroy, Slots
<1>2. Stale = {} /\ Stale' = {}
  BY <1>1 DEF Stale, Idle
<1>3. Counted'
  <2> SUFFICES ASSUME NEW q \in Objects
               PROVE  Holders(q)' = Holders(q)
    BY <1>1 DEF Counted
  <2> QED
    BY <1>1, <1>2 DEF Holders
<1>4. TypeOK' /\ Living' /\ DyingHold' /\ Assigned'
  BY <1>1 DEF TypeOK, Living, DyingHold, Assigned, Idle
<1>5. FieldsDie'
  BY <1>1, FieldsAreSlots DEF FieldsDie, TypeOK, Idle
<1> QED
  BY <1>3, <1>4, <1>5

\* The move assignment: what s referred to is lost, also where s is t.
LEMMA MoveAssignStep ==
  ASSUME IInv, NEW s \in Reachable(Vars), NEW t \in Reachable(Vars), MoveAssign(s, t)
  PROVE  IInv'
<1> USE DEF IInv
<1>1. /\ Idle
      /\ value' = [value EXCEPT ![s] = value[t], ![t] = Null]
      /\ lost' = IF value[s] = Null THEN lost ELSE [lost EXCEPT ![value[s]] = @ + 1]
      /\ UNCHANGED <<alive, refs, dying, assigning>>
  BY DEF MoveAssign
<1>2. /\ s \in Slots /\ s # Argument /\ t \in Slots /\ t # Argument
      /\ value[s] \in Objects \cup {Null} /\ value[t] \in Objects \cup {Null}
      /\ \A o \in Objects : s \in FieldsOf(o) => o \in alive
  BY <1>1, InReach DEF TypeOK
<1>3. Stale = {} /\ Stale' = {}
  BY <1>1 DEF Stale, Idle
<1>4. TypeOK'
  <2>1. value' \in [Slots -> Objects \cup {Null}]
    BY <1>1, <1>2 DEF TypeOK
  <2>2. lost' \in [Objects -> Nat]
    BY <1>1, <1>2 DEF TypeOK
  <2> QED
    BY <2>1, <2>2, <1>1 DEF TypeOK
<1>5. Counted'
  <2> SUFFICES ASSUME NEW q \in Objects
               PROVE  refs[q] = Cardinality(Holders(q)') + lost'[q]
    BY <1>1 DEF Counted
  <2> DEFINE others == Holders(q) \ {s}
  <2>1. /\ Holders(q) = {r \in Slots : value[r] = q}
        /\ Holders(q)' = {r \in Slots : value'[r] = q}
        /\ Holders(q) \subseteq Slots /\ others \subseteq Slots
    BY <1>3 DEF Holders
  <2>2. Holders(q)' = IF q = value[t] /\ s # t THEN (others \ {t}) \cup {s} ELSE others
    BY <2>1, <1>1, <1>2, SlotsAssumption DEF TypeOK
  <2>3. refs[q] = Cardinality(Holders(q)) + lost[q] /\ refs[q] \in Nat /\ lost[q] \in Nat
    BY DEF Counted, TypeOK
  <2>4. Cardinality(others) + lost'[q] = refs[q] /\ Cardinality(others) \in Nat
    <3>1. Cardinality(others) \in Nat /\ Cardinality(Holders(q)) \in Nat
      BY <2>1, <1>2, CountChanges
    <3>2. CASE q = value[s]
      <4>1. Cardinality(others) = Cardinality(Holders(q)) - 1
        BY <3>2, <2>1, <1>2, CountChanges
      <4>2. lost'[q] = lost[q] + 1
        BY <3>2, <1>1, SlotsAssumption DEF TypeOK
      <4> QED
        BY <4>1, <4>2, <3>1, <2>3
    <3>3. CASE q # value[s]
      <4>1. others = Holders(q)
        BY <3>3, <2>1
      <4>2. lost'[q] = lost[q]
        BY <3>3, <1>1, <1>2 DEF TypeOK
      <4> QED
        BY <4>1, <4>2, <3>1, <2>3
    <3> QED
      BY <3>2, <3>3
  <2>5. CASE q = value[t] /\ s # t
    <3>1. t \in others
      BY <2>5, <2>1, <1>2
    <3> DEFINE rest == others \ {t}
    <3>2. rest \subseteq Slots /\ s \notin rest /\ Holders(q)' = rest \cup {s}
      BY <2>1, <2>2, <2>5
    <3>3. Cardinality(rest) = Cardinality(others) - 1
      BY <3>1, <2>1, <1>2, CountChanges
    <3> HIDE DEF rest
    <3>4. Cardinality(rest \cup {s}) = Cardinality(rest) + 1
      BY <3>2, <1>2, CountChanges
    <3>5. lost'[q] \in Nat
      BY <1>4 DEF TypeOK
    <3> HIDE DEF others
    <3> QED
      BY <3>2, <3>3, <3>4, <3>5, <2>4
  <2>6. CASE ~(q = value[t] /\ s # t)
    <3>1. Holders(q)' = others
      BY <2>2, <2>6
    <3> QED
      BY <3>1, <2>4
  <2> QED
    BY <2>5, <2>6
<1>6. Living' /\ DyingHold'
  BY <1>1 DEF Living, DyingHold, Idle
<1>7. FieldsDie'
  BY <1>1, <1>2, FieldsAreSlots DEF FieldsDie, TypeOK, Idle
<1>8. Assigned'
  <2>1. value'[Argument] = value[Argument] /\ value[Argument] = Null /\ assigning' = <<>>
    BY <1>1, <1>2 DEF Assigned, Idle, TypeOK, Slots
  <2> QED
    BY <2>1 DEF Assigned
<1> QED
  BY <1>4, <1>5, <1>6, <1>7, <1>8

\* The first half of an assignment that counts.
LEMMA AssignStep ==
  ASSUME IInv, NEW s \in Reachable(Vars), NEW p \in Objects \cup {Null},
         NEW from \in Slots, Assign(s, p, from),
         from = Argument \/ value[from] = p,
         from \in {Argument, s} \/ Lasts(from, s)
  PROVE  IInv'
<1> USE DEF IInv
<1>1. /\ Idle
      /\ refs' = addRef(p)
      /\ value' = [value EXCEPT ![Argument] = p]
      /\ alive' = alive \cup ({p} \ {Null})
      /\ dying' = {s} \ {t \in Slots : value[t] = Null}
      /\ assigning' = <<s, from>>
      /\ UNCHANGED lost
  BY DEF Assign, Created
<1>2. /\ s \in Slots /\ s # Argument /\ Argument \in Slots /\ value[Argument] = Null
      /\ \A o \in Objects : s \in FieldsOf(o) => o \in alive
      /\ s \in Vars \/ \E r \in Vars : value[r] # Null /\ s \in FieldsOf(value[r])
  BY <1>1, InReach DEF Slots, Assigned, Idle
<1>3. /\ Stale = {}
      /\ \A q \in Slots : value[q] = Null => q \notin dying'
      /\ \A q \in Stale' : q = s /\ value'[q] = Null
  BY <1>1, <1>2 DEF Stale, Idle, TypeOK
<1>4. TypeOK'
  <2>1. refs' \in [Objects -> Nat]
    BY <1>1 DEF TypeOK, addRef
  <2>2. assigning' \in Slots \X Slots
    BY <1>1, <1>2
  <2> QED
    BY <2>1, <2>2, <1>1, <1>2 DEF TypeOK
<1>5. Counted'
  <2> SUFFICES ASSUME NEW q \in Objects
               PROVE  refs'[q] = Cardinality(Holders(q)') + lost[q]
    BY <1>1 DEF Counted
  <2>1. /\ Holders(q) = {r \in Slots : value[r] = q}
        /\ Holders(q)' = {r \in Slots : value'[r] = q}
        /\ Holders(q) \subseteq Slots
    BY <1>3, SlotsAssumption DEF Holders
  <2>2. /\ Argument \notin Holders(q)
        /\ Holders(q)' = IF q = p THEN Holders(q) \cup {Argument} ELSE Holders(q)
    BY <2>1, <1>1, <1>2, SlotsAssumption DEF TypeOK
  <2>3. refs[q] = Cardinality(Holders(q)) + lost[q] /\ refs[q] \in Nat /\ lost[q] \in Nat
    BY DEF Counted, TypeOK
  <2>4. refs'[q] = IF q = p THEN refs[q] + 1 ELSE refs[q]
    BY <1>1, SlotsAssumption DEF addRef, TypeOK
  <2>5. /\ Cardinality(Holders(q)) \in Nat
        /\ Cardinality(Holders(q) \cup {Argument}) = Cardinality(Holders(q)) + 1
    BY <2>1, <2>2, <1>2, CountChanges
  <2> QED
    BY <2>2, <2>3, <2>4, <2>5
<1>6. Living'
  BY <1>1, SlotsAssumption DEF Living, TypeOK, addRef
<1>7. FieldsDie'
  <2>1. ASSUME NEW o \in Objects, NEW q \in FieldsOf(o)
        PROVE  /\ q \in Slots /\ value'[q] = value[q]
               /\ o \notin alive => value[q] = Null
               /\ q \in dying' => q = s
    BY <2>1, <1>1, <1>2, FieldsAreSlots DEF FieldsDie, Idle, TypeOK
  <2> QED
    BY <2>1, <1>1, <1>4 DEF FieldsDie, TypeOK
<1>8. DyingHold'
  BY <1>1, <1>2 DEF DyingHold, TypeOK
<1>9. Assigned'
  <2>1. value'[Argument] = p /\ value'[from] = p
    BY <1>1, <1>2 DEF TypeOK
  <2>2. \A q \in Slots : Lasts(q, s) => Lasts(q, s)'
    BY <1>1, <1>2, SlotsAssumption DEF Lasts, TypeOK, Slots
  <2>3. Lasts(s, s)
    BY <1>2, SlotsAssumption, FieldsAreSlots DEF Lasts, TypeOK, Slots
  <2>4. assigning'[1] = s /\ assigning'[2] = from /\ assigning' # <<>>
    BY <1>1
  <2>5. Lasts(s, s)' /\ (from \in {Argument, s} \/ Lasts(from, s)')
    BY <2>2, <2>3, <1>2
  <2>6. \A v \in Vars : v \in dying' => v = s
    BY <1>1
  <2> QED
    BY <2>1, <2>4, <2>5, <2>6, <1>2 DEF Assigned, Lasts
<1> QED
  BY <1>4, <1>5, <1>6, <1>7, <1>8, <1>9

\* The second half.
LEMMA StoreStep ==
  ASSUME IInv, Store
  PROVE  IInv'
<1> USE DEF IInv
<1> DEFINE s == assigning[1]
           from == assigning[2]
<1>1. /\ assigning # <<>> /\ dying = {}
      /\ value' = [value EXCEPT ![s] = value[from], ![Argument] = Null]
      /\ assigning' = <<>>
      /\ UNCHANGED <<alive, refs, dying, lost>>
  BY DEF Store
<1>2. /\ s \in Slots /\ from \in Slots /\ s # Argument /\ Argument \in Slots
      /\ value[from] = value[Argument] /\ Lasts(s, s)
  BY <1>1 DEF Assigned, TypeOK, Slots
<1>3. Stale = {s} /\ Stale' = {}
  BY <1>1, <1>2 DEF Stale
<1> HIDE DEF s, from
<1>4. TypeOK'
  BY <1>1, <1>2 DEF TypeOK
<1>5. Counted'
  <2> SUFFICES ASSUME NEW q \in Objects
               PROVE  Cardinality(Holders(q)') = Cardinality(Holders(q))
    BY <1>1 DEF Counted
  <2>1. /\ Holders(q) = {r \in Slots : value[r] = q} \ {s}
        /\ Holders(q)' = {r \in Slots : value'[r] = q}
    BY <1>3 DEF Holders
  <2>2. Holders(q)' = IF q = value[Argument] THEN (Holders(q) \ {Argument}) \cup {s}
                      ELSE Holders(q)
    BY <2>1, <1>1, <1>2, SlotsAssumption DEF TypeOK
  <2>3. CASE q = value[Argument]
    <3> DEFINE rest == Holders(q) \ {Argument}
    <3>1. /\ Argument \in Holders(q) /\ Holders(q) \subseteq Slots
          /\ rest \subseteq Slots /\ s \notin rest
      BY <2>1, <2>3, <1>2
    <3>2. /\ Cardinality(rest) = Cardinality(Holders(q)) - 1
          /\ Cardinality(Holders(q)) \in Nat
      BY <3>1, <1>2, CountChanges
    <3>3. Holders(q)' = rest \cup {s}
      BY <2>2, <2>3
    <3> HIDE DEF rest
    <3>4. Cardinality(rest \cup {s}) = Cardinality(rest) + 1
      BY <3>1, <1>2, CountChanges
    <3> QED
      BY <3>2, <3>3, <3>4
  <2> QED
    BY <2>2, <2>3
<1>6. Living' /\ DyingHold'
  BY <1>1 DEF Living, DyingHold
<1>7. FieldsDie'
  <2>1. \A o \in Objects : s \in FieldsOf(o) => o \in alive
    <3>1. \A r \in Vars \ {s} : r \in Slots /\ r \notin Stale
      BY <1>3 DEF Slots
    <3> QED
      BY <3>1, <1>2, HeldIsAlive, FieldsAreSlots DEF Lasts, TypeOK
  <2> QED
    BY <2>1, <1>1, <1>2, FieldsAreSlots DEF FieldsDie, TypeOK
<1>8. Assigned'
  BY <1>1, <1>2 DEF Assigned, TypeOK
<1> QED
  BY <1>4, <1>5, <1>6, <1>7, <1>8

\* While an assignment is under way, the object whose field it writes or
\* reads is held by a variable that does not die.
LEMMA OwnerLasts ==
  ASSUME IInv, assigning # <<>>, NEW q \in Slots, Lasts(q, assigning[1]),
         NEW o \in Objects, q \in FieldsOf(o)
  PROVE  /\ o \in alive
         /\ \E r \in Holders(o) : r \notin dying
         /\ q \in dying => q = assigning[1]
<1> USE DEF IInv
<1>1. PICK r \in Vars \ {assigning[1]} : value[r] # Null /\ q \in FieldsOf(value[r])
  BY FieldsAreSlots DEF Lasts
<1>2. r \in Slots /\ r \notin Stale /\ r \notin dying
  BY <1>1 DEF Stale, Assigned, Slots
<1>3. value[r] = o
  BY <1>1, <1>2, FieldsAreSlots DEF TypeOK
<1>4. o \in alive /\ r \in Holders(o)
  BY <1>1, <1>2, <1>3, HeldIsAlive
<1>5. q \in dying => q = assigning[1]
  BY <1>4 DEF FieldsDie
<1> QED
  BY <1>2, <1>4, <1>5

\* What every delRef does: the reference is counted no longer, and the
\* object goes with its last one.
LEMMA Released ==
  ASSUME IInv, NEW d \in dying, delRef(d)
  PROVE  LET o == value[d]
         IN /\ d \in Slots /\ d # Argument /\ d \notin Stale /\ o \in alive /\ o \in Objects
            /\ d \in Holders(o)
            /\ refs[o] = 1 => /\ Holders(o) = {d} /\ lost[o] = 0 /\ d \notin FieldsOf(o)
                              /\ assigning # <<>> => /\ assigning[1] \notin FieldsOf(o)
                                                     /\ assigning[2] \notin FieldsOf(o)
            /\ Stale' = IF Forgotten(d) THEN Stale ELSE {d}
            /\ \A q \in Slots : q # d => value'[q] = value[q]
            /\ Forgotten(d) => value'[d] = Null
            /\ ~Forgotten(d) => value'[d] = value[d] /\ Stale = {}
<1> USE DEF IInv
<1> DEFINE o == value[d]
<1>1. d \in Slots /\ d # Argument /\ d \notin Stale /\ o # Null
  BY DEF TypeOK, DyingHold, Stale
<1>2. /\ o \in alive /\ o \in Objects /\ d \in Holders(o)
      /\ refs[o] = 1 => Holders(o) = {d} /\ lost[o] = 0
  BY <1>1, HeldIsAlive DEF TypeOK
<1>3. ASSUME assigning # <<>>, refs[o] = 1
      PROVE  assigning[1] \notin FieldsOf(o) /\ assigning[2] \notin FieldsOf(o)
  <2>1. /\ assigning[1] \in Slots /\ Lasts(assigning[1], assigning[1])
        /\ assigning[2] \in Slots
        /\ \/ assigning[2] \in {Argument, assigning[1]}
           \/ Lasts(assigning[2], assigning[1])
    BY <1>3 DEF TypeOK, Assigned
  <2>2. assigning[1] \notin FieldsOf(o)
    BY <1>2, <1>3, <2>1, OwnerLasts
  <2>3. Lasts(assigning[2], assigning[1]) => assigning[2] \notin FieldsOf(o)
    BY <1>2, <1>3, <2>1, OwnerLasts
  <2> QED
    BY <2>1, <2>2, <2>3, <1>2, FieldsAreSlots
<1>4. refs[o] = 1 => d \notin FieldsOf(o)
  BY <1>2, <1>3 DEF FieldsDie
<1>5. /\ dying' = (dying \ {d}) \cup
                    (IF refs[o] = 1 THEN {p \in FieldsOf(o) : value[p] # Null} ELSE {})
      /\ value' = IF Forgotten(d) THEN [value EXCEPT ![d] = Null] ELSE value
      /\ UNCHANGED assigning
  BY DEF delRef
<1>6. /\ \A q \in Slots : q # d => value'[q] = value[q]
      /\ Forgotten(d) => value'[d] = Null
      /\ ~Forgotten(d) => value'[d] = value[d]
  BY <1>1, <1>5 DEF TypeOK
<1>7. /\ Stale' = IF Forgotten(d) THEN Stale ELSE {d}
      /\ ~Forgotten(d) => Stale = {}
  <2>1. CASE assigning = <<>>
    BY <2>1, <1>5 DEF Stale, Forgotten
  <2>2. CASE assigning # <<>> /\ d = assigning[1]
    BY <2>2, <1>1, <1>3, <1>5 DEF Stale, Forgotten
  <2>3. CASE assigning # <<>> /\ d # assigning[1]
    BY <2>3, <1>3, <1>5 DEF Stale, Forgotten
  <2> QED
    BY <2>1, <2>2, <2>3
<1> QED
  BY <1>1, <1>2, <1>3, <1>4, <1>6, <1>7

\* A release.
LEMMA delRefStep ==
  ASSUME IInv, NEW d \in dying, delRef(d)
  PROVE  IInv'
<1> USE DEF IInv
<1> DEFINE o == value[d]
           fields == {p \in FieldsOf(o) : value[p] # Null}
<1>1. /\ d \in Slots /\ d # Argument /\ d \notin Stale /\ o \in alive /\ o \in Objects
      /\ d \in Holders(o)
      /\ refs[o] = 1 => /\ Holders(o) = {d} /\ lost[o] = 0 /\ d \notin FieldsOf(o)
                        /\ assigning # <<>> => /\ assigning[1] \notin FieldsOf(o)
                                               /\ assigning[2] \notin FieldsOf(o)
      /\ Stale' = IF Forgotten(d) THEN Stale ELSE {d}
      /\ \A q \in Slots : q # d => value'[q] = value[q]
      /\ Forgotten(d) => value'[d] = Null
      /\ ~Forgotten(d) => value'[d] = value[d] /\ Stale = {}
  BY Released
<1>2. /\ refs' = [refs EXCEPT ![o] = @ - 1]
      /\ alive' = IF refs[o] = 1 THEN alive \ {o} ELSE alive
      /\ value' = IF Forgotten(d) THEN [value EXCEPT ![d] = Null] ELSE value
      /\ dying' = (dying \ {d}) \cup (IF refs[o] = 1 THEN fields ELSE {})
      /\ UNCHANGED <<assigning, lost>>
  BY DEF delRef
<1>3. refs[o] \in Nat /\ refs[o] > 0
  BY <1>1 DEF Living, TypeOK
<1>4. TypeOK'
  <2>1. refs' \in [Objects -> Nat]
    BY <1>1, <1>2, <1>3 DEF TypeOK
  <2>2. value' \in [Slots -> Objects \cup {Null}]
    BY <1>2 DEF TypeOK
  <2>3. dying' \subseteq Slots
    BY <1>1, <1>2, FieldsAreSlots DEF TypeOK
  <2> QED
    BY <2>1, <2>2, <2>3, <1>2 DEF TypeOK
<1>5. Counted'
  <2> SUFFICES ASSUME NEW q \in Objects
               PROVE  refs'[q] = Cardinality(Holders(q)') + lost[q]
    BY <1>2 DEF Counted
  <2>1. Holders(q)' = Holders(q) \ {d} /\ Holders(q) \subseteq Slots
    BY <1>1, SlotsAssumption DEF Holders
  <2>2. refs[q] = Cardinality(Holders(q)) + lost[q] /\ refs[q] \in Nat /\ lost[q] \in Nat
    BY DEF Counted, TypeOK
  <2>3. CASE q = o
    <3>1. /\ Cardinality(Holders(q) \ {d}) = Cardinality(Holders(q)) - 1
          /\ Cardinality(Holders(q)) \in Nat
      BY <2>1, <2>3, <1>1, CountChanges
    <3>2. refs'[q] = refs[q] - 1
      BY <2>3, <1>1, <1>2 DEF TypeOK
    <3> QED
      BY <3>1, <3>2, <2>1, <2>2
  <2>4. CASE q # o
    <3>1. Holders(q)' = Holders(q)
      BY <2>1, <2>4 DEF Holders
    <3>2. refs'[q] = refs[q]
      BY <2>4, <1>1, <1>2 DEF TypeOK
    <3> QED
      BY <3>1, <3>2, <2>2
  <2> QED
    BY <2>3, <2>4
<1>6. Living'
  <2> SUFFICES ASSUME NEW q \in Objects
               PROVE  q \in alive' <=> refs'[q] > 0
    BY DEF Living
  <2>1. CASE q = o
    BY <2>1, <1>1, <1>2, <1>3 DEF TypeOK
  <2>2. CASE q # o
    BY <2>2, <1>1, <1>2 DEF TypeOK, Living
  <2> QED
    BY <2>1, <2>2
<1>7. FieldsDie'
  <2>1. ASSUME NEW q \in Objects, q \notin alive', NEW p \in FieldsOf(q)
        PROVE  value'[p] = Null \/ p \in dying'
    <3>1. p \in Slots
      BY FieldsAreSlots
    <3>2. CASE q = o
      BY <3>1, <3>2, <2>1, <1>1, <1>2
    <3>3. CASE q # o
      <4>1. q \notin alive
        BY <3>3, <2>1, <1>2
      <4>2. value[p] = Null \/ p \in dying
        BY <4>1 DEF FieldsDie
      <4>3. p = d => Forgotten(d)
        BY <4>1, <3>1, OwnerLasts DEF Forgotten, Assigned
      <4> QED
        BY <4>2, <4>3, <3>1, <1>1, <1>2
    <3> QED
      BY <3>2, <3>3
  <2>2. ASSUME NEW q \in Objects, q \in alive', NEW p \in FieldsOf(q), p \in dying'
        PROVE  assigning # <<>> /\ p = assigning[1]
    <3>1. q \in alive /\ (refs[o] = 1 => q # o)
      BY <2>2, <1>2
    <3>2. p \in dying
      BY <3>1, <2>2, <1>1, <1>2, FieldsAreSlots
    <3> QED
      BY <3>1, <3>2 DEF FieldsDie
  <2> QED
    BY <2>1, <2>2, <1>2, <1>4 DEF FieldsDie, TypeOK
<1>8. DyingHold'
  <2>1. refs[o] = 1 => Argument \notin fields /\ d \notin fields
    BY <1>1, FieldsAreSlots
  <2>2. \A p \in dying' : p \in Slots /\ p # d /\ p # Argument /\ value[p] # Null
    BY <2>1, <1>1, <1>2, FieldsAreSlots DEF DyingHold, TypeOK
  <2> QED
    BY <2>2, <1>1 DEF DyingHold
<1>9. Assigned'
  <2>1. CASE assigning = <<>>
    BY <2>1, <1>1, <1>2 DEF Assigned, Slots
  <2>2. CASE assigning # <<>>
    <3>0. PICK s, from : s = assigning[1] /\ from = assigning[2]
      OBVIOUS
    <3>1. /\ s # Argument /\ value[from] = value[Argument] /\ s \in Slots /\ from \in Slots
          /\ \A v \in Vars : v \in dying => v = s
          /\ Lasts(s, s) /\ (from \in {Argument, s} \/ Lasts(from, s))
          /\ Argument \in Slots
      BY <2>2, <3>0 DEF Assigned, TypeOK, Slots
    <3>2. from = d => ~Forgotten(d)
      <4>1. Lasts(from, s) /\ from \in dying => from = s
        BY <3>0, <3>1, <2>2, EachSlot, OwnerLasts DEF DyingHold
      <4> QED
        BY <4>1, <3>0, <3>1, <2>2, <1>1 DEF Forgotten
    <3>3. value'[from] = value'[Argument]
      BY <3>1, <3>2, <1>1
    <3>4. \A v \in Vars : v \in dying' => v = s
      BY <3>1, <1>1, <1>2, FieldsAreSlots
    <3>5. \A q \in Slots : Lasts(q, s) => Lasts(q, s)'
      <4>1. \A r \in Vars \ {s} : r \in Slots /\ value'[r] = value[r]
        BY <3>1, <1>1 DEF Slots
      <4> QED
        BY <4>1 DEF Lasts
    <3>6. assigning' # <<>> /\ assigning'[1] = s /\ assigning'[2] = from
      BY <2>2, <3>0, <1>2
    <3> QED
      BY <3>1, <3>3, <3>4, <3>5, <3>6 DEF Assigned, Lasts
  <2> QED
    BY <2>1, <2>2
<1> QED
  BY <1>4, <1>5, <1>6, <1>7, <1>8, <1>9

\* Every step of the program.
LEMMA NextStep ==
  ASSUME IInv, [Next]_vars
  PROVE  IInv'
<1> USE DEF IInv
<1>1. CASE Call
  <2>1. CASE \E s \in Vars : \/ \E p \in Pointers : Construct(s, p)
                             \/ \E t \in Reachable(Vars) : MoveConstruct(s, t)
                             \/ Destroy(s)
    BY <2>1, ConstructStep, MoveConstructStep, DestroyStep
  <2>2. ASSUME NEW s \in Reachable(Vars), NEW p \in Pointers, AssignRaw(s, p)
        PROVE  IInv'
    <3>1. p \in Objects \cup {Null}
      <4>1. \A t \in Reachable(Vars) : value[t] \in Objects \cup {Null}
        BY <2>2, InReach DEF AssignRaw, Assign, TypeOK
      <4> QED
        BY <4>1 DEF Pointers
    <3> QED
      BY <2>2, <3>1, AssignStep DEF AssignRaw, Slots
  <2>3. ASSUME NEW s \in Reachable(Vars), NEW t \in Reachable(Vars \ {s}) \cup {s},
               AssignCopy(s, t)
        PROVE  IInv'
    <3>1. Idle
      BY <2>3 DEF AssignCopy, Assign
    <3>2. t \in Reachable(Vars) /\ (t = s \/ Lasts(t, s))
      BY <2>3 DEF Reachable, Lasts
    <3>3. t \in Slots /\ value[t] \in Objects \cup {Null}
      BY <3>1, <3>2, InReach DEF TypeOK
    <3> QED
      BY <2>3, <3>2, <3>3, AssignStep DEF AssignCopy
  <2> QED
    BY <1>1, <2>1, <2>2, <2>3, MoveAssignStep DEF Call
<1>2. CASE Proceed
  BY <1>2, delRefStep, StoreStep DEF Proceed, Release
<1>3. CASE UNCHANGED vars
  <2>1. UNCHANGED <<alive, refs, value, dying, assigning, lost>>
    BY <1>3 DEF vars
  <2>2. TypeOK' /\ Living' /\ FieldsDie' /\ DyingHold' /\ Assigned'
    BY <2>1 DEF TypeOK, Living, FieldsDie, DyingHold, Assigned, Lasts
  <2>3. Counted'
    BY <2>1 DEF Counted, Holders, Stale
  <2> QED
    BY <2>2, <2>3
<1> QED
  BY <1>1, <1>2, <1>3 DEF Next

\* The first state.
LEMMA InitHolds ==
  ASSUME Init
  PROVE  IInv
<1>1. /\ alive = {} /\ dying = {} /\ assigning = <<>>
      /\ refs = [o \in Objects |-> 0] /\ lost = [o \in Objects |-> 0]
      /\ value = [s \in Slots |-> Null]
  BY DEF Init
<1>2. Counted
  <2> SUFFICES ASSUME NEW o \in Objects
               PROVE  refs[o] = Cardinality(Holders(o)) + lost[o]
    BY DEF Counted
  <2>1. Holders(o) = {}
    BY <1>1, SlotsAssumption DEF Holders
  <2>2. Cardinality(Holders(o)) = 0
    BY <2>1, FS_EmptySet
  <2>3. refs[o] = 0 /\ lost[o] = 0
    BY <1>1
  <2> QED
    BY <2>2, <2>3
<1>3. FieldsDie
  BY <1>1, FieldsAreSlots DEF FieldsDie
<1> QED
  BY <1>1, <1>2, <1>3 DEF IInv, TypeOK, Living, DyingHold, Assigned, Slots

\* The invariant holds in every state of every run.
THEOREM Invariant == Spec => []IInv
BY InitHolds, NextStep, PTL DEF Spec

\* No reference leads to a deleted object, for any number of objects, fields
\* and variables, and any calls (class PycRef).
THEOREM NeverDangles == Spec => []NoDangling
BY Invariant, InvariantImplies, PTL

\* A count is always the number of references and lost ones, and an object
\* with none does not live on.
THEOREM CountsAreRight == Spec => []EachReferenceCounted
BY Invariant, InvariantImplies, PTL

----------------------------------------------------------------------------
(* The counting implements module Ownership: what a reference refers to is *)
(* gone when its release begins, and an object when nothing refers to it.  *)

\* Between two calls the references refer to what they hold.
LEMMA ReferredIdle ==
  ASSUME Stale = {}, dying = {}
  PROVE  Referred = [s \in Vars \cup (Objects \X Fields) |-> value[s]]
  BY DEF Referred

\* The calls that do not begin a release.
LEMMA BindsOrMoves ==
  ASSUME IInv,
         NEW s \in Reachable(Vars),
         \/ s \in Vars /\ \E p \in Pointers : Construct(s, p)
         \/ s \in Vars /\ \E t \in Reachable(Vars) : MoveConstruct(s, t)
         \/ \E t \in Reachable(Vars) : MoveAssign(s, t)
  PROVE  Owned!Next
<1> USE DEF IInv
<1>1. Idle
  BY DEF Construct, MoveConstruct, MoveAssign
<1>2. s \in Owned!Slots /\ \A t \in Reachable(Vars) : t \in Owned!Slots /\ t \in Slots
  BY <1>1, InReach DEF Slots, Owned!Slots
<1>3. /\ Stale = {} /\ dying = {} /\ UNCHANGED <<dying, assigning>> /\ Stale' = {}
  BY <1>1 DEF Construct, MoveConstruct, MoveAssign, Idle, Stale
<1>4. /\ Referred = [q \in Owned!Slots |-> value[q]]
      /\ Referred' = [q \in Owned!Slots |-> value'[q]]
  BY <1>3 DEF Referred, Owned!Slots
<1>5. Owned!Slots \subseteq Slots
  BY DEF Owned!Slots, Slots
<1>6. ASSUME s \in Vars, NEW p \in Pointers, Construct(s, p)
      PROVE  Owned!Next
  <2>1. p \in Objects
    <3>1. \A t \in Reachable(Vars) : value[t] \in Objects \cup {Null}
      BY <1>2 DEF TypeOK
    <3> QED
      BY <3>1, <1>6 DEF Pointers, Construct
  <2>2. /\ value[s] = Null /\ value' = [value EXCEPT ![s] = p]
        /\ alive' = alive \cup {p} /\ UNCHANGED lost
    BY <1>6, <2>1, SlotsAssumption DEF Construct, Created
  <2>3. Referred[s] = Null /\ Referred' = [Referred EXCEPT ![s] = p]
    BY <2>2, <1>2, <1>4, <1>5 DEF TypeOK
  <2>4. Owned!Bind(s, p)
    BY <2>2, <2>3 DEF Owned!Bind, Overwritten
  <2> QED
    BY <2>1, <2>4, <1>2 DEF Owned!Next
<1>7. ASSUME NEW t \in Reachable(Vars), MoveConstruct(s, t)
      PROVE  Owned!Next
  <2>1. /\ value[s] = Null /\ value' = [value EXCEPT ![s] = value[t], ![t] = Null]
        /\ UNCHANGED <<alive, lost>>
    BY <1>7 DEF MoveConstruct
  <2>2. /\ Referred[s] = Null
        /\ Referred' = [Referred EXCEPT ![s] = Referred[t], ![t] = Null]
    BY <2>1, <1>2, <1>4, <1>5 DEF TypeOK
  <2>3. Overwritten' = Overwritten \cup ({Referred[s]} \ {Null})
    BY <2>1, <2>2 DEF Overwritten
  <2> QED
    BY <2>1, <2>2, <2>3, <1>2 DEF Owned!Move, Owned!Next
<1>8. ASSUME NEW t \in Reachable(Vars), MoveAssign(s, t)
      PROVE  Owned!Next
  <2>1. /\ value' = [value EXCEPT ![s] = value[t], ![t] = Null]
        /\ lost' = IF value[s] = Null THEN lost ELSE [lost EXCEPT ![value[s]] = @ + 1]
        /\ UNCHANGED alive
    BY <1>8 DEF MoveAssign
  <2>2. /\ Referred[s] = value[s] /\ value[s] \in Objects \cup {Null}
        /\ Referred' = [Referred EXCEPT ![s] = Referred[t], ![t] = Null]
    BY <2>1, <1>2, <1>4, <1>5 DEF TypeOK
  <2>3. Overwritten' = Overwritten \cup ({Referred[s]} \ {Null})
    BY <2>1, <2>2, SlotsAssumption DEF Overwritten, TypeOK
  <2> QED
    BY <2>1, <2>2, <2>3, <1>2 DEF Owned!Move, Owned!Next
<1> QED
  BY <1>6, <1>7, <1>8

\* The calls that begin one.
LEMMA Drops ==
  ASSUME IInv,
         NEW s \in Reachable(Vars),
         \/ s \in Vars /\ Destroy(s)
         \/ \E p \in Objects \cup {Null}, from \in Slots : Assign(s, p, from)
  PROVE  Owned!Next
<1> USE DEF IInv
<1>1. Idle /\ Stale = {} /\ dying = {}
  BY DEF Destroy, Assign, Idle, Stale
<1>2. s \in Owned!Slots /\ s \in Slots /\ s # Argument /\ Owned!Slots \subseteq Slots
  BY <1>1, InReach DEF Slots, Owned!Slots
<1>3. Argument \notin Owned!Slots
  BY SlotsAssumption DEF Owned!Slots
<1>4. /\ UNCHANGED lost
      /\ \/ UNCHANGED alive
         \/ \E o \in Objects \ alive : alive' = alive \cup {o}
  <2>1. ASSUME NEW p \in Objects \cup {Null}
        PROVE  \/ Created(p) = alive
               \/ \E o \in Objects \ alive : Created(p) = alive \cup {o}
    <3>1. CASE p \in alive \cup {Null}
      BY <3>1, SlotsAssumption DEF Created, TypeOK
    <3>2. CASE p \in Objects \ alive
      <4>1. Created(p) = alive \cup {p}
        BY <3>2, SlotsAssumption DEF Created
      <4> QED
        BY <3>2, <4>1
    <3> QED
      BY <3>1, <3>2
  <2> QED
    BY <2>1 DEF Destroy, Assign
<1>5. /\ \A q \in Owned!Slots : value'[q] = value[q]
      /\ s \in dying' \cup Stale' \/ value'[s] = Null
      /\ dying' \cup Stale' \subseteq {s}
  BY <1>1, <1>2, <1>3 DEF Destroy, Assign, Stale, Idle, TypeOK
<1>6. Referred' = [Referred EXCEPT ![s] = Null]
  BY <1>1, <1>2, <1>5 DEF Referred, Owned!Slots
<1>7. Owned!Drop(s)
  BY <1>4, <1>6 DEF Owned!Drop, Overwritten
<1> QED
  BY <1>2, <1>7 DEF Owned!Next

\* The second half of an assignment.
LEMMA StoreBinds ==
  ASSUME IInv, Store
  PROVE  Owned!Next \/ UNCHANGED Owned!vars
<1> USE DEF IInv
<1>1. PICK s, from : s = assigning[1] /\ from = assigning[2]
  OBVIOUS
<1>2. /\ assigning # <<>> /\ dying = {}
      /\ value' = [value EXCEPT ![s] = value[from], ![Argument] = Null]
      /\ assigning' = <<>>
      /\ UNCHANGED <<alive, refs, dying, lost>>
  BY <1>1 DEF Store
<1>3. /\ s \in Slots /\ from \in Slots /\ s # Argument /\ Argument \in Slots
      /\ value[from] = value[Argument]
  BY <1>1, <1>2 DEF Assigned, TypeOK, Slots
<1>4. Stale = {s} /\ Stale' = {} /\ Argument \notin Stale
  BY <1>1, <1>2, <1>3 DEF Stale
<1>5. s \in Owned!Slots /\ Argument \notin Owned!Slots /\ Owned!Slots \subseteq Slots
  BY <1>3, SlotsAssumption DEF Slots, Owned!Slots
<1>6. Referred[s] = Null /\ Referred' = [Referred EXCEPT ![s] = value[from]]
  BY <1>2, <1>4, <1>5 DEF Referred, Owned!Slots, TypeOK
<1>7. Overwritten' = Overwritten
  BY <1>2 DEF Overwritten
<1>8. CASE value[from] = Null
  <2>1. Referred' = Referred
    BY <1>5, <1>6, <1>8 DEF Referred, Owned!Slots
  <2> QED
    BY <2>1, <1>2, <1>7 DEF Owned!vars
<1>9. CASE value[from] # Null
  <2>1. value[from] \in Objects /\ value[from] \in alive
    BY <1>3, <1>4, <1>9, HeldIsAlive DEF TypeOK
  <2>2. Owned!Bind(s, value[from])
    BY <2>1, <1>2, <1>6, <1>7 DEF Owned!Bind
  <2> QED
    BY <2>1, <2>2, <1>5 DEF Owned!Next
<1> QED
  BY <1>8, <1>9

\* A release collects the object or shows nothing.
LEMMA ReleaseCollects ==
  ASSUME IInv, NEW d \in dying, delRef(d)
  PROVE  Owned!Next \/ UNCHANGED Owned!vars
<1> USE DEF IInv
<1>1. PICK o : o = value[d]
  OBVIOUS
<1>2. /\ d \in Slots /\ d # Argument /\ o \in alive /\ o \in Objects
      /\ refs[o] = 1 => Holders(o) = {d} /\ lost[o] = 0
      /\ Stale' = IF Forgotten(d) THEN Stale ELSE {d}
      /\ \A q \in Slots : q # d => value'[q] = value[q]
      /\ Forgotten(d) => value'[d] = Null
      /\ ~Forgotten(d) => Stale = {}
  BY <1>1, Released
<1>3. /\ alive' = IF refs[o] = 1 THEN alive \ {o} ELSE alive
      /\ dying' = (dying \ {d}) \cup
                    (IF refs[o] = 1 THEN {p \in FieldsOf(o) : value[p] # Null} ELSE {})
      /\ UNCHANGED lost
  BY <1>1 DEF delRef
<1>4. Overwritten' = Overwritten
  BY <1>3 DEF Overwritten
<1>5. Owned!Slots \subseteq Slots
  BY DEF Owned!Slots, Slots
<1>6. CASE refs[o] # 1
  <2>1. \A q \in Owned!Slots : Referred'[q] = Referred[q]
    BY <1>2, <1>3, <1>5, <1>6 DEF Referred, Owned!Slots
  <2>2. Referred' = Referred
    BY <2>1 DEF Referred, Owned!Slots
  <2> QED
    BY <2>2, <1>3, <1>4, <1>6 DEF Owned!vars
<1>7. CASE refs[o] = 1
  <2>1. ASSUME NEW q \in Owned!Slots
        PROVE  Referred[q] # o
    BY <2>1, <1>2, <1>5, <1>7, SlotsAssumption DEF Referred, Owned!Slots, Holders
  <2>2. ASSUME NEW q \in Owned!Slots
        PROVE  Referred'[q] = IF q \in Owned!FieldsOf(o) THEN Null ELSE Referred[q]
    BY <2>2, <1>2, <1>3, <1>5, <1>7
       DEF Referred, Owned!Slots, Owned!FieldsOf, FieldsOf
  <2>3. Referred' = [q \in Owned!Slots |->
                       IF q \in Owned!FieldsOf(o) THEN Null ELSE Referred[q]]
    BY <2>2 DEF Referred, Owned!Slots
  <2>4. o \in alive \ Overwritten /\ alive' = alive \ {o}
    BY <1>2, <1>3, <1>7 DEF Overwritten
  <2>5. Owned!Collect(o)
    BY <2>1, <2>3, <2>4, <1>4 DEF Owned!Collect, Owned!Refers
  <2> QED
    BY <2>5, <1>2 DEF Owned!Next
<1> QED
  BY <1>6, <1>7

\* Every step does what Ownership allows, or nothing that it sees.
LEMMA StepOwns ==
  ASSUME IInv, [Next]_vars
  PROVE  [Owned!Next]_(Owned!vars)
<1>1. ASSUME NEW s \in Vars
      PROVE  s \in Reachable(Vars)
  BY DEF Reachable
<1>2. ASSUME NEW s \in Reachable(Vars), NEW p \in Pointers, AssignRaw(s, p)
      PROVE  Owned!Next
  <2>1. \A t \in Reachable(Vars) : value[t] \in Objects \cup {Null}
    BY <1>2, InReach DEF AssignRaw, Assign, IInv, TypeOK
  <2>2. p \in Objects \cup {Null} /\ Argument \in Slots
    BY <2>1 DEF Pointers, Slots
  <2> QED
    BY <1>2, <2>2, Drops DEF AssignRaw
<1>3. ASSUME NEW s \in Reachable(Vars), NEW t \in Reachable(Vars \ {s}) \cup {s},
             AssignCopy(s, t)
      PROVE  Owned!Next
  <2>1. t \in Reachable(Vars) /\ Idle
    BY <1>3 DEF Reachable, AssignCopy, Assign
  <2>2. t \in Slots /\ value[t] \in Objects \cup {Null}
    BY <2>1, InReach DEF IInv, TypeOK
  <2> QED
    BY <1>3, <2>2, Drops DEF AssignCopy
<1>4. CASE Call
  BY <1>1, <1>2, <1>3, <1>4, BindsOrMoves, Drops DEF Call
<1>5. CASE Proceed
  BY <1>5, StoreBinds, ReleaseCollects DEF Proceed, Release
<1>6. CASE UNCHANGED vars
  BY <1>6 DEF vars, Owned!vars, Referred, Stale, Overwritten
<1> QED
  BY <1>4, <1>5, <1>6 DEF Next

\* The references keep objects as Ownership promises: each for as long as
\* something refers to it (class PycRef).  That what nothing refers to goes
\* in the end is left to the runs.
THEOREM Owns == Spec => Owned!Safety
<1>1. Init => Owned!Init
  <2> SUFFICES ASSUME Init
               PROVE  Owned!Init
    OBVIOUS
  <2>1. /\ alive = {} /\ dying = {} /\ Stale = {}
        /\ \A s \in Slots : value[s] = Null
        /\ \A o \in Objects : lost[o] = 0
    BY DEF Init, Stale
  <2> QED
    BY <2>1 DEF Owned!Init, Owned!Slots, Referred, Overwritten, Slots
<1>2. IInv /\ [Next]_vars => [Owned!Next]_(Owned!vars)
  BY StepOwns
<1> QED
  BY <1>1, <1>2, Invariant, PTL DEF Spec, Owned!Safety

=============================================================================
