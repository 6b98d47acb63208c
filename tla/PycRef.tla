------------------------------- MODULE PycRef -------------------------------
(***************************************************************************)
(* The counted references that hold every object of a file and every node  *)
(* of a tree (class PycRef and the counter of PycObject, pyc_object.h), in  *)
(* a program that copies, moves, assigns and drops them in any order.      *)
(*                                                                         *)
(* A slot is one PycRef: a variable, a field of an object, or the argument *)
(* of an assignment that is under way.  An operation is one step as far as *)
(* the first delRef; that one may delete an object, whose fields are then  *)
(* released one by one, and delete others, before the operation goes on.   *)
(***************************************************************************)
EXTENDS Naturals, FiniteSets

CONSTANTS Objects, Fields, Vars, Argument, Null,
          MaxLost            \* bounds how often a count is lost, per object

VARIABLES
  alive,      \* the objects that are not deleted
  refs,       \* m_refs of each object
  value,      \* m_obj of each slot
  dying,      \* the slots whose delRef is yet to come
  assigning,  \* the assignment under way: the slot, and where its value is
  lost        \* how often the move assignment overwrote a reference

vars == <<alive, refs, value, dying, assigning, lost>>

FieldsOf(o) == {o} \X Fields
Slots == Vars \cup {Argument} \cup (Objects \X Fields)

ASSUME SlotsAssumption ==
  /\ Argument \notin Vars \cup (Objects \X Fields)
  /\ Vars \cap (Objects \X Fields) = {}
  /\ Null \notin Objects
  /\ IsFiniteSet(Objects) /\ IsFiniteSet(Fields) /\ IsFiniteSet(Vars)
  /\ MaxLost \in Nat

\* The slots that code can name through the variables vs.
Reachable(vs) ==
  vs \cup UNION {FieldsOf(value[r]) : r \in {q \in vs : value[q] # Null}}

Idle == dying = {} /\ assigning = <<>>

\* What a raw pointer can be: an object in reach, a new one, or null.
Pointers ==
  {value[t] : t \in Reachable(Vars)} \cup (Objects \ alive) \cup {Null}

addRef(p) == IF p = Null THEN refs ELSE [refs EXCEPT ![p] = @ + 1]
Created(p) == alive \cup ({p} \ {Null})

----------------------------------------------------------------------------

\* Both constructors that count: from a pointer, which cast() uses too, and
\* from another reference.
Construct(s, p) ==
  /\ Idle
  /\ value[s] = Null /\ p # Null
  /\ value' = [value EXCEPT ![s] = p]
  /\ refs' = addRef(p)
  /\ alive' = Created(p)
  /\ UNCHANGED <<dying, assigning, lost>>

\* Mutant: the moved reference keeps its pointer.
MoveConstructKept(s, t) ==
  /\ Idle
  /\ value[s] = Null /\ value[t] # Null
  /\ value' = [value EXCEPT ![s] = value[t]]
  /\ UNCHANGED <<alive, refs, dying, assigning, lost>>

MoveConstruct(s, t) ==
  /\ Idle
  /\ value[s] = Null /\ value[t] # Null
  /\ value' = [value EXCEPT ![s] = value[t], ![t] = Null]
  /\ UNCHANGED <<alive, refs, dying, assigning, lost>>

Destroy(s) ==
  /\ Idle
  /\ value[s] # Null
  /\ dying' = {s}
  /\ UNCHANGED <<alive, refs, value, assigning, lost>>

\* The first half of both assignments that count: addRef of the new object,
\* then the old one is released.  from is where the second half reads.
Assign(s, p, from) ==
  /\ Idle
  /\ refs' = addRef(p)
  /\ value' = [value EXCEPT ![Argument] = p]
  /\ alive' = Created(p)
  /\ dying' = {s} \ {t \in Slots : value[t] = Null}
  /\ assigning' = <<s, from>>
  /\ UNCHANGED lost

\* Mutant: the new object is not counted.
AssignRawUncounted(s, p) ==
  /\ Idle
  /\ refs' = refs
  /\ value' = [value EXCEPT ![Argument] = p]
  /\ alive' = Created(p)
  /\ dying' = {s} \ {t \in Slots : value[t] = Null}
  /\ assigning' = <<s, Argument>>
  /\ UNCHANGED lost

AssignRaw(s, p) == Assign(s, p, Argument)

\* A copy reads the other reference again after the release.
AssignCopy(s, t) == Assign(s, value[t], t)

Store ==
  /\ assigning # <<>> /\ dying = {}
  /\ value' = [value EXCEPT ![assigning[1]] = value[assigning[2]], ![Argument] = Null]
  /\ assigning' = <<>>
  /\ UNCHANGED <<alive, refs, dying, lost>>

\* The move assignment overwrites its pointer and releases nothing, also
\* where both are one reference.
MoveAssign(s, t) ==
  /\ Idle
  /\ value[s] # Null => lost[value[s]] < MaxLost
  /\ value' = [value EXCEPT ![s] = value[t], ![t] = Null]
  /\ lost' = IF value[s] = Null THEN lost ELSE [lost EXCEPT ![value[s]] = @ + 1]
  /\ UNCHANGED <<alive, refs, dying, assigning>>

\* The pointer of a reference that is assigned to stays, and is no longer
\* counted; any other one is gone with its reference.
Forgotten(s) == assigning = <<>> \/ s # assigning[1]

\* Mutant: the count is compared before it is lowered.
delRefLate(s) ==
  LET o == value[s]
  IN /\ refs' = [refs EXCEPT ![o] = @ - 1]
     /\ alive' = IF refs[o] = 0 THEN alive \ {o} ELSE alive
     /\ value' = IF Forgotten(s) THEN [value EXCEPT ![s] = Null] ELSE value
     /\ dying' = (dying \ {s}) \cup
                   (IF refs[o] = 0 THEN {p \in FieldsOf(o) : value[p] # Null} ELSE {})
     /\ UNCHANGED <<assigning, lost>>

delRef(s) ==
  LET o == value[s]
  IN /\ refs' = [refs EXCEPT ![o] = @ - 1]
     /\ alive' = IF refs[o] = 1 THEN alive \ {o} ELSE alive
     /\ value' = IF Forgotten(s) THEN [value EXCEPT ![s] = Null] ELSE value
     /\ dying' = (dying \ {s}) \cup
                   (IF refs[o] = 1 THEN {p \in FieldsOf(o) : value[p] # Null} ELSE {})
     /\ UNCHANGED <<assigning, lost>>

Release == \E s \in dying : delRef(s)

----------------------------------------------------------------------------

Init ==
  /\ alive = {}
  /\ refs = [o \in Objects |-> 0]
  /\ value = [s \in Slots |-> Null]
  /\ dying = {}
  /\ assigning = <<>>
  /\ lost = [o \in Objects |-> 0]

\* What the program may call.  A field is named through a variable that holds
\* its object, and where a variable is assigned to, through another one: what
\* reads a field holds the object in a reference of its own (cast() and the
\* stacks return one).
Call ==
  \/ \E s \in Vars :
       \/ \E p \in Pointers : Construct(s, p)
       \/ \E t \in Reachable(Vars) : MoveConstruct(s, t)
       \/ Destroy(s)
  \/ \E s \in Reachable(Vars) :
       \/ \E p \in Pointers : AssignRaw(s, p)
       \/ \E t \in Reachable(Vars \ {s}) \cup {s} : AssignCopy(s, t)
       \/ \E t \in Reachable(Vars) : MoveAssign(s, t)

\* The rest of a call that has begun.
Proceed == Release \/ Store

Next == Call \/ Proceed

Spec == Init /\ [][Next]_vars

\* A call that has begun goes on.
FairSpec == Spec /\ WF_vars(Proceed)

----------------------------------------------------------------------------
(* Properties.                                                             *)

\* The reference that is assigned to, once its object is released.
Stale == {s \in Slots : assigning # <<>> /\ assigning[1] = s /\ s \notin dying}

TypeOK ==
  /\ alive \subseteq Objects
  /\ refs \in [Objects -> Nat]
  /\ value \in [Slots -> Objects \cup {Null}]
  /\ dying \subseteq Slots
  /\ assigning \in {<<>>} \cup (Slots \X Slots)
  /\ lost \in [Objects -> Nat]

\* No reference leads to a deleted object, whatever was copied, moved,
\* assigned to itself or dropped while others were released.
NoDangling == \A s \in Slots \ Stale : value[s] \in alive \cup {Null}

Holders(o) == {s \in Slots \ Stale : value[s] = o}

\* An object's count is the number of its references, but for those that a
\* move assignment overwrote; it is never zero.
EachReferenceCounted ==
  \A o \in alive :
    /\ refs[o] = Cardinality(Holders(o)) + lost[o]
    /\ refs[o] > 0

\* Without the counts: an object lives as long as something refers to it, no
\* longer, unless a move assignment overwrote a reference to it.
Referred ==
  [s \in Vars \cup (Objects \X Fields) |-> IF s \in dying \cup Stale THEN Null ELSE value[s]]
Overwritten == {o \in Objects : lost[o] > 0}

Owned == INSTANCE Ownership WITH value <- Referred, immortal <- Overwritten

LivesAsLongAsReferred == Owned!Spec

=============================================================================
