----------------------------- MODULE Ownership ------------------------------
(***************************************************************************)
(* What users of reference-counted nodes count on, with no counts in it:   *)
(* an object lives as long as something refers to it, and no longer.       *)
(*                                                                         *)
(* The exception is an object whose reference was overwritten by a move:   *)
(* it lives for ever.                                                      *)
(***************************************************************************)
CONSTANTS Objects, Fields, Vars, Null

VARIABLES alive, value, immortal
vars == <<alive, value, immortal>>

\* The references: the program's variables and the fields of objects.
FieldsOf(o) == {o} \X Fields
Slots == Vars \cup (Objects \X Fields)

Refers(o) == \E s \in Slots : value[s] = o

Init ==
  /\ alive = {}
  /\ value = [s \in Slots |-> Null]
  /\ immortal = {}

\* s, which is null, refers to o, which may be new.
Bind(s, o) ==
  /\ value[s] = Null
  /\ value' = [value EXCEPT ![s] = o]
  /\ alive' = alive \cup {o}
  /\ UNCHANGED immortal

\* s lets go of its object; the one to take its place may be new.
Drop(s) ==
  /\ value' = [value EXCEPT ![s] = Null]
  /\ \/ UNCHANGED alive
     \/ \E o \in Objects \ alive : alive' = alive \cup {o}
  /\ UNCHANGED immortal

\* The reference t goes to s, over what s referred to.
Move(s, t) ==
  /\ value' = [value EXCEPT ![s] = value[t], ![t] = Null]
  /\ immortal' = immortal \cup ({value[s]} \ {Null})
  /\ UNCHANGED alive

\* An object that nothing refers to goes, and its fields with it.
Collect(o) ==
  /\ o \in alive \ immortal
  /\ ~Refers(o)
  /\ alive' = alive \ {o}
  /\ value' = [s \in Slots |-> IF s \in FieldsOf(o) THEN Null ELSE value[s]]
  /\ UNCHANGED immortal

Next ==
  \/ \E s \in Slots :
       \/ \E o \in Objects : Bind(s, o)
       \/ Drop(s)
       \/ \E t \in Slots : Move(s, t)
  \/ \E o \in Objects : Collect(o)

Safety == Init /\ [][Next]_vars

Spec == Safety /\ \A o \in Objects : WF_vars(Collect(o))

=============================================================================
