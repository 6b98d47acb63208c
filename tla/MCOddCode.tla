----------------------------- MODULE MCOddCode -----------------------------
(***************************************************************************)
(* CodeBuilder on code that no compiler made: that of small programs, with *)
(* one jump leading to somewhere else.                                     *)
(***************************************************************************)
EXTENDS Programs

Retargeted(c) ==
  {d \in {[c EXCEPT ![p].arg = k] : p \in {q \in 1..Len(c) : c[q].op \in Jumps}, k \in 0..Len(c)} :
     IsCode(d)}

Parts == {<<N>>, <<Return(N)>>, <<IfExp>>}
Inner == IfElse({N}, {<<N>>}, {<<N>>, <<IfExp>>})

\* An if, and three in a row.
Sources ==
  IfElse({N}, Parts \cup Inner, Parts \cup Inner)
    \cup {s \o <<IfStmt(N, <<Return(N)>>), t>> :
            s \in IfElse({N}, {<<N>>}, {<<N>>}), t \in {IfStmt(N, <<N>>), IfExp}}

MCCodes == UNION {Retargeted(Program(s)) : s \in {t \in Sources : Falls(t)}}
=============================================================================
