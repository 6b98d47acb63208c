--------------------------- MODULE MCCodeBuilder ---------------------------
(***************************************************************************)
(* CodeBuilder on the code of all small programs.                          *)
(***************************************************************************)
EXTENDS Programs

Conditions == {N, Not(N), Bin("AND", N, N), Bin("OR", N, N), Bin("AND", Not(N), N)}

\* Suites without an if.
NestedIfExp == Ternary(CondBlock("IF", 0, N, FALSE), N, IfExp)
Short == {<<N>>, <<Return(N)>>}
Flat  == Short \cup {<<N, N>>, <<N, Return(N)>>, <<IfExp>>, <<NestedIfExp>>}

\* Ifs in ifs: one level with every kind of arm, two levels with short ones.
Inner == IfElse({N}, Short, Short)
Arms1 == Flat \cup Inner \cup Preceded(Inner) \cup Followed(Inner)
Deep  == IfElse({N}, Short \cup Inner, Short \cup Inner)

\* Ifs a function may end in: they return None where the end is as good.
Exit   == <<Return(Null)>>
Exits  == Short \cup {Exit, <<N>> \o Exit}
Inner0 == IfElse({N}, {<<N>>, Exit}, {<<N>>, Exit})
Arms0  == Exits \cup Inner0 \cup Preceded(Inner0) \cup Then(Inner0, Exit)
Last   == IfElse(Conditions, Exits, Exits) \cup IfElse({N}, Arms0, Arms0)

\* A return of None at the end that two jumps lead to.
Shared ==
  Then({<<IfStmt(Bin("AND", N, N), <<N>>)>>}
         \cup {<<IfStmt(N, <<N>>), Else(e)>> : e \in IfElse({N}, {<<N>>}, {<<N>>})}, Exit)

Sources ==
  IfElse(Conditions, Flat, Flat) \cup IfElse({N}, Arms1, Arms1)
    \cup IfElse({N}, Deep \cup Preceded(Deep), Short \cup Inner)
    \cup IfElse({N}, Short \cup Inner, Deep \cup Preceded(Deep))
    \cup Last

Falling == {s \in Sources : Falls(s)}
Ending  == Last \cup Then(Last, <<Return(N)>>) \cup Shared

MCCodes      == {Program(s) : s \in Falling} \cup {Body(s) : s \in Ending}
RegularCodes ==
  {Program(s) : s \in {t \in Falling : Regular(t, FALSE)}}
    \cup {Body(s) : s \in {t \in Ending : Regular(t, FALSE) /\ ~BareReturn(t)}}

\* A program without one of the shapes of MCMisread is read to its end and printed
\* as source that compiles to the same code: "decompiled source that recompiles to
\* the same byte-code", README.markdown:6, what build() and the passes behind it
\* have to achieve on the whole.
RegularRecompiles == code \in RegularCodes => Recompiles
=============================================================================
