----------------------------- MODULE MCMisread -----------------------------
(***************************************************************************)
(* CodeBuilder on programs that are not printed as they were, one shape in *)
(* each set.                                                               *)
(***************************************************************************)
EXTENDS Programs

\* if a: b           else: (if c: d); e
ElseIfThenMoreCodes ==
  {Program(<<IfStmt(N, <<N>>), Else(<<IfStmt(N, <<N>>), N>>)>>)}

\* if a: (if b: c  else: return d)   else: e
EndSkippedCodes ==
  {Program(<<IfStmt(N, <<IfStmt(N, <<N>>), Else(<<Return(N)>>)>>), Else(<<N>>)>>)}

\* if a: b   elif c: return d   elif e: f
ElseAfterReturnCodes ==
  {Program(<<IfStmt(N, <<N>>),
             Else(<<IfStmt(N, <<Return(N)>>), Else(<<IfStmt(N, <<N>>)>>)>>)>>)}

\* (a if b else c) if d else e
IfExpInThenCodes ==
  {Program(<<Ternary(CondBlock("IF", 0, N, FALSE), IfExp, N)>>)}

\* if a: (if b: c   else: (if d: e   else: f); return g); h   else: i
BodyPoppedCodes ==
  {Program(<<IfStmt(N, <<IfStmt(N, <<N>>),
                         Else(<<IfStmt(N, <<N>>), Else(<<N>>), Return(N)>>), N>>),
             Else(<<N>>)>>)}

\* if a: b           return None
SharedReturnCodes == {Body(<<IfStmt(N, <<N>>), Return(Null)>>)}

\* if a and b: c     else: return None
BareReturnCodes ==
  {Body(<<IfStmt(Bin("AND", N, N), <<N>>), Else(<<Return(Null)>>)>>)}

MisreadCodes ==
  ElseIfThenMoreCodes \cup EndSkippedCodes \cup ElseAfterReturnCodes \cup IfExpInThenCodes
    \cup BodyPoppedCodes \cup SharedReturnCodes \cup BareReturnCodes
=============================================================================
