------------------------------ MODULE MCPycRef ------------------------------
(***************************************************************************)
(* PycRef with a few objects, each with a few fields.                      *)
(***************************************************************************)
EXTENDS PycRef

CONSTANTS o1, o2, o3, x, y, f

MCObjects == {o1, o2, o3}
MCFields  == {f}
MCVars    == {x, y}
=============================================================================
