------------------------------ MODULE Opcodes ------------------------------
(***************************************************************************)
(* The opcodes of each version: the tables of src/bytes and ByteToOpcode   *)
(* (bytecode.cpp).  In one version no two bytes stand for one opcode, so   *)
(* that an opcode is its byte.                                             *)
(***************************************************************************)
EXTENDS Integers

PYC_INVALID_OPCODE == -1

Bytes(ranges) == UNION {r[1]..r[2] : r \in ranges}

\* The jumps, by how bc_disasm gives the place they lead to, and those that
\* handleConditionalJump handles.
Jumps(forward, backward, absolute, conditional) ==
  [forward |-> forward, backward |-> backward, absolute |-> absolute,
   conditional |-> conditional]

\* The bytes of opcodes without and with an argument (in bytecode_ops.inl, the
\* latter come after PYC_HAVE_ARG), of EXTENDED_ARG and of the jumps.
Map(plain, arg, extended, jumps) ==
  [plain |-> Bytes(plain), arg |-> Bytes(arg), extended |-> extended, jumps |-> jumps]

NoMap == Map({}, {}, {}, Jumps({}, {}, {}, {}))

python_1_0_map == Map(
  {<<0, 4>>, <<10, 15>>, <<20, 26>>, <<30, 33>>, <<40, 43>>, <<50, 53>>, <<60, 66>>,
   <<70, 72>>, <<80, 89>>},
  {<<90, 116>>, <<120, 127>>},
  {}, Jumps({110, 111, 112, 114, 120, 121, 122}, {}, {113}, {111, 112}))

python_1_1_map == Map(
  {<<0, 4>>, <<10, 15>>, <<20, 26>>, <<30, 33>>, <<40, 43>>, <<50, 53>>, <<60, 66>>,
   <<70, 72>>, <<80, 89>>},
  {<<90, 117>>, <<120, 127>>},
  {}, Jumps({110, 111, 112, 114, 120, 121, 122}, {}, {113}, {111, 112}))

python_1_3_map == Map(
  {<<0, 4>>, <<10, 13>>, <<15, 15>>, <<20, 25>>, <<30, 33>>, <<40, 43>>, <<50, 53>>,
   <<60, 66>>, <<70, 72>>, <<80, 80>>, <<82, 83>>, <<85, 85>>, <<87, 89>>},
  {<<90, 117>>, <<120, 122>>, <<124, 127>>, <<130, 132>>},
  {}, Jumps({110, 111, 112, 114, 120, 121, 122}, {}, {113}, {111, 112}))

python_1_4_map == Map(
  {<<0, 4>>, <<10, 13>>, <<15, 15>>, <<19, 25>>, <<30, 33>>, <<40, 43>>, <<50, 53>>,
   <<60, 66>>, <<70, 72>>, <<80, 80>>, <<82, 83>>, <<85, 85>>, <<87, 89>>},
  {<<90, 117>>, <<120, 122>>, <<124, 127>>, <<130, 133>>},
  {}, Jumps({110, 111, 112, 114, 120, 121, 122}, {}, {113}, {111, 112}))

python_1_5_map == Map(
  {<<0, 4>>, <<10, 13>>, <<15, 15>>, <<19, 25>>, <<30, 33>>, <<40, 43>>, <<50, 53>>,
   <<60, 66>>, <<70, 72>>, <<80, 80>>, <<82, 83>>, <<85, 85>>, <<87, 89>>},
  {<<90, 93>>, <<95, 98>>, <<100, 108>>, <<110, 114>>, <<116, 116>>, <<120, 122>>,
   <<124, 127>>, <<130, 133>>},
  {}, Jumps({110, 111, 112, 114, 120, 121, 122}, {}, {113}, {111, 112}))

python_1_6_map == Map(
  {<<0, 4>>, <<10, 13>>, <<15, 15>>, <<19, 25>>, <<30, 33>>, <<40, 43>>, <<50, 53>>,
   <<60, 66>>, <<70, 72>>, <<80, 80>>, <<82, 83>>, <<85, 85>>, <<87, 89>>},
  {<<90, 93>>, <<95, 98>>, <<100, 108>>, <<110, 114>>, <<116, 116>>, <<120, 122>>,
   <<124, 127>>, <<130, 133>>, <<140, 142>>},
  {}, Jumps({110, 111, 112, 114, 120, 121, 122}, {}, {113}, {111, 112}))

python_2_0_map == Map(
  {<<0, 5>>, <<10, 13>>, <<15, 15>>, <<19, 25>>, <<30, 33>>, <<40, 43>>, <<50, 53>>,
   <<55, 67>>, <<70, 80>>, <<82, 85>>, <<87, 89>>},
  {<<90, 92>>, <<95, 108>>, <<110, 114>>, <<116, 116>>, <<120, 122>>, <<124, 127>>,
   <<130, 133>>, <<140, 143>>},
  {143}, Jumps({110, 111, 112, 114, 120, 121, 122}, {}, {113}, {111, 112}))

python_2_1_map == Map(
  {<<0, 5>>, <<10, 13>>, <<15, 15>>, <<19, 25>>, <<30, 33>>, <<40, 43>>, <<50, 53>>,
   <<55, 67>>, <<70, 80>>, <<82, 85>>, <<87, 89>>},
  {<<90, 92>>, <<95, 108>>, <<110, 114>>, <<116, 116>>, <<119, 122>>, <<124, 127>>,
   <<130, 137>>, <<140, 143>>},
  {143}, Jumps({110, 111, 112, 114, 120, 121, 122}, {}, {113}, {111, 112}))

python_2_2_map == Map(
  {<<0, 5>>, <<10, 13>>, <<15, 15>>, <<19, 33>>, <<40, 43>>, <<50, 53>>, <<55, 68>>,
   <<70, 80>>, <<82, 89>>},
  {<<90, 93>>, <<95, 108>>, <<110, 114>>, <<116, 116>>, <<119, 122>>, <<124, 127>>,
   <<130, 137>>, <<140, 143>>},
  {143}, Jumps({93, 110, 111, 112, 114, 120, 121, 122}, {}, {113}, {111, 112}))

python_2_3_map == Map(
  {<<0, 5>>, <<10, 13>>, <<15, 15>>, <<19, 33>>, <<40, 43>>, <<50, 53>>, <<55, 68>>,
   <<70, 80>>, <<82, 89>>},
  {<<90, 93>>, <<95, 108>>, <<110, 113>>, <<116, 116>>, <<119, 122>>, <<124, 126>>,
   <<130, 137>>, <<140, 143>>},
  {143}, Jumps({93, 110, 111, 112, 120, 121, 122}, {}, {113}, {111, 112}))

python_2_4_map == Map(
  {<<0, 5>>, <<9, 13>>, <<15, 15>>, <<18, 33>>, <<40, 43>>, <<50, 53>>, <<55, 68>>,
   <<70, 80>>, <<82, 89>>},
  {<<90, 93>>, <<95, 108>>, <<110, 113>>, <<116, 116>>, <<119, 122>>, <<124, 126>>,
   <<130, 137>>, <<140, 143>>},
  {143}, Jumps({93, 110, 111, 112, 120, 121, 122}, {}, {113}, {111, 112}))

python_2_5_map == Map(
  {<<0, 5>>, <<9, 13>>, <<15, 15>>, <<18, 33>>, <<40, 43>>, <<50, 53>>, <<55, 68>>,
   <<70, 89>>},
  {<<90, 93>>, <<95, 108>>, <<110, 113>>, <<116, 116>>, <<119, 122>>, <<124, 126>>,
   <<130, 137>>, <<140, 143>>},
  {143}, Jumps({93, 110, 111, 112, 120, 121, 122}, {}, {113}, {111, 112}))

python_2_6_map == Map(
  {<<0, 5>>, <<9, 13>>, <<15, 15>>, <<18, 33>>, <<40, 43>>, <<50, 68>>, <<70, 89>>},
  {<<90, 93>>, <<95, 108>>, <<110, 113>>, <<116, 116>>, <<119, 122>>, <<124, 126>>,
   <<130, 137>>, <<140, 143>>},
  {143}, Jumps({93, 110, 111, 112, 120, 121, 122}, {}, {113}, {111, 112}))

python_2_7_map == Map(
  {<<0, 5>>, <<9, 13>>, <<15, 15>>, <<19, 33>>, <<40, 43>>, <<50, 68>>, <<70, 89>>},
  {<<90, 116>>, <<119, 122>>, <<124, 126>>, <<130, 137>>, <<140, 143>>, <<145, 147>>},
  {145}, Jumps({93, 110, 120, 121, 122, 143}, {}, {111, 112, 113, 114, 115}, {111, 112,
   114, 115}))

python_3_0_map == Map(
  {<<0, 5>>, <<9, 12>>, <<15, 15>>, <<17, 20>>, <<22, 29>>, <<54, 57>>, <<59, 71>>,
   <<75, 81>>, <<83, 84>>, <<86, 89>>},
  {<<90, 113>>, <<116, 116>>, <<119, 122>>, <<124, 126>>, <<130, 137>>, <<140, 143>>},
  {143}, Jumps({93, 110, 111, 112, 120, 121, 122}, {}, {113}, {111, 112}))

python_3_1_map == Map(
  {<<0, 5>>, <<9, 12>>, <<15, 15>>, <<19, 20>>, <<22, 29>>, <<54, 57>>, <<59, 71>>,
   <<75, 81>>, <<83, 84>>, <<86, 89>>},
  {<<90, 116>>, <<119, 122>>, <<124, 126>>, <<130, 137>>, <<140, 143>>, <<145, 147>>},
  {143}, Jumps({93, 110, 120, 121, 122}, {}, {111, 112, 113, 114, 115}, {111, 112, 114,
   115}))

python_3_2_map == Map(
  {<<0, 5>>, <<9, 12>>, <<15, 15>>, <<19, 20>>, <<22, 29>>, <<54, 57>>, <<59, 71>>,
   <<75, 81>>, <<83, 84>>, <<86, 89>>},
  {<<90, 98>>, <<100, 116>>, <<119, 122>>, <<124, 126>>, <<130, 138>>, <<140, 147>>},
  {144}, Jumps({93, 110, 120, 121, 122, 143}, {}, {111, 112, 113, 114, 115}, {111, 112,
   114, 115}))

python_3_3_map == Map(
  {<<1, 5>>, <<9, 12>>, <<15, 15>>, <<19, 20>>, <<22, 29>>, <<54, 57>>, <<59, 72>>,
   <<75, 81>>, <<83, 84>>, <<86, 89>>},
  {<<90, 98>>, <<100, 116>>, <<119, 122>>, <<124, 126>>, <<130, 138>>, <<140, 147>>},
  {144}, Jumps({93, 110, 120, 121, 122, 143}, {}, {111, 112, 113, 114, 115}, {111, 112,
   114, 115}))

python_3_4_map == Map(
  {<<1, 5>>, <<9, 12>>, <<15, 15>>, <<19, 20>>, <<22, 29>>, <<54, 57>>, <<59, 68>>,
   <<70, 72>>, <<75, 81>>, <<83, 84>>, <<86, 89>>},
  {<<90, 98>>, <<100, 116>>, <<119, 122>>, <<124, 126>>, <<130, 138>>, <<140, 148>>},
  {144}, Jumps({93, 110, 120, 121, 122, 143}, {}, {111, 112, 113, 114, 115}, {111, 112,
   114, 115}))

python_3_5_map == Map(
  {<<1, 5>>, <<9, 12>>, <<15, 17>>, <<19, 20>>, <<22, 29>>, <<50, 52>>, <<55, 57>>,
   <<59, 73>>, <<75, 84>>, <<86, 89>>},
  {<<90, 98>>, <<100, 116>>, <<119, 122>>, <<124, 126>>, <<130, 138>>, <<140, 154>>},
  {144}, Jumps({93, 110, 120, 121, 122, 143, 154}, {}, {111, 112, 113, 114, 115}, {111,
   112, 114, 115}))

python_3_6_map == Map(
  {<<1, 5>>, <<9, 12>>, <<15, 17>>, <<19, 20>>, <<22, 29>>, <<50, 52>>, <<55, 57>>,
   <<59, 73>>, <<75, 89>>},
  {<<90, 98>>, <<100, 116>>, <<119, 122>>, <<124, 127>>, <<130, 133>>, <<135, 138>>,
   <<141, 158>>},
  {144}, Jumps({93, 110, 120, 121, 122, 143, 154}, {}, {111, 112, 113, 114, 115}, {111,
   112, 114, 115}))

python_3_7_map == Map(
  {<<1, 5>>, <<9, 12>>, <<15, 17>>, <<19, 20>>, <<22, 29>>, <<50, 52>>, <<55, 57>>,
   <<59, 73>>, <<75, 89>>},
  {<<90, 98>>, <<100, 116>>, <<119, 122>>, <<124, 126>>, <<130, 133>>, <<135, 138>>,
   <<141, 158>>, <<160, 161>>},
  {144}, Jumps({93, 110, 120, 121, 122, 143, 154}, {}, {111, 112, 113, 114, 115}, {111,
   112, 114, 115}))

python_3_8_map == Map(
  {<<1, 6>>, <<9, 12>>, <<15, 17>>, <<19, 20>>, <<22, 29>>, <<50, 57>>, <<59, 73>>,
   <<75, 79>>, <<81, 89>>},
  {<<90, 98>>, <<100, 116>>, <<122, 122>>, <<124, 126>>, <<130, 133>>, <<135, 138>>,
   <<141, 158>>, <<160, 163>>},
  {144}, Jumps({93, 110, 122, 143, 154}, {}, {111, 112, 113, 114, 115}, {111, 112, 114,
   115}))

python_3_9_map == Map(
  {<<1, 6>>, <<9, 12>>, <<15, 17>>, <<19, 20>>, <<22, 29>>, <<48, 52>>, <<54, 57>>,
   <<59, 79>>, <<82, 87>>, <<89, 89>>},
  {<<90, 98>>, <<100, 118>>, <<121, 122>>, <<124, 126>>, <<130, 133>>, <<135, 138>>,
   <<141, 148>>, <<154, 157>>, <<160, 165>>},
  {144}, Jumps({93, 110, 122, 143, 154}, {}, {111, 112, 113, 114, 115, 121}, {111, 112,
   114, 115}))

python_3_10_map == Map(
  {<<1, 6>>, <<9, 12>>, <<15, 17>>, <<19, 20>>, <<22, 34>>, <<49, 52>>, <<54, 57>>,
   <<59, 79>>, <<82, 87>>, <<89, 89>>},
  {<<90, 119>>, <<121, 122>>, <<124, 126>>, <<129, 133>>, <<135, 138>>, <<141, 148>>,
   <<152, 152>>, <<154, 157>>, <<160, 165>>},
  {144}, Jumps({93, 110, 122, 143, 154}, {}, {111, 112, 113, 114, 115, 121}, {111, 112,
   114, 115}))

python_3_11_map == Map(
  {<<0, 2>>, <<9, 12>>, <<15, 15>>, <<25, 25>>, <<30, 33>>, <<35, 37>>, <<49, 54>>,
   <<60, 61>>, <<68, 71>>, <<74, 75>>, <<82, 89>>},
  {<<90, 112>>, <<114, 120>>, <<122, 126>>, <<128, 140>>, <<142, 142>>, <<144, 149>>,
   <<151, 152>>, <<155, 157>>, <<160, 160>>, <<162, 166>>, <<171, 176>>},
  {144}, Jumps({93, 110, 114, 115, 123, 128, 129}, {134, 140, 173, 174, 175, 176}, {111,
   112}, {111, 112, 114, 115, 128, 129}))

python_3_12_map == Map(
  {<<0, 5>>, <<9, 9>>, <<11, 12>>, <<15, 15>>, <<17, 17>>, <<25, 27>>, <<30, 33>>,
   <<35, 37>>, <<49, 55>>, <<60, 61>>, <<68, 69>>, <<71, 71>>, <<74, 75>>, <<83, 83>>,
   <<85, 85>>, <<87, 87>>, <<89, 89>>},
  {<<90, 110>>, <<114, 147>>, <<149, 152>>, <<155, 157>>, <<162, 165>>, <<171, 176>>,
   <<237, 254>>},
  {144}, Jumps({93, 110, 123, 128, 129, 238, 239, 245, 248, 249, 250}, {134, 140, 246},
   {114, 115}, {114, 115, 249, 250}))

python_3_13_map == Map(
  {<<0, 2>>, <<4, 44>>},
  {<<45, 118>>, <<149, 149>>, <<236, 254>>},
  {71}, Jumps({72, 79, 98, 99, 104, 243, 248, 250, 251, 252, 253}, {77, 78, 249}, {97,
   100}, {97, 100, 250, 251}))

python_map(v) ==
  CASE v = <<1, 0>> -> python_1_0_map
    [] v = <<1, 1>> -> python_1_1_map
    [] v = <<1, 3>> -> python_1_3_map
    [] v = <<1, 4>> -> python_1_4_map
    [] v = <<1, 5>> -> python_1_5_map
    [] v = <<1, 6>> -> python_1_6_map
    [] v = <<2, 0>> -> python_2_0_map
    [] v = <<2, 1>> -> python_2_1_map
    [] v = <<2, 2>> -> python_2_2_map
    [] v = <<2, 3>> -> python_2_3_map
    [] v = <<2, 4>> -> python_2_4_map
    [] v = <<2, 5>> -> python_2_5_map
    [] v = <<2, 6>> -> python_2_6_map
    [] v = <<2, 7>> -> python_2_7_map
    [] v = <<3, 0>> -> python_3_0_map
    [] v = <<3, 1>> -> python_3_1_map
    [] v = <<3, 2>> -> python_3_2_map
    [] v = <<3, 3>> -> python_3_3_map
    [] v = <<3, 4>> -> python_3_4_map
    [] v = <<3, 5>> -> python_3_5_map
    [] v = <<3, 6>> -> python_3_6_map
    [] v = <<3, 7>> -> python_3_7_map
    [] v = <<3, 8>> -> python_3_8_map
    [] v = <<3, 9>> -> python_3_9_map
    [] v = <<3, 10>> -> python_3_10_map
    [] v = <<3, 11>> -> python_3_11_map
    [] v = <<3, 12>> -> python_3_12_map
    [] v = <<3, 13>> -> python_3_13_map
    [] OTHER -> NoMap

\* Mutant: no default case.
ByteToOpcode_NoDefault(v, byte) == byte

ByteToOpcode(v, byte) ==
  IF byte \in python_map(v).plain \cup python_map(v).arg THEN byte ELSE PYC_INVALID_OPCODE

\* opcode >= PYC_HAVE_ARG
HasArg(v, opcode) == opcode \in python_map(v).arg

IsExtendedArg(v, opcode) == opcode \in python_map(v).extended
=============================================================================
