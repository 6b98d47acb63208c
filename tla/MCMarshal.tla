------------------------------ MODULE MCMarshal ------------------------------
(***************************************************************************)
(* Marshal on what CPython writes for small graphs of objects in every     *)
(* version, on those files cut anywhere, and on files with a byte changed. *)
(***************************************************************************)
EXTENDS MarshalWriter

Node(t, v, items) == [type |-> t, val |-> v, items |-> items]
Text(t, v) == Node(t, v, <<>>)

CodeNode(t, code, consts, names, kinds, name, flags) ==
  [type |-> t, val |-> <<>>, items |-> <<>>,
   nums   |-> [argCount |-> 1, posOnlyArgCount |-> 2, kwOnlyArgCount |-> 3,
               numLocals |-> 4, stackSize |-> 259, flags |-> flags, firstLine |-> 6],
   fields |-> [code |-> code, consts |-> consts, names |-> names,
               localNames |-> names, localKinds |-> kinds,
               freeVars |-> names, cellVars |-> consts, fileName |-> name, name |-> name,
               qualName |-> name, lnTable |-> code, exceptTable |-> kinds]]

Int32Node   == Text("i", <<255, 255, 255, 255>>)
LongNode    == Text("l", <<254, 255, 255, 255, 1, 0, 2, 0>>)      \* two digits, negative
Int64Node   == Text("I", <<0, 0, 0, 0, 1, 0, 0, 0>>)
FloatNode   == Text("f", <<3, 49, 46, 53>>)
DoubleNode  == Text("g", <<0, 0, 0, 0, 0, 0, 248, 63>>)
ComplexNode == Text("x", <<1, 49, 2, 45, 50>>)
DoublesNode == Text("y", [i \in 1..16 |-> 7])

\* The forms in which a version writes names, other strings, tuples, numbers
\* and one more constant.
Form(name, text, tuple, number, second, extra) ==
  [name |-> name, text |-> text, tuple |-> tuple,
   number |-> number, second |-> second, extra |-> extra]

Forms ==
  << Form("Z", "a", ")", Int32Node, DoubleNode, Text("T", <<>>)),               \* 3.4 on
     Form("A", "z", "(", LongNode, DoublesNode, Text("u", <<206, 177>>)),
     Form("t", "s", "(", Int32Node, FloatNode, Text("F", <<>>)),                \* 2.4 on
     Form("t", "t", "(", Int64Node, ComplexNode, Text(".", <<>>)),
     Form("s", "s", "(", LongNode, FloatNode, Text("N", <<>>)) >>               \* before

\* The constants of the module.
PartLists ==
  << <<"inner", "pair", "number", "list">>, <<"dict", "second", "extra", "pair">>,
     <<"list", "inner", "dict", "text">>, <<"set", "pair", "inner", "none">>,
     <<"pair", "pair">>, <<"set", "names">>, <<"dict", "dict">>,
     <<"loop", "module">> >>

\* A module with constants and an inner function, names shared all over.  A
\* graph is given by its form, its constants, its names and what is held.
Source(form, parts, names, held) ==
  [form |-> form, parts |-> parts, names |-> names, held |-> held]

Graph(s) ==
  [ root |-> "module", held |-> s.held,
    nodes |->
      [ module |-> CodeNode("c", "bytes", "consts", "names", "empty", "name", 64),
        inner  |-> CodeNode("c", "bytes", "pair", "names", "empty", "name", 67 + 1048576),
        bytes  |-> Text("s", <<100, 0>>),
        empty  |-> Text("s", <<>>),
        name   |-> Text(Forms[s.form].name, <<120>>),
        twin   |-> Text(Forms[s.form].name, <<120>>),
        text   |-> Text(Forms[s.form].text, <<121, 122>>),
        names  |-> Node(Forms[s.form].tuple, <<>>, s.names),
        pair   |-> Node(Forms[s.form].tuple, <<>>, <<"none", "number">>),
        none   |-> Text("N", <<>>),
        number |-> Forms[s.form].number,
        second |-> Forms[s.form].second,
        extra  |-> Forms[s.form].extra,
        set    |-> Node(">", <<>>, <<"number", "name">>),
        list   |-> Node("[", <<>>, <<"pair", "second", "pair">>),
        dict   |-> Node("{", <<>>, <<"name", "pair", "number", "none">>),
        loop   |-> Node("[", <<>>, <<"loop", "pair", "loop">>),
        consts |-> Node("(", <<>>, PartLists[s.parts]) ] ]

Names == <<"name", "text", "twin">>

HeldSets ==
  { {}, {"name"}, {"pair", "empty", "consts"}, {"inner", "number", "set", "name"},
    {"list", "dict", "pair", "module"} }

\* Several graphs in the versions with a layout or a form of reference of
\* their own, one in the others.
SourcesIn(v) ==
  CASE v.maj = 3 /\ v.min \in {8, 11} ->
         {Source(f, p, Names, h) : f \in 1..2, p \in 1..4, h \in HeldSets}
    [] v.maj = 3 /\ v.min \in {4, 5, 6, 7, 9, 10, 12, 13} -> {Source(1, 1, Names, {"name", "pair"})}
    [] v.maj = 3 /\ v.min < 4 -> {Source(5, 2, Names, {})}
    [] v.maj = 2 /\ v.min = 7 -> {Source(f, p, Names, {}) : f \in 3..4, p \in 1..4}
    [] v.maj = 2 /\ v.min \in 4..6 -> {Source(3, 3, Names, {})}
    [] OTHER -> {Source(5, 1, Names, {})}

\* The file with its listing; "ver" is the version it is read as.
File(v, s, given, magic, hashed) ==
  LET header  == IF given = NoVersion THEN Header(magic, v, hashed) ELSE <<>>
      written == Dump(Graph(s), v, header)
  IN [given |-> given, magic |-> magic, hashed |-> hashed, ver |-> v, source |-> s,
      start |-> Len(header), whole |-> TRUE, bytes |-> written.out, pieces |-> written.pieces]

Written ==
  UNION { { File(m.ver, s, NoVersion, m.magic, hashed)
            : s \in SourcesIn(m.ver), hashed \in IF m.ver.min = 9 THEN BOOLEAN ELSE {FALSE} }
          : m \in Magics }

\* Marshalled code objects, their version given on the command line.
Marshalled(v, s) == File(v, s, v, 0, FALSE)

Given == {Marshalled(Version(3, 11, TRUE), Source(2, 4, Names, {"name"})),
          Marshalled(Version(2, 7, FALSE), Source(4, 2, Names, {}))}

\* A list in itself, and the module in its own constants: references to objects
\* still being loaded.
Cyclic == {Marshalled(Version(3, 11, TRUE), Source(1, 8, Names, {"loop", "module"}))}

\* Small code objects, cut anywhere or with one byte changed.
Smalls == { Marshalled(Version(3, 11, TRUE), s) :
              s \in {Source(1, 5, <<"name">>, {"consts", "name"}),
                     Source(1, 6, <<"name">>, {"module", "names"}),
                     Source(1, 7, <<"name">>, {"dict"})} }

Truncated(f, k) == [f EXCEPT !.whole = FALSE, !.bytes = SubSeq(@, 1, k)]

Cut == UNION {{Truncated(f, k) : k \in 0..(Len(f.bytes) - 1)} : f \in Smalls}

\* Nothing is known of what these were written from.
Unlisted(f) == [f EXCEPT !.pieces = <<>>]

Changed ==
  UNION {{[Unlisted(f) EXCEPT !.bytes[k] = b] :
            k \in 1..Len(f.bytes), b \in {0, 1, TYPE_OBREF, TYPE_DICT, TYPE_TUPLE + 128}}
         : f \in Smalls}

\* Refused at once: a version that is not supported, and a bad magic number.
Refused == LET f == Unlisted(Marshalled(Version(3, 13, TRUE), Source(1, 5, <<"name">>, {})))
           IN {f, [f EXCEPT !.given = NoVersion]}

MCFiles == Written \cup Given \cup Cyclic \cup Cut \cup Changed \cup Refused

----------------------------------------------------------------------------
(* The listings are those of the graphs.                                     *)

PartsOf(v, node) ==
  IF node.type # "c" THEN node.items
  ELSE LET fields == FieldsOf(v)
       IN [k \in 1..Len(fields) |->
             IF IsNumber(fields[k]) THEN "" ELSE node.fields[fields[k].name]]

\* The node that stands behind a piece, "mark" for the end of a dict.
RECURSIVE NodeOf(_, _)

NodeOf(f, i) ==
  IF i = 1 THEN "module"
  ELSE LET e      == f.pieces[i]
           around == NodeOf(f, e.way[Len(e.way) - 1])
           parts  == PartsOf(f.ver, Graph(f.source).nodes[around])
       IN IF e.nth <= Len(parts) THEN parts[e.nth] ELSE "mark"

IsNode(f, e, node) ==
  /\ e.val = ValOf(f.ver, node)
  /\ IF e.type = TYPE_STRINGREF THEN node.type = "t"
     ELSE e.type = CodeOf(node.type) /\ Elements(e) = Len(PartsOf(f.ver, node))

\* A piece is its node or refers to one that is; a node that is held is written
\* once.
ShowsGraph(f) ==
  /\ \A i \in 1..Len(f.pieces) :
       LET e    == f.pieces[i]
           node == NodeOf(f, i)
       IN CASE node = "mark" -> e.type = TYPE_NULL
            [] e.type = TYPE_OBREF -> NodeOf(f, e.to) = node
            [] OTHER -> IsNode(f, e, Graph(f.source).nodes[node])
  /\ LET held == {i \in 1..Len(f.pieces) :
                    f.pieces[i].type # TYPE_OBREF /\ NodeOf(f, i) \in f.source.held}
     IN HasReferences(f.ver) => Cardinality({NodeOf(f, i) : i \in held}) = Cardinality(held)

ASSUME GraphAssumption == \A f \in Written \cup Given \cup Cyclic \cup Smalls : ShowsGraph(f)
=============================================================================
