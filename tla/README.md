# pyfaithful in TLA+

pyfaithful reads compiled Python and prints source. For Python 3.11 it promises
more than most decompilers: source that recompiles to the same byte code, laid
out on the same lines (README.markdown:5-8 of the repository). These modules
state that promise, and what the parts of the program owe each other for it, and
check them: TLC on small instances, TLAPS for every value of the constants where
that can be proved.

## The system

One process, one thread, no I/O beyond reading a file and printing. What is hard
here is not concurrency: it is long sequences of steps over several stacks that
have to stay in step, state that is read after it went stale, tables built once
and searched for the rest of the run, and malformed input that ends any of this
half way.

| component | source | state | operations | model |
|---|---|---|---|---|
| marshal reader | pyc_module, pyc_object, pyc_sequence, pyc_string, pyc_numeric, pyc_code.cpp:29-120, data | position in the file; the reference table and the table of interned strings | `LoadObject` and one `load` for each type | `Marshal` |
| integer constants | pyc_numeric.cpp, bytecode.cpp:237-292 | the digits of a number | `PycLong::load`, `repr`, its case of `print_const` | `PycLong` |
| location table | pyc_code.cpp:173-322 | the line cache and whether it was built | `buildLineCache`, four lookups by offset | `LineTable` |
| exception table | pyc_code.cpp:131-171, ASTree.cpp:788-880, 4765-4769 | the list of entries | reading it; merging, inserting and erasing entries before the block machine runs | `ExceptionTable` |
| instruction decoding | bytecode.cpp, bytes/ | position in the code | `bc_next`, `ByteToOpcode` | `Instructions`, `Opcodes` |
| block machine | ASTree.cpp, `CodeBuilder` | the stack of open blocks, the operand stack, the stack of saved operand stacks, some eighty tables computed before the pass | one handler for each group of instructions | `CodeBuilder` for conditionals |
| expressions and statements | ASTree.cpp, `CodeBuilder`; ASTNode.h | the operand stack; accumulators for statements that take several instructions: unpackings, chained, parallel and augmented assignments, imports, print statements | one handler for each group of instructions | `Nodes`, `ExpressionBuilder`, `StatementBuilder` |
| operand stack | FastStack.h | the operands | push, pop, top, which never fail | in `Nodes` and `CodeBuilder` |
| references | pyc_object.h | a count in every node and object | copying, moving, assigning and dropping a `PycRef` | `PycRef`, `Ownership` |
| layout | ASTFaithful.cpp | a mark on statements that are not printed; the line and column reached | dropping and refolding what recompiles of itself; placing each statement on its line | `Epilogues`: the first, for ifs and returns |
| renderer | ASTRender.cpp | indentation | one printer for each node, parentheses by precedence | `Renderer`: the tokens of straight-line statements |
| tools | pycdc.cpp, pycdas.cpp | none | arguments, output | not modelled |

How they meet: the reader builds code objects; `CodeBuilder::build` walks one
code object's instructions with `bc_next`, asks the exception table where
protected ranges begin and the location table where an instruction came from, and
leaves a tree; layout and renderer walk the tree and ask for locations again.
There are no callbacks and nothing is shared but the reference-counted nodes.

## Modules

    CodeBuilder ── Epilogues ── Programs ── MCCodeBuilder
        │                          │   ├─── MCOddCode
    CodeBuilder_proofs             │   └─── MCMisread
                        ConditionalCompiler

    LineTable ── LocationListing ── MCLineTable    Marshal ── MarshalListing ── MCMarshal
                       │                 │                         │                │
                LineTable_proofs   LocationWriter           Marshal_proofs    MarshalWriter

    Opcodes ── Instructions ── Listing ── MCInstructions     PycLong ── MCPycLong
                                │  │           │                 │
              Instructions_proofs Dis      Assembler       PycLong_proofs

    ExceptionTable ── TableListing ── MCExceptionTable
                           │                 │
                ExceptionTable_proofs   TryCompiler

    Nodes ── ExpressionBuilder ── StatementBuilder ── MCStatements
      │              │                   │               │  │
      │              │     StatementBuilder_proofs       │  │
      ├── Renderer ──┼───────────────────────────────────┘  │
      └──────────────└── SourceCompiler ── SourceParser ────┘

    Ownership ── PycRef ── MCPycRef
                   │
             PycRef_proofs

`LocationWriter`, `ConditionalCompiler`, `MarshalWriter`, `Assembler`, `Dis`,
`TryCompiler`, `SourceCompiler` and `SourceParser` are not models of this
repository. They are the CPython code on the other side: what writes a location
table, what compiles the statements the block machine rebuilds, what writes a
.pyc file, what lays out instructions and names the kinds of them, what compiles
try statements and writes their exception table, and what parses and compiles
straight-line source. They are there because the promise is about them: reading
undoes writing, recompiling gives the code back.

A writer computes bytes by recursion, which TLC can do and no proof can follow. So
`Listing`, `TableListing`, `LocationListing` and `MarshalListing` say without recursion
when bytes are those of given instructions, entries, locations or objects: a listing goes with the bytes
that says where each part begins and ends, and `Listed` or `Written` relates each to
the one before. The writers make listings, TLC sees that they are right
(`ListingsAssumption`), and the proofs are about every code and table that has one. `Ownership` is an abstract specification: what users of
counted references rely on, without a count in it.

### Marshal: reading a file

Models `PycModule::loadFromFile` and `loadFromMarshalledFile` with everything they
call: the magic numbers and headers of all versions, `LoadObject`, the reference
table and the table of interned strings, and the `load` of every object type,
with the fields of a code object in each version. It works on the bytes of the
file. The recursion of `LoadObject` through the `load` methods is the stack
`frames`: a frame is a `load` that waits for parts, `pc = "return"` is
`LoadObject` returning `ret` to the innermost one, `pc = "field"` is
`PycCode::load` between two fields. An object is created, and entered in `m_refs`
when its type byte says so, before its parts are read, so a back reference can
reach one that is still being loaded.

`MarshalListing` lists what a file was written from, one piece for each call of
`LoadObject` in the order of the file: its type, its parts with the places where they
end, what a reference refers to, the pieces around it, and the counts of objects,
references and interned texts so far. `Listed` says what the bytes of each piece are,
as far as the file is not cut off; references lead back to any flagged piece, one that
is still open too, so cyclic structures have a listing. The fields of a code object are
those of the table in the comment at pyc_code.cpp:6-27, while `Layout` in `Marshal`
translates the tests on the version in the code; `LayoutAssumption`, which has no
constant in it, says that they are the same for every version, and TLC evaluates it.
`MarshalWriter` writes a graph of nodes as CPython does and makes the listing, and
`GraphAssumption` of `MCMarshal` says that the listing shows that graph: the nodes
where they belong, and each that is held written once.

Abstractions: numbers stand for objects (0 is `NULL`); a long, a float or a
complex number is the bytes it takes; a count at least as large as the file is
one too large. Every way to fail, exceptions and the `exit` at the end of the
file, is the action `Fail`: the program prints an error and stops.

### PycLong: integer constants

Models `PycLong::load`, `PycLong::repr` and what `print_const` does with integers.
A word is the set of the positions of its 1 bits, so that `|` is union and
shifts move positions; one round of the loop that repacks digits of 15 bits into
words of 32 is `Gather` or `Carry`.

### Opcodes and Instructions: reading code

`Opcodes` has the opcode tables of all 28 versions: which bytes are opcodes, which
of them come behind `PYC_HAVE_ARG`, which is `EXTENDED_ARG` and which are jumps, by
the case of `bc_disasm` that prints them. Names are left out; an opcode is its
byte. `Instructions` models `bc_next` in the loop all its callers have: two bytes
each with any number of prefixes from 3.6 on, one or three bytes with one prefix
before. The caller's position, counted by hand, and the buffer's are variables of
their own. `offs` and `PrintedTarget` are the two places that work out where a jump
leads.

### ExceptionTable: the exception table

Models `exceptionTableEntries` byte by byte, and the three passes that
`CodeBuilder::build` makes over the entries before it walks the code: ranges of
one handler that a `return` inside the try divides are put together (`Merge`, one
pair a round), a handler behind an empty try body, for which the compiler writes
no range, gets one (`Synthesize`, then `Insert` one by one), and the ranges of
`async for` are erased. What throws in between, a table that ends inside an entry
or code that ends inside a handler, is `Throw` and `OrphanThrows`. `original` keeps
the entries as they were read; only properties look at it.

Abstractions: numbers are not cut to 32 bits; the code is a sequence of words
without `EXTENDED_ARG`, and opcodes the passes do not look for are "other". A gap
behind the end of the code reads memory that is not the code's, and then both
outcomes are possible (`ReadsBeyond`).

`TryCompiler` was compared with CPython 3.11 on 525 programs, code and table, and
there was no difference. A range that is inserted for an empty body can lie inside
one that was merged, as in `try: (if a: return 1); (try: pass  except: pass); x()`
`except E: y()`; the output is right.

### LineTable: the location table

Models `PycCode::buildLineCache` and `lineForOffset`, `colForOffset`,
`elineForOffset`, `ecolForOffset` byte by byte: the five entry forms, signed and
unsigned varints, the running line, the flag that is set before the table is
read, and a table that ends inside an entry. `ReadSpan` is one round of the
loop, `BuildThrows` the `std::runtime_error` of `PycBuffer::getByte`, the search
actions one round of the binary search. The four lookups have the same search
and are one action.

### CodeBuilder: the block machine on conditionals

Models `CodeBuilder::build` with `handleReturnValue`, `handleConditionalJump`,
`handleJumpForward`, `handlePopTop`, `handleLoadConst` and `CheckIfExpr` on 3.11
code without loops, handlers, short-circuit values and conditions that mix `and` with
`or`. Variables have the names
of the code's: `blocks` and `curblock`, `stack`, `stack_hist`, `curpos`, `pos`,
`elifPendingElse`, `else_pop`. One iteration of the loop is `Fetch`, then the
rounds of `Unwind` if a block ended, then one dispatched instruction;
`handleJumpForward`'s own loop is `pc = "close"`.

Abstractions: a position is an instruction, not a byte offset, so `EXTENDED_ARG`
and cache slots do not occur; an expression without control flow is one `LOAD`.
On this code the tables of the pre-scans are empty except for three
(`opEndingBefore`, `fwdJumps`, `retPadCanon`), which are operators over the code.
What the code does with a null operand, an empty operand stack or an empty block
stack is kept: `StackTop` of an empty stack is `Null`, and where the body itself
is popped (`CloseMain`) the model stops: from there on the block stack is empty,
what the current block gets still comes out, and blocks opened later do not.

A saved operand stack can be left over at the end (`if a: (if b: c)` `else: return d`),
which `build` warns of; it is in the model and no property forbids it.

The model was compared with the program: for 900 random sources the code of
`ConditionalCompiler` is that of CPython 3.11 and the model's tree that of
`pycdc`; on about 1100 code objects with moved jumps the trees agree but for the
rendering of negated conditions.

### Epilogues: from the tree to the printer

A function that ends without a return gets one from the compiler, and each jump to
it a copy; so the tree `build` leaves has returns of None that the source has not,
and ifs beside each other that were a chain. `Epilogues` models the passes over the
tree that put this right: `decompyle` takes off the last returns of None, unless
`keepFinalRetNone` found in the code that one return is shared by two jumps;
`coalesceElifChains` folds ifs that end in a return of None, and the return behind
them, to if, elif and else; `markEpilogueSuppress` marks a return of None that the
function would end with anyway. They are operators from tree to tree, and `Printed`
is their composition. A marked statement is left out, since nothing sees it again.

`ConditionalCompiler` has the other side: where the compiler puts the implicit return
(`WithExit`). A branch that ends the function gets it instead of its jump, and
every further condition that jumps there a copy of its own, in the order in which
the compiler made the blocks these conditions end.

Compared with CPython 3.11 and `pycdc` on all 1720 functions of one if with five kinds
of conditions, six kinds of arms and six kinds of tails, and on some 2000 random ones
of two levels and 1200 of three: the code, the printed tree and the verdict whether
it recompiles agree, and where the model has no verdict because the body was popped,
what is printed does not recompile.

### Nodes, ExpressionBuilder, StatementBuilder: straight-line code

Model `CodeBuilder::build` and its handlers on code without jumps, for the
versions from 2.5 to 3.12. `Nodes` has the node classes and the operand stack.
`ExpressionBuilder` has the handlers that only rearrange the operand stack, one
operator each, with the handler's name: unary and binary operators, comparisons,
displays and their `_UPDATE`, `_EXTEND` and `_ADD` forms, f-strings, subscripts and
slices, calls of every calling convention, functions with defaults and
annotations, `LOAD_*`. `StatementBuilder` is the machine: one action for each group
of instructions that stores, deletes, imports, raises, prints or emits. The
scans that `build` makes before the first instruction (`parseStoreGroup`,
`chainCopyOffsets`, `walrusStores`, `tupleAssignStart`) are operators over the
code. `unpack`, `unpackStar`, `unpackNest`, `tupleStore`, `tupleStoreTargets`,
`tupleStoreValues`, `inplaceStore`, `variable_annotations`, `globals` and `processed`
are the code's members of these names.

`blocks` holds the body and at its end a for or a with whose header is being
read: the model stops where the header is complete and the block's own code
begins.

Abstractions: a constant is a record of its kind and value, a nested code object
a name and its parameters; `RESUME`, `PRECALL` and `CACHE`, which every part of the
builder skips, are left out of the code. An opcode without a handler, and an
exception in one, end the pass with `cleanBuild` false.

The builder was compared with `pycdc` on the programs of `MCStatements` and on
random ones, compiled by CPython 3.11; for the other versions, on code assembled
by hand. `SourceCompiler` was compared with CPython 3.11.

### Renderer, SourceParser, SourceCompiler: source and back

`Renderer` models `print_src` and what it calls as far as tokens go: which tokens
in which order, parentheses by `cmp_prec`, `global` lines, decorators, imports put
together. `SourceParser` reads the tokens with Python's grammar, `SourceCompiler`
compiles what was read. Compiling the printed source again and comparing code is
the whole of the promise, and catches a wrong tree as well as a missing pair of
parentheses.

### PycRef and Ownership: counted references

Models every constructor, assignment and the destructor of `PycRef`, and
`addRef` and `delRef` of `PycObject`. A slot is one reference: a variable, a field
of an object, or the argument of an assignment under way. A call is one step as
far as its first `delRef`; this may delete an object, whose fields are released
one by one (`dying`), and delete others, before an assignment stores its new
pointer (`Store`). What the program may call is `Call`: a field is named through a
variable that holds its object.

Two things the code does, each visible in the model. The move assignment
overwrites its pointer and releases nothing (pyc_object.h:56), so an object
whose reference is moved over lives for ever: `lost` counts this, and the code
does it, at ASTRender.cpp:1702 and ASTree.cpp:308. And the copying assignment
releases the old object before it reads the other reference again: with
`x = x->field` and nothing else holding the field's object, what is read would be
freed memory. `Call` has no such assignment, because the code has none: what reads
a field holds the object in a reference of its own.

`Ownership` says what users count on: an object lives as long as something refers
to it and no longer, save those that were moved over. Its variables are mapped
to `Referred`, the references without those being dropped, and `Overwritten`.

### What is owed

* `EachValueOnce`, `SourceOrder`: a value that was loaded is in the tree or on the
  operand stack exactly once, and the tree mentions values in the order they were
  loaded. The hard case is the conditional expression, whose values pass through
  two saved operand stacks.
* `NothingLate`: no statement goes into a block that has ended. Whether a block
  ends is decided at the end of an iteration and used in the next, and is skipped
  when a jump stands there.
* `NothingLeftOpen`: at the end of the code only the body is open and no value is
  left over.
* `Recompiles`: `build()` gets to the end, and what is printed of the tree compiles to
  the code it was read from.
* `ArmsAreSaved`, `NeverThrows`: on any code, compiled or not, each open arm has a
  saved operand stack, so the underflow exception is never thrown.
* `StatementsStay`: on any code, a statement that was put into a block stays in it, in
  its place. The hard cases are those where one block takes another's place: the end
  of an arm, an else that becomes an elif, a condition that joins the one before. Only
  an if without a body goes, for the conditional expression it is the condition of.
* `Terminates`: on any code `build()` comes to an end.
* `SpansOrdered`, `SearchNarrows`, `LookupExact`, `LookupReturns`: the cache is
  ordered for any bytes, and the search is right and ends.
* `LookupMatchesSource`, `CutTableNeverLies`: a lookup answers what the compiler
  wrote, and on a truncated table the truth or nothing.
* `NothingHalfLoaded`: whatever the bytes, when reading ends every object has all
  parts its type announces, and the fields of code objects have the types they
  are used as. The hard case is a reference to an object that is being loaded.
* `ReadBack`, `SharingKept`: a file that CPython wrote is read as the objects it was
  written from, in the layout of its version, and what was one object is one.
* `CutNeverLoads`, `Stops`: no file cut short is read as a whole one; reading ends.
* `OneAfterAnother`: on any bytes instructions follow one another, and the position
  counted by hand is the buffer's; `Ends`: they come to an end.
* `ReadsBack` of `MCInstructions`, `CutThrows`, `JumpsLand`: decoding undoes
  assembling for every opcode of every version, code cut inside an instruction
  throws, and jumps lead where they were meant to.
* `InOrder`: entries are in the order of their starts, which the cursor of the block
  machine relies on, also after insertions; after merging they do not overlap.
* `CoverageKept`: merging leaves every instruction its handlers, save that one that
  cannot raise may get its first.
* `ReadsBack` of `MCExceptionTable`: the entries are those the compiler wrote, of a
  cut table the first ones. `EmptyBodiesFound`: what gets a range is each empty body
  with an empty bare except, and nothing that has a range. `Ends`: on any table and
  code preparing the entries ends.
* `Recompiles` of `MCStatements`: the source written for a piece of straight-line code
  compiles to that code.
* `NothingPending`: when the code ends no target, value or mark waits for an
  instruction that never comes, and nothing is on the operand stack that the
  code did not leave there.
* `RunAhead`: once the first store of a parallel assignment is taken, as many stores
  to names as the builder still counts come next. The count is made by a scan
  that does not see what else looks at the same instructions.
* `EmittedStays`: a statement that was emitted is not taken back or changed, save
  the last one, which later instructions complete. `AllRead`: the pass reads the
  code to its end; the two forms it gives up on (`Beyond`) it reports.
* `EachReferenceCounted`, `NoDangling`: at every step, also while a release deletes
  objects, the count of an object is the number of references to it and of those
  that were moved over; no reference leads to a deleted object.
  `LivesAsLongAsReferred`: `PycRef` implements `Ownership`.
* `ValueKept`, `InBounds`: the text of an integer has the bits and
  the sign of the number, stays inside the string made for it, and the empty
  vector that `repr` would read is reached only by digits CPython never writes.

## Runs

| run | instance | why it is enough |
|---|---|---|
| line_table | tables of up to three instructions out of seven that between them need all five entry forms, negative line deltas, two-byte varints and splitting; whole, cut at every byte, and with a stray byte; any sequence of lookups at offsets inside, between and outside | the reader's only state is the running line and the position, so two neighbouring entries show every dependence; three give the search a middle |
| conditionals | the code of every source of two levels of if/else with all kinds of arms and five kinds of conditions, three levels with short ones; those that end in an if of two levels with arms that return None, return a value or go on, with nothing, a return or a shared `return None` behind it; `RegularRecompiles` on those without one of the misread shapes | a handler looks at the block on top, its parent, and the enclosing arms' ends; three open arms give each its case |
| odd_code | the code of smaller programs with one jump moved anywhere | one wrong jump already makes blocks overlap and end in the wrong order |
| marshal | what `MarshalWriter` writes, in every version that has a magic number, for a module with an inner function, shared names and containers; one with a list in itself and the module in its own constants; small 3.11 files cut at every byte, and with every byte changed to one of five | each layout, each type and each form of reference occurs; a byte changed to a reference, a dict or a flagged tuple makes references dangle, point into unfinished objects and shift |
| longs | every long of up to four digits out of five that have bits at both ends, some of five and of 33, both signs; two 64-bit integers | a digit lies across words from the third on, and the shift repeats after 32 digits |
| instructions | for each version: each opcode, arguments that need no prefix up to all of them, each jump forward and back over nothing and over more than a byte can count (until 3.11: from 3.12 on the targets are off by the caches, as a comment in bytecode.cpp:491 admits); four codes cut at every byte; every code of up to four bytes out of a prefix, an opcode of either kind and an unknown one | an instruction depends on the one before only through the prefixes |
| exceptions | the code and table of try statements with up to three calls, returns or (two of) inner tries in the body and three kinds of handlers, two in a row, and behind enough calls for numbers of two bytes; tables cut at every byte; two or three ranges with gaps, four handlers each, over every filling of the gaps with four kinds of instructions, and over code that ends before them; code that ends in a handler | merging and inserting look at two neighbours and at the words around them; three entries make a second round start from a merged one |
| statements | some two thousand programs for 2.5, 2.7, 3.8, 3.11 and 3.12: every kind of expression, target and statement alone, in a module and in a function, with global names and with cells; every two of the statements that set or use an accumulator, one after the other; bodies of classes with a method that refers to the class | the accumulators are all a statement leaves behind for the next one, so two statements show every dependence; versions differ in the instructions, and each that the handlers tell apart occurs |
| references | three objects of a field each, two variables, a reference moved over once for each object; any sequence of calls | two objects make a cycle and a chain; a third makes a release delete two others; more slots add nothing a third object does not |
| misread, misread_statements, bodies_found | a few programs each | counterexamples |

Fairness: `build()` and a lookup are plain calls of a sequential program, so once
entered they run on; `FairSpec` is weak fairness of the machine's own steps and
of nothing else. The same goes for reading a file, and for the step of
`StatementBuilder`. In `LineTable` the caller may stop asking, and in `PycRef` it may
stop calling: only what a call has begun goes on (`Proceed`), which is what
`Ownership` asks for, weak fairness of collecting.

`CHECK_DEADLOCK FALSE` where the machine stops when the code ends.

## What the runs found

Disagreements with what the README, comments and the test driver say, each
reproduced with the program:

1. *misread*: seven shapes of conditionals that are printed as source of other code
   than the one read.
   - `if a: b` `else: (if c: d); e`. The else holds nothing yet when the inner
     condition comes, so it is turned into an elif; `e` then runs after the whole
     chain, also when `a` holds.
   - `if a: (if b: c  else: return d)` `else: e`. The return closes the inner else;
     nothing opens the outer one, and `e` runs always.
   - `if a: b` `elif c: return d` `elif e: f`. The pending else of the middle branch
     starts with a condition and is given up, so `if e: f` becomes a statement of
     its own and is also reached from the first branch.
   - `(a if b else c) if d else e` loses its value: the inner one is put together
     only where a block ends before something that is not a jump.
   - `if a: (if b: c  else: (if d: e  else: f); return g); h` `else: i`. The first shape
     in the then-branch: the jump over the else closes blocks until it has popped the
     body. `i` runs always, and ifs behind it are not printed at all; the program ends
     without a warning.
   - `if a: b` `return None`. The return is taken for the implicit one and dropped; only
     jumps to it are counted, not what runs into it.
   - `if a and b: c` `else: return None`. The return, alone behind the if in the tree, is
     dropped too; compiled again, `a` and `b` jump to a copy each.
2. *misread_statements*: six kinds of straight-line statements are printed as source
   that compiles to other code.
   - `x, *y = f` followed by `x, y = a, b`: the `SWAP` that opens the second leaves the
     star of the first, and `x, *y = a, b` is printed.
   - `def g(): pass` followed by `g = d(g)` becomes a decorated definition, which
     evaluates `d` first.
   - `def g(*, p=1, q)` is printed as `def g(*, p, q=1)`.
   - `(a + b)(d)`, `(a + b)[d]`, `(-a)(b)`, `(a < b)[d]`, `(-a).b` and `(x := a).b` lose their
     parentheses: `cmp_prec` is not asked about what is called or indexed.
   - `from p import x` with `x` in a closure cell is printed as `x = x`.
   - `(y, z), *x = f` loses its star.
3. *bodies_found*: an empty try body gets a range only before a bare except that does
   nothing. `try: pass` `except E: x()` is lost, and what follows it too; `pycdc` prints
   the warning "Stack history is not empty!" and no statement.

Seen while modelling, with no run of their own:

- the mask that keeps the low flags of a code object from before 3.8 also keeps
  three of its future flags, which are then not moved (pyc_code.cpp:71);
- a 64-bit integer constant, as CPython before 3.4 writes it, is printed as
  `<TYPE: 73>` (bytecode.cpp:291);
- `pycdas` prints no target for `CALL_FINALLY` of 3.8, which bytecode_ops.inl lists
  as a jump, and takes `JUMP_IF_x_OR_POP` of 3.11 for absolute, where
  `handleConditionalJump` takes it for relative (bytecode.cpp:459, 520);
- the move assignment of `PycRef` leaks what it overwrites (above);
- straight-line code that `MCStatements` leaves out because it is not rebuilt:
  `x, y = a, b` before 3.11 (values reversed), `import p.q.r as x` and a chained
  assignment of `None` in 3.8, `{}[k] = v` (taken for the display), several keywords
  of a class with bases in 3.8, `a[:, None]`, `x.y: int = z`, a walrus to a global name, `assert`
  outside functions.

## What is proved

For every value of the constants:

| theorem | says |
|---|---|
| LineTable_proofs!TypeCorrect, CacheIsOrdered, SearchIsSound, LookupIsExact | for any bytes in the table, any first line and any sequence of lookups, the cache is ordered and a lookup returns a span exactly when one holds the offset |
| LineTable_proofs!LooksUpSource, CutTablesNeverLie | for a table of any number of locations with any lines and columns, every lookup answers what was written; cut off anywhere, it answers that or nothing |
| LineTable_proofs!EveryStepAdvances | on any bytes, each iteration of a lookup leaves less to read or to search |
| CodeBuilder_proofs!TypeCorrect | on any code whose jumps lead to instructions, the block stack is the body and arms of ifs that end in the code, and no position leaves the code |
| CodeBuilder_proofs!StacksSuffice | each open arm has a saved operand stack |
| CodeBuilder_proofs!NeverUnderflows | the underflow exception cannot be thrown |
| CodeBuilder_proofs!StatementsAreKept | statements stay in their blocks, also where blocks are replaced |
| CodeBuilder_proofs!EveryStepAdvances | a natural number falls with each step: `build()` ends on any such code |
| Marshal_proofs!TypeCorrect, LoadsWhole | on any bytes and any version, no number for an object dangles, and when reading has ended every object is whole |
| Marshal_proofs!ReadsWhatWasWritten, KeepsSharing, CutNeverLoaded | a file of any version with any number of objects, nested and shared in any way, is read without an error as what was written; a back reference is the very object it refers to; a file cut off anywhere is never taken for a whole one |
| Marshal_proofs!EveryStepAdvances | on any bytes, each step leaves less to read, or fewer loads to finish: reading ends |
| Instructions_proofs!TypeCorrect, Consecutive | on any bytes and any version, instructions follow one another without gap or overlap up to the last byte, the position counted by hand is the buffer's, and the argument stays an int |
| Instructions_proofs!ReadBackAsListed, CutIsNoticed, JumpsLandAsMeant | code of any length in any version is decoded as it was assembled, code cut off inside an instruction throws, and until 3.11 jumps lead where they were meant to |
| Instructions_proofs!NothingIsReadTwice | each step leaves less to read, on any bytes: decoding ends |
| ExceptionTable_proofs!ReadBackAsListed | a table of any number of entries with numbers of any size is read back, of a cut one the first entries |
| ExceptionTable_proofs!BodiesAreFound | in compiled code of any length each empty body before an except that does nothing gets its range, no range crosses another, and nothing throws |
| ExceptionTable_proofs!TypeCorrect, StaysInOrder, CoverageIsKept | on any code and any table whose ranges are apart and in order, the prepared entries are in order, and merging leaves every instruction its handlers |
| ExceptionTable_proofs!EveryStepAdvances | on any table and code, each round leaves fewer entries to deal with |
| StatementBuilder_proofs!RunsComplete | on any code, a parallel assignment that has begun finds its stores next, a value for each, and no unpacking open |
| StatementBuilder_proofs!EmittedAreKept | on any code, what was emitted stays, and only the last statement is completed |
| StatementBuilder_proofs!EveryStepAdvances | on any code, each step handles an instruction not handled before, or ends the build |
| PycRef_proofs!Invariant, CountsAreRight, NeverDangles | for any number of objects, fields and variables and any calls, counts are numbers of references and no reference dangles, also in the middle of a release |
| PycRef_proofs!Owns | the counting implements the safety part of `Ownership` |
| PycLong_proofs!TypeCorrect, PrintsTheNumber, StaysInBounds | a long of any length is printed with its bits and sign, inside its string, and the empty vector is read only for digits that are all zero |

*LineTable.* The inductive invariant adds to the four properties that the cache is
empty until it is built and that every stored span ends at or before the running
offset. That gives order when a span is appended, and with order each probe of
the search discards only spans that cannot hold the offset.

`Follows` is inductive for tables with a listing: the spans stored are the first pieces
of it, and the loop is where the next begins, with its line and its code units. That
needs each entry form read right (`EntryIsRead`); the hard one is a form of varints,
since the code's n-th varint is the one that ends with the n-th byte that does not
continue: `Walked` counts these bytes from one end to the next, and says that a table
cut off has fewer, so that the code throws there. A whole table is read to its end
(`EndsGrow`), and since the pieces leave no gap (`PieceAt`) an offset that is in an
instruction is in a span.

That a lookup comes back is two numbers in one, `Left`: an entry takes at least a byte
(`EntryEndsInside`), so the cache has no more spans than the table has bytes; and the
bounds of the search pass each other by one at most (`Shrinking`), so that what is left
of the interval is a natural number.

*CodeBuilder.* `ArmsAreSaved` is inductive with the types: opening an arm pushes a
copy; closing one pops at most one; the jump's own copy is owed to one of the
blocks it closes, which is the `push` of the invariant. `NeverThrows` follows: the
exception needs an open else and no saved stack once the jump's copy is used up.
`StatementsStay` follows from the types, action by action; the one fact it needs of the
state is that a condition joins a block that has no statements (`JoinsCondition`), since
the block is replaced. For the end of `build()`, `Left` counts the instructions left six
times, the open blocks, and the place within an iteration: an iteration opens two
blocks at most and takes an instruction, and a round of closing takes a block.

*Marshal.* The invariant keeps books on unfinished objects: each object that is not
whole is waited for by exactly one frame, and what it has and what the frame
still expects make up what its type announces. A back reference adds no object
and no frame; a new object that waits gets its frame in the same step; the frame
that has all leaves an object that is whole. When reading ends there are no
frames, so every object is whole.

`Follows` adds, for a file with a listing, where the reader is in it. Reading an object
it is at the start of a piece, and returning it is behind one (`OnObject`, `OnReturn`);
the frames are the pieces around that one, outermost first, each waiting for the part
that the next is (`Around`); the heap holds an object for each piece begun, filled as
far as the parts read (`Objects`); and both tables hold exactly what the pieces so far
have entered (`Tables`). The last one is what back references need: a table is indexed
by how many entries went before, so an entry made late or left out anywhere breaks it.
A piece read moves the tables on by one (`TablesStep`); a piece behind which a frame
waits is a part of that frame's piece (`ComesBack`), and is its last or is followed by
the next. Nothing fails in a whole file, since all that a piece needs is there
(`WholeReadable`, `WholeNumber`, `WholeField`), and `Follows` says so of `failed`. In a
file cut off the position never passes the end, but the end of the first piece, where
reading could be done, does. What is written and read is the same by `AsWritten`.

For the end of reading, `Ahead` weighs the bytes not read five times, with the frames
and the place in a load: each object takes a byte at least, which pays for the frame it
may add (`LoadsAdvance`), and an object that comes back ends a frame or sends it on
(`TakesAdvance`). No position passes the end of the file, so it is a natural number. A
reference to an object being loaded takes its bytes like any other.

*Instructions.* Inside a call, `start_pos` is where the last instruction ended, and
before the lower half of an argument is read the upper half leaves room for it.
The lemma `Step` says what all steps of a call share; each action is shown to be
one. `Following` adds, for code with a listing, that the instructions read are the first of
it and that inside a call the argument so far is the upper part of the listed one
(`MidWords`, `MidBytes`): a prefix takes the next digit (`DigitsStep`). That the code's
tables and CPython's say the same of every opcode is shown version by version
(`TablesSplit`, `TablesAgree`). `Left`, the bytes left and the place in a call, falls
with each step.

*ExceptionTable.* `InOrder` and `CoverageKept` are inductive with the types. Merging:
ranges that are apart stay so, since the joined one ends where one of its two
parts did (`MergedApart`); in the gap no range of the table lies, since it would
have to be between two neighbours (`GapUnprotected`), and elsewhere the joined
range protects what its parts did (`MergedHandlers`). Inserting: before its place
everything starts no later, from its place on no earlier (`InsertedSorted`). Reading
back: the layout of a table says of each byte which digit of which number it is, so at
each byte the number read so far is the listed one without the digits to come
(`Midway`), and with the last digit it is the number (`LastDigit`, `EntryIs`).

`EmptyBodiesFound` is about compiled code, which `HandlersWritten` describes: what stands
around a handler that does nothing, and behind any handler. `Preparing` follows the
entries from there. While they are merged each begins with a listed one, the handlers'
own entries are untouched, and each listed entry has one that stands for it
(`AllListed`), so a body is missing after merging only where it was missing in the table.
The ranges put in are of one instruction, which merging may have covered but where no
entry begins; so, as all ranges are of whole instructions, each is inside of what comes
before it or apart (`InsertedNested`, `Evens`). Erasing takes none of them, since what
handles them is no `END_ASYNC_FOR`.

`Left` pays beforehand: a byte for the entry it may end, an entry for the merge and for
the range put in for it (`FewBodies`: no more ranges than entries) and its erasing. So
the loops that start over from the first entry end, where `Ends` needs the fairness only.

*StatementBuilder.* The scan counts a run of stores to names before the first of them is
handled. `RunAhead` is inductive with the types of code and accumulators and with
`StoredBefore`, that within a run the instruction before is a store: then the next
one is no walrus, whose copy would have to stand there, and of all actions only
`tupleStoreStep` can take it (`RunTakesTheStore`). The steps of other actions leave the
three variables alone (`OthersLeaveTuples`). Where a run ends is the least position
of a set, which `LeastExists` takes from the well-foundedness of `<`.

`EmittedStays` compares the statements of a block with those after the step, so it needs
to know that there are sequences at all: `Shaped` says that the operand stack is a
sequence of values, none of them a statement, the open blocks one of blocks whose
statements have what later instructions complete, and `unpackNest` one. Each handler is
shown to give a stack of values from a stack of values, whatever is on it, an empty one
too (`Kept`). Those that put a statement back that they took off (`Decorated`,
`append_to_chain_store`, `StoreAnnotation`, print) put it in the same place, and a value
is no statement, so what they complete is the last. Two operators are recursive
functions, `Hoisted` and the tuples that `StoreUnpacked` joins; the prover knows such a
function only once one is shown to exist, which the proof does by the least length for
which there is none.

*PycRef.* The invariant adds to the count that an object is alive as long as its
count is not zero, that fields of deleted objects are on their way out
(`FieldsDie`), and that the slots an assignment will still use outlast the release
that comes first (`Assigned`): they are variables, or fields of what another
variable holds. `CountChanges` is the one fact about cardinalities: a slot's change
moves one from one object's count to another's. For `Owns`, a call that binds or
moves is `Bind` or `Move`, taking a slot to its death is `Drop`, a release that deletes
is `Collect`, since with a count of zero nothing refers to the object, and any other
release changes nothing that `Ownership` sees.

*PycLong.* After each round `15 * i = 32 * Len(bits) + shift`, and the bits put away
and those in `temp` are those of the digits taken; the rest is where a digit's
bits go when it lies across two words.

Assumptions: `FilesAssumption` of `Marshal` (a file is a sequence of bytes),
`LongsAssumption` of `PycLong` (as many words as the size says, of 16 bits),
`CodesAssumption` of `Instructions` (code is a sequence of bytes),
`CodesAssumption` of `StatementBuilder` (code is a sequence of instructions, whose operands
are natural numbers and for `KW_NAMES` a tuple of names), `SlotsAssumption` of
`PycRef` (finitely many slots, and none of them two things),
`CodesAssumption` of `ExceptionTable` (the table is a sequence of bytes, the code one
of words), `CodesAssumption` of `LineTable` (the table is a sequence of bytes),
`OffsetsAssumption` (offsets are integers), `CodesAssumption` of `CodeBuilder` (jumps
lead to instructions); and `ListingsAssumption` of `Listing`, `TableListing`,
`LocationListing` and `MarshalListing`, and `HandlersAssumption` of `TableListing`: what comes
with a listing is laid out as CPython lays it out. TLC evaluates it for every code, table and file of the runs, whose listings
the writers compute. `LayoutAssumption` of `MarshalListing` is a statement about
finitely many versions without a constant, left to TLC, which decides it.

Only model-checked: liveness (`Terminates`, `LookupReturns`, `Stops`, `Ends`, `AllRead`, and
that objects go in the end, in `LivesAsLongAsReferred`), which is out of the prover's
reach, though for `Terminates`, `LookupReturns`, `Stops` and `Ends` a theorem says that each
step makes a natural number fall, so that only fairness and the absence of a deadlock
are left to TLC; what recursive definitions compute (`Recompiles`, `RegularRecompiles`,
`EachValueOnce`, and that what the writers write has the listings
it comes with), since that needs induction over data; `SourceOrder`, `NothingLate`,
`NothingLeftOpen` and `NothingPending`, which hold of compiled code and
not of any, and compiled code is what a recursive compiler writes.

## Plan

In this order:

1. *Loops* on the block machine: for, while and their else, break and continue.
2. *Try, except, finally, with* in their plain forms, on the entries that
   `ExceptionTable` prepares.
3. *Placement*: a statement is never put before the line already reached.
4. *Proofs*: of `NothingLate` and `NothingLeftOpen`, from a description of structured
   code that is not recursive.

## Not modelled

- In straight-line code: `*args` and `**kwargs` parameters and positional-only ones,
  `async def`, comprehensions inlined by 3.12, the no-op lines that a signature over
  several lines needs, and the names of private attributes.
- In conditionals: values that are kept over a jump (`a and b` as a value, chained
  comparison), conditions that mix `and` with `or` (a pre-scan of their own,
  `orReconStep`), and where the parts of a condition were on several lines.
- Loops, try, with and match statements, comprehensions: recognised by some eighty
  scans over whole instruction patterns, made before the pass, that refer to one
  another. A model of one of the forms would stand on most of them.
- ASTFaithful.cpp: the passes of `Epilogues` on loops and try statements, and text placed
  by line and column; the promise it serves, the same lines, is one about
  characters.
- Wording, blanks and indentation in ASTRender.cpp; the command line tools.
- The block machine before 3.11, where a block's end is an instruction.
