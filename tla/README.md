# A verification project for not_python

not_python is a compiler: it reads a program in the syntax of Python, writes
it out as C, and runs the C compiler on that. The output is linked with a small
runtime (`not_python.c`: lists, dicts, strings, exceptions). This directory
holds TLA+ modules that model parts of both, TLC configurations that check
them, and proofs for TLAPS. `PROJECT.json` lists every component, run,
mutation, mapped definition, hazard and theorem.

## Inventory

Paths are under `src/src`. Nothing in the program runs concurrently: the compiler
is one thread, and so is the program it writes. What is hard is memory shared by
many growing structures, jumps through compiled code with a global exception
state, tables that are read at a position found before they changed, and limits.

| component | state | operations | what makes it correct | modelled in |
|---|---|---|---|---|
| arena (`arena.c`) | chunk flags, dynamic region with size tags, static chunks | alloc, realloc, finalize, free, static alloc, copy | blocks never overlap, tags and flags stay exact, contents survive resizing and freezing | `Arena` |
| vectors, instruction sequences (`lexer_helpers.c`, `compiler.c`) | count, capacity, a block of the arena | append, finalize | they are clients of the arena: append only inside the block | as clients of `Arena` |
| scanner, token queue (`lexer.c`) | position, open brackets, queue of 8 | scan, peek, consume, unread | look-ahead fits, nothing consumed twice, newlines in brackets dropped | `Scanner` |
| symbol tables (`hashmap.c`) | elements, lookup table, both in one arena block; `finalized` | put, get, grow, finalize | first occurrence kept; lookups find everything put; block freed once | `SymbolTable`, without finalizing |
| scopes (`lexer_helpers.c`) | stack of at most 10 scopes | push, pop | every name bound in the scope Python binds it in; closed again | `ParseStatements` |
| statement parser (`lexer.c`) | indentation stack, `in_loop`, one-shot rule, class members, scope stack | one parse function per statement and per form of expression | what is accepted is the language, and comes back as written | `ParseExpressions`, `ParseStatements` |
| object model (`object_model.c`) | none | method of a name, of an operator, signatures | agrees with what is compiled | `ObjectModel` |
| expression table (`lexer_helpers.c`) | operands, operations per precedence | push operand, push operation, sort | Python's precedence and associativity | `ExpressionTable` |
| type checker (`type_checker.c`) | none | resolve the type of an operation | refuses what has no meaning, never anything else | `Types` |
| expression compiler (`compiler.c`) | record of computed values by operand, storage of results | compile the next operation, calls, builtins | each operation is applied to the values Python applies it to, in Python's order | `Rendering` |
| statement compiler (`compiler.c`) | types of variables; sequence stack, label of the current try, its scope | one compile function per statement | assignments mean what they mean in Python; control leaves and reaches each statement as in Python | `Rendering`, `Statements` |
| closures (`compiler.c`) | closure offsets, closure record | assign offsets, create, free | distinct offsets; freed once and not while used | no |
| C writer (`c_writer.c`) | text sections, waiting functions | write an instruction | what it writes is C and does what the instruction means | `Statements`, `Machine`, by meaning |
| exception state (`not_python.c`) | `current_excepts`, `global_exception` | set, get, compiled save and restore | a pending exception is seen at once and by the right handler | `Statements` |
| runtime list (`not_python.c`) | data, count, capacity | append, insert, extend, pop, remove, index, sort, multiply, iterate ... | nothing written outside the allocation; it is Python's list | `List` |
| runtime dict (`not_python.c`) | data with tombstones, lookup table, count | set, get, pop, del, update, clear, grow, shrink, iterate | every key set and not deleted is found, once | `Dict` |
| strings, numbers, print (`not_python.c`) | none that changes | add, multiply, compare, convert, print | Python's results | `Values`, `Machine` |
| string constants (`compiler.c`) | elements and lookup table | put, grow | equal literals get one index | no |
| driver (`npc.c`), diagnostics, debug | none that lasts | parse options, fork the C compiler | — | no |

The parser pushes operands and statements into vectors whose blocks come from the
arena, finalizes the vectors into static memory, and enters names into the symbol
tables of the scope stack. The compiler walks the statements, looks names up in the
same tables, and appends instructions to the top sequence of a stack of
sequences, again blocks of the arena. The writer turns finished sequences into C.
The compiled program calls the runtime, which reports an error through the two
global variables of the exception state; the compiled code checks one of them
after every call.

## Modules

| module | models |
|---|---|
| `BlockStore` | what the arena promises, with no chunks, flags or tags |
| `Arena` | `arena.c`; refines `BlockStore` |
| `ArenaProofs` | theorems about the dynamic and the static half of `Arena`, and the proof that it refines `BlockStore` |
| `Scanner` | the scanner and the token queue, over lexemes |
| `SymbolTable` | the hash table of a scope |
| `SymbolTableProofs` | theorems about it |
| `ParseExpressions`, `ParseStatements` | the parse functions of `lexer.c`, over `Scanner`, `SymbolTable` and `ObjectModel` |
| `ObjectModel` | the special methods of classes and their signatures |
| `SourceText` | the grammar of the language, the names a program binds and what is legal: the reference for the parser |
| `Parser` | the parser reading a file, and its properties |
| `ExpressionTable` | the expression table of the parser, its sorting, and `render_expression` |
| `Expressions` | Python's tree of an expression, and the properties of `ExpressionTable` |
| `ExpressionProofs` | theorems about `ExpressionTable`, and that it computes Python's tree |
| `SourceStatements` | the statements of the language, and where each may stand |
| `PythonMeaning` | what Python means by them |
| `Statements` | `compile_statement` and below for control flow, the instructions written as C, and that C running on the exception state |
| `CompiledMeaning` | that the C program does what `PythonMeaning` says |
| `StatementProofs` | theorems about `Statements` |
| `MeaningProofs` | the proof of what `CompiledMeaning` says |
| `SequenceFacts` | induction over numbers, and what `FlattenSeq` returns, for the proofs |
| `Types` | types and the type checker |
| `Trees` | programs as trees, and the `Expression` the parser makes of one |
| `Rendering` | from assignments and expressions to instructions |
| `Values`, `Machine` | values, and what the instructions do as C with the runtime |
| `PythonValues` | what such a program does in Python: the reference |
| `Assignments` | compiling, writing and running a program, and its properties |
| `PythonList` | what the runtime list promises |
| `List` | the list of the runtime; refines `PythonList` |
| `ListProofs` | theorems about `List`, and that it refines `PythonList` |
| `OrderedMap` | what the dict promises: an ordered map |
| `Dict` | the dict of the runtime; refines `OrderedMap` |
| `DictProofs` | theorems about the lookup table of `Dict`, its array and its iterators, and the proof that `Dict` refines `OrderedMap` |
| `MC...` | values of the constants for TLC |

The pieces meet at interfaces that are the same on both sides. `ParseExpressions` gives the operands and operators an
expression table is filled with; `ExpressionTable` says what sorting makes of them; `Trees` starts from sorted
operations. `Machine` runs on lists and dicts as `PythonList` and `OrderedMap` describe them, which `List` and `Dict`
implement.

Operators described as deviations (for instance `AllButLastFree`, `Unchecked`) are
what an operator would be with a plausible bug. No specification uses one: put in
place of the operator they deviate from, each breaks a property.

### Arena

Memory is a function from chunk and word to a number. A word is `sizeof(size_t)`
bytes, so the size tag is word 0 of a block's first chunk, and
`Required` is `REQUIRED_DYNAMIC_CHUNKS` in words. `held` and `size` are not in the
code: they are the pointer each client keeps and the size it asked for last.
`dynamic_chunks_in_use` is an array inside a calloc'ed struct, and
`find_dynamic_chunk` compares past its end; what it reads there is a free choice
(`slack`). When the choice makes it return a block that crosses the end of the
region, the behaviour stops in `Overrun`. `arena_dynamic_realloc` returns in four
ways, one operator each; `DynamicFinalize` is the copy and the free. Clients keep to
the interface: they use only blocks they hold. The code does not always, see
*Hazards not covered*.

### Statements

A statement is a record, and an expression only what it does to control: print,
raise, call, or a test whose outcome the environment picks. `CompileStatement` follows the
functions of `compiler.c` and produces flat instructions: the braces the
writer puts around a block are pairs that share an id. It is a recursive function over `Statement`, the statements that may stand in
each place (`Place`: in no loop, in a loop inside or outside of the innermost try, in a try or not), which for a run is the
set of the statements of its programs. Ids are positions
in the source instead of the counter behind `UNIQUE_ID`. The second half is the C program
running: a stack of frames, and the two globals of the runtime. `SetException` is
`set_exceptionf`: a type outside `current_excepts` ends the process. `main`
ignores what `init_module` returns (`ModuleReturns`). `PythonMeaning` is the reference, and
knows nothing of labels, masks or instructions. It follows a program as deep as it is told to, so that it is a function over numbers:
what is not over at depth n is `Unfinished`. `Patience` is the depth the properties follow to, and `MeansTheSame` speaks of the
programs that are over by then (`Finished`).

### Expressions

`ExpressionTable` has one action per push of the parser, the sorting of `et_to_expr`,
and one action per operation compiled. A value is the tree of the operations that compute it.
`lookup` and `record` are the two arrays of `ExpressionRecord`. Operands are counted
from 1; the left operand of a unary operator that comes first, which the code computes
as `0 - 1` and does not use, is 0.

`record` is a sequence that holds what the code writes, where it writes it. The array behind it (`RecordSize`) has a cell less than there are operations, and an
expression of one operation has none (`KeepsRecord`): the value of the last operation is written behind the array and read back as the result, for every expression
of two or more operations (`compiler.c:2805`, 2833, 2852). `TypeOK` states this: of several operations the last one, and no other, makes `RecordFits` false, and
every operand that is looked up lies inside the array. Built with bounds checks, the compiler stops at `1 + 2 * 3`. Every other statement about expressions, here and in `Assignments`, is about builds in which that cell keeps what is written to it.

`Expressions` says which tokens are an expression of Python's
(`Grammatical`) and defines its tree (`PythonTree`): the operator that binds loosest is the root, the tokens on each side of
it are parts with a tree of their own. It also defines `Adjoining`: every operation finds its operands right beside it.
The definitions are recursive functions over the parts, given by their first and last token, so that theorems can speak of them.

### Parser

A text is a sequence of lexemes. `Scanner` drops comments everywhere and newlines inside brackets, counts brackets,
records the text of an assert, and keeps the token queue. All parser state is one record that each operator takes and
answers; `refused` is the exit at the first error. The parse functions of `lexer.c` keep their names and their
order of tests; what they push, peek and consume is theirs. `Parser` has one action per call of
`parse_statement`: a statement read, the end of the file, an error.

`SourceText` is written from the language, not from the parser: `Written` puts a program down as lexemes, plain or spread over
lines with comments and brackets, `FileParsed` says what should come back, `Bindings` which names each scope binds,
`Legal` what is accepted. `Delicate` lists the programs this parser is known to treat in a way of its own; the properties leave
those out and hold for all others:

* `in_loop` is cleared behind an inner loop, so `break` after one is refused; and `break` in a function defined in a loop is accepted;
* going back to the outermost column leaves the indentation stack as it was, so a later block in another
  column is accepted or refused by the depth of an earlier one; so are blocks of one statement in different columns;
* an inner try with else and without finally takes the finally of the outer one (`lexer.c:1433`);
* `global` as the last statement of a block takes the next outer statement in;
* a bracket behind `and`, `or`, `not`, `in`, `is` is read as a call or a subscript;
* a file that ends inside a block without a newline is refused; `x=-1` is scanned as `=-`;
* a keyword argument before a positional one is accepted and bound wrongly; a trailing comma in a call is refused;
* brackets need not match in kind (`[1)` is read as `(1)`, `(1]` as the tuple of 1), and two expressions side by side (`a b`) are accepted;
* whatever is assigned to is declared unless an operation computes it, so `1 = x` declares a variable named 1; the expression in front of the colon of an annotation need not be
  a name either, and any operator is taken for its `=`;
* no signature of `__iter__` is accepted, and the parameters of `__bool__` are not looked at.

### Assignments

`Rendering` follows `compiler.c` from a statement to instructions: every kind of operand, operator, builtin
method, call, object creation, list, dict, subscript and attribute, and where the result is stored. `Machine` says what each instruction
does once `c_writer.c` has written it: conversions and operators of C, functions of the runtime, an exception that ends the
statement. Whether the C compiler takes it (declared once, before use, operators on types that have them, functions the library defines) is `CCompiles`. Programs marked `local`
are bodies of functions: their variables without a value are locals, declared before the body, where C takes no second declaration (`DeclaresLocal`). At the top of a file it does. `PythonValues`
runs the same trees with Python's rules. User functions are the same on both sides (`Body`); floats are counted in quarters, the text of a
string is abstract. The models were compared with the real compiler and its output while they were written.

Each program of the run carries what is expected of it: `python` (means the same), `strict` (refused because the language
is stricter than Python), `differs`, or `unwritable` (accepted but not C). The last two are known
departures, and the properties check them too: such a program must really end otherwise. They are:

* an assignment stores its value before the check for an exception: a call that raises leaves 0, "" or NULL in the target;
* the record of computed values notes a result under two operands only: `1 - 2*3*4` and `f(1,1) - f(2)*2` use an operand or a value twice;
* calls are compiled before the variables beside them are read: `g + f(5)`, `g += f(5)`, an attribute `+=` with a call; an item assignment
  evaluates its target first;
* results are written straight into the target: `p = P(p.n + 1)` and `x = [5, x[1]]` read the new one;
* `xs += ys` and `xs *= n` make a new list; a copy has no comparison functions, so it cannot be sorted or searched;
* `and` and `or` evaluate both operands and give a bool; on strings they, and `!=`, are refused by C, as are `in` and `list.pop` into
  an item, or into a local in the body of a function, which is declared again;
* a list of floats is not linked: its function for sorting backwards has another name in the library;
* `==` of lists is identity; `//`, `%`, `/` by zero or of negative numbers, and `**` follow C;
* a variable that was declared and never assigned reads as 0 or NULL;
* default arguments are evaluated at each call; list builtins ignore the names of keyword arguments.

Programs on which the compiler itself reads outside its arrays are not in the run: a class with `__init__` and defaults for some of its
parameters only, `i: int = 1; i = [1]`.

### List

Cells count from 1, positions from 0, as the program gives them. Cells behind the last item hold `Garbage`, so that reading one shows. A write
behind the allocation makes `data` longer than `capacity`. Operations that leave the allocation or call a
function that is not there end the behaviour: `extend` and `add` beyond the capacity (`ExtendOutside`, `AddOutside`, which write the items
behind the allocation first, and are what `WritesInside` leaves out), a negative product
(`MultNegative`), the next item after removals in the loop (`NextOutside`), searching a list without comparison functions (`Unsearchable`).
`PythonList` is Python's list with three freedoms: a search may answer any of equal items (the code answers the
last), `insert` takes only the position of an item, and `sort` may refuse. A failing insert still grows the
allocation. The product of an empty list multiplies its capacity, which `Thrifty` exempts.

### Dict

`data` is the array up to the last item entered, with `Tombstone` where one was removed, and
`lut` the lookup table, whose slots hold indices from 1 and 0 for the `-1` of the code.
`Distance` is how far a slot is from the home of a key, so the slot at which a probing loop ends
is the nearest one at which it stops (`FoundAt`, `FreeAt`). `lut_capacity` always is twice
`capacity` and is derived from it. The loop that moves items when the dict grows or shrinks takes one
step per item (`MoveItem`), between a first step that resets the table and a last one that resets
the tombstones; nothing else happens meanwhile. `update` queues its items in `todo` and
sets one after another, as `np_dict_update` does.

`room` is what was allocated: `np_dict_grow` and `np_dict_shrink` ask for eight bytes per item, not
`item_size`. The first access outside ends the behaviour (`status`), and so do reading the old array in
`d.update(d)`, copying more than there is, and the write of `np_dict_del` in front of the array: the outcome is up to
the allocator. What the properties say holds until then.

With `Careful` set, a program removes a key only if no other was entered past its slot, or if the removal
compacts the dict at once; and a loop over a full dict with tombstones replaces no value. Loops never add or remove
keys, which Python forbids.

## What is checked

| run | shows |
|---|---|
| `arena` | three clients, four chunks of three words, stride 2, sizes that need one and two chunks: `TagsIntact`, `BlocksDisjoint`, `FlagsExact`, and refinement of `BlockStore` |
| `arena_static` | one client and three static allocations, on both sides of the small-chunk size: `StaticsDisjoint`, and refinement with frozen blocks |
| `arena_overrun` | **violated**: `InsideRegion`; the search hands out a block past the end of the region |
| `parser` | 2192 files, plain and spread: `ParsesBack`, `AcceptsLegal`, `NamesBound`, `NamesFound`, `LooksTwoAhead`, `NothingLeftOpen` |
| `expressions` | 1720 expressions: `AdjoiningIsRight` (773 of them adjoin), `CallsComeInOrder`, and `TypeOK`: operands are looked up inside the record, and the last of several operations is written behind it |
| `expressions_lost` | **violated**: `AlwaysRight`; an operand stands in for a value computed from it |
| `statements` | 189 programs with four free tests: `MeansTheSame`, `CheckedAtOnce`, `ExceptsRestored`, `Terminates` |
| `statements_leak` | **violated**: `ExceptsRestored` when a try block is left by a jump |
| `assignments` | 6956 programs: `MeansPython`, `RefusesTypeErrors`, `WritesC`, and values of the declared types |
| `list` | `WritesInside` (while the behaviour has not ended), `NoGarbage`, `Thrifty`, and refinement of `PythonList` |
| `dict` | careful programs: `KeysFound`, `CountsExact`, `IteratorFindsRest`, `GrowsInTime`, and refinement of `OrderedMap` |
| `dict_lost` | **violated**: `KeysFound`, when any key may be removed |

Bounds and why they are enough.

*Arena*: with four chunks and blocks of one or two,
a block can grow in place, be blocked and move, meet the end of the region,
shrink and find the region full; `MaxStatic` bounds static allocations, and three fill
a chunk, start another and put a large one between. The proofs lift the invariants to all sizes.

*Parser*: every form of expression is put inside every form once, every statement into every block, and each rule is broken in one
file at a time. Indentation and scope stacks hold 4 instead of 10, and there are files one deeper than that. Symbol tables
start with room for two names and grow to 5 and 10, so that programs make them grow twice; `MCHash` gives three clusters of names that collide.

*Expressions*: five operands reach every shape in which an
operation stands between two others; the operators have six different precedences,
pow among them.

*Statements*: the programs of `ContainedPrograms` put every kind of statement
into every other that matters to jumps, and call helpers that raise, return early or try themselves;
`MaxTests` bounds the free tests: the ones after it come out false, so four allow two passes of
a loop with a branch each. `Patience` is 30; TLC evaluates the assumption that every program of the run is over by then however its tests come out
(`ProgramsFinish`), so `MeansTheSame` leaves none of them out.

*Assignments*: every operator on every pair of eighteen operands, which are literals and variables of every type; then programs of up to six
statements for every kind of target, call, builtin and order of evaluation. The heap holds lists of lists, objects in lists and in objects,
and two variables for the same type, so that sharing shows.

*List*: smallest capacity 4 instead of 10, growth up to 8 (`MaxCapacity`); two items, so that equal items occur; indices on both sides of
both ends; factors below, at and above the ones that change nothing. Growing, shrinking back and a loop over a list that changes all happen.
The proofs lift the invariants and the refinement to all capacities.

*Dict*: a smallest capacity of 4 instead of 10, with a shrink threshold of 51 percent so that, as in
the code, a removal may leave a tombstone; four keys, whose hashes make one cluster around the end of the table
and fall apart when it grows; items of 10 bytes (int to bool), which leave room to go on after growing and
shrinking, and of 17 (int to int), which do not. `MaxCapacity` stops growth at 8, once past the smallest: with
four keys the next size could only be reached through tombstones.

`ContainedPrograms` is a real restriction. Its try statements have no else block
(the code does not compile it), are left by falling off their end, raise in the body only
what they catch, and raise nothing in except and finally blocks. Outside it the code is
known to differ from Python: `statements_leak` is one case, the others are hazards.

Fairness: `Spec` of `Statements` assumes weak fairness of `Next`, a process that is not blocked
keeps running; nothing in the compiled program waits. No other specification needs fairness.
Deadlock is not checked where the behaviour ends: the compiled program exits, a file is read, an expression is done, memory is gone.

## What the violations mean

* `arena_overrun`: near the end of the dynamic region `memcmp` reads flags behind the array. If they
  read as zero, the block returned reaches past `dynamic_region`.
* `statements_leak`: after `return` inside `try`, `current_excepts` keeps the mask of the try
  statement for the rest of the run. An exception of that type raised later without a handler does
  not stop the program with an error: each frame returns, and `main` exits with 0.
* `dict_lost`: `d = {3: 30, 5: 50}` puts 5 behind 3 in the table. After `d.pop(3)` the probe for 5 stops at the
  emptied slot: `d[5]` is a KeyError, and `d[5] = 51` enters 5 a second time.
* `expressions_lost`: `1 + 2 * 3 * 4` prints 7. The sum looks up the operand `2`, whose
  entry still is `2 * 3`.

Two more departures are not runs of their own, because what the code does is written into what passing runs check:

* the record of an expression is one cell short (`TypeOK` of `expressions`): of `1 + 2 * 3`, the product is written to its one cell and the sum behind it, on the stack of
  `render_expression`;
* `extend` drops the pointer `np_realloc` returns (`not_python.c:336`): a list of six items of ten cells, extended by five, keeps its pointer and its capacity of ten and
  counts eleven items. If the allocation moved, freed memory is written to; if not, the memory behind what the list takes for its allocation.

## What is proved

For every number and size of chunks, stride, set of clients and sizes
(`ArenaAssumption`: positive naturals), TLAPS proves

* `ArenaInvariant`: `Spec => []IInv`,
* `TagsStayIntact`, `BlocksStayDisjoint`, `FlagsStayExact`: the three
  safety invariants of the run `arena`,
* `StaticsInvariant`: `Spec => []SInv`, and from it `StaticsStayDisjoint` and, with `IInv`, `ArenaTypes`,
* `ArenaRefinesBlockStore`: `Spec => RefinesBlockStore`.

`IInv` is the conjunction of the three and of the types of the dynamic half. It
has to be: the allocator frees and moves as many chunks as the tag says, so flags are exact
only if tags are intact; a fill leaves tags alone only if blocks are disjoint and inside the region;
and a new block is disjoint from the others only if the flags are exact. The proof has one step
per action; growing, shrinking, moving and freeing each rest on a lemma about `MarkFrom`
and `Cells`. `SInv` says that every static chunk is used up to its head and clear behind it, and that every block handed out
lies in the used part of its chunk, apart from all others. A new block is apart because it starts where its chunk was
used up to (`FreshIn`). Finalizing needs `IInv` as well: it copies as many words as the tag says, from inside the region.
The refinement needs both, and that no block is empty. Each operation has a lemma that says what the client at work and every other
client read before and after it; a write to one block is not read in another because no two words of disjoint blocks share a
cell (`CellsDiffer`), and moving or shrinking keeps as many words as both blocks have.

For every set of keys, hash function, capacity, threshold and size of items of at least 8 bytes (`DictAssumption`; only `dict[bool, bool]` has smaller ones), and programs
that are `Careful`:

* `DictInvariant`: `Spec => []IInv`,
* `KeysStayFound`, `CountsStayExact`: the invariants `KeysFound` and `CountsExact` of the run `dict`,
* `BoundsInvariant`: `Spec => []BoundsInv`, and from it `DictTypes`, `DictGrowsInTime` and `IteratorsFindRest`,
* `DictRefinesMap`: `Spec => RefinesMap`.

Its `IInv` says that used slots lead to items of their own (`SlotsLead`), that every item has one (`Reached`), that
no slot a probe passes on its way is unused (`Unbroken`), and that no key has two items. `Unbroken` is what makes a probe arrive, and what
the removal of an item another was entered past destroys; entering a key keeps the keys distinct only because
the probe for a key in the dict cannot fail. That a new item gets the index the table notes needs exact counters. The proof has
one lemma per operation, and four that count the items of an array.
`BoundsInv` adds the sizes (the array fits the allocation, which never exceeds the capacity) and where an iterator stands:
between operations it has as many items in front of it as it has not yielded, and while the dict grows under it,
which a careful program lets happen only without tombstones, the next index to yield is the number of those yielded plus one.
The refinement maps the array, and what is left to be moved to it, to the sequence of its items without the tombstones (`Live`).
Its lemmas say what appending, replacing, removing an item and dropping a tombstone do to that sequence; they rest on one that every number up to the number of items
is the rank of one item (`RankReached`), a counting argument, as induction over the array is out of reach.

For every set of items and every smallest capacity of at least 4 (`ListAssumption`):

* `ListInvariant`: `Spec => []IInv`: while the list is running, the count is below the capacity, the allocation has as many cells as the capacity says, and the first
  `count` hold items; once an operation has ended the behaviour, what that operation left,
* `ListWritesInside` (of everything but an `extend` or `add` beyond the capacity), `ListNoGarbage`, `ListTypes`: the invariants of the run `list`,
* `ListThrifty`: the action property `Thrifty`,
* `ListRefinesPython`: `Spec => RefinesList`.

That the count stays *below* the capacity is what the invariant is about: `append` checks for room after it has written, and `del` moves one
item more than there is, so both need a cell to spare. The refinement has one lemma per operation:
what each loop of the code leaves in the cells is what the operation on sequences leaves in the sequence of the first `count` of them.
The product and the searches need that the cells of the invariant are items; nothing else of the history of a list matters.

For every expression whose operators are those of the table, of any length (`SourcesAssumption`), and any operands that are containers,
none with the name of an operator (`ContainersAssumption`, which keeps the leaves of trees apart from their nodes):

* `ExpressionInvariant`: `Spec => []IInv`: each operation stands in the vector of its precedence and names operands that were pushed, or the one it
  waits for; once sorted, the operations are those of the table, in the order of their vectors, and the record has a value for each compiled so far,
* `ExpressionTypes`, `CallsStayInOrder`: the invariants `TypeOK` (with the array of the record, and that it is overrun by the last of several operations, by one cell) and `CallsComeInOrder` of the run `expressions`,
* `OperationsRecorded`: `Spec => []MeaningInv`, what the table and the record hold of an expression,
* `ExpressionsMeanPython`: the invariant `AdjoiningIsRight` of the run: what is compiled is Python's tree, wherever operations adjoin their operands.

That calls come in order is a matter of what sorting keeps: the vector of calls is filled from left to right and laid before the others, so
the proof needs what `FlattenSeq` returns. `SequenceFacts` proves that by induction. The induction theorems of the library take an operator, which
the provers cannot instantiate; induction over a set of numbers (`InductionOnNat`, from the fact that `<` is well-founded) does the same.

`MeaningInv` relates the table to the tokens read (`ReadFrom`: which operand is which token, which operation which operator), then the sorted
operations to the operators (`SortedFrom`), and the record to the operations: `lookup` names the last operation recorded for each operand (`IsLast`),
and each record holds its operation applied to the values looked up before it (`Kept`). That this is Python's tree takes four more facts about the parts of an expression:

* where operations adjoin their operands, a prefix operator binds tighter than the operator it follows, or both are `not` (`AdjoinsTightly`). From this the root of a
  part is compiled after all other operators of the part (`RootIsLast`);
* the code compiles `not not a` from left to right, Python from right to left. The operations are equal, so that one may
  stand for the other: `Placed` takes every chain of nots in reverse;
* an operation is recorded for the operands beside its operator (`TouchesBeside`), and none outside of a part that has an operand of the part beside it is compiled before the part is complete
  (`Closed`, which the parts beside a root inherit). So the last operation recorded for the operand beside a root is the root of the part on that side (`ArgumentsLookedUp`);
* a method of a container has no value of its own until the call behind it is compiled with it. It is never a right operand (`RightNotPending`), and
  an operation with a method on its left is that call, compiled right behind it (`CallsMethod`).

`PartsComputed` is the induction over the size of parts, `WholeComputed` the expression as a whole. Without `Adjoining` the theorem is false: see `expressions_lost`.

For every hash function, and every size of symbols and of a first buffer that holds one (`TableAssumption`), of the tables of scopes:

* `TablesStaySound`: a table is `Sound` when it is made and after every `symbol_hm_put`, and its symbols stay in the order of their first occurrence,
* `SoundTablesFind`: a sound table finds its symbols (`FindsItsSymbols`, which `NamesFound` of the run `parser` says of the table of every scope),
* `FirstSymbolIsFound`: a symbol put into a table is found if its name is new, and changes what no other name finds.

`Sound` says that every symbol has one slot, that no slot a probe for it passes is unused (`Leads`), that no two names are equal, and that the
symbols fit the buffer. A probe ends because at most half of the slots are used (`SomeSlotUnused`, by the pigeonhole principle). `Leads` counts how many symbols
have been entered, so that it also holds in the middle of `rehash`; `LayoutIsSound` is the induction over them. The theorems are about the table alone: the parser that
puts symbols into it uses recursive operators, so that `NamesFound` itself stays with TLC.

For every program, however its statements are nested, with `break` and `continue` in loops (`ProgramsAssumption`):

* `StatementTypes`, `ExceptionsCheckedAtOnce`: the invariants `TypeOK` and `CheckedAtOnce` of the run `statements`,
* `ContainedRestoresExcepts`: the invariant `ExceptsRestored`, if no `return`, `break` or `continue` leaves a try statement
  (`Contained`). TLC finds `Contained` true of the programs of `statements` and false of those of `statements_leak`, which break the invariant.

Two of the three are about what holds at a place of compiled code, so the proof first makes a *chart* of the code of every function: for each instruction, the excepts
in force before it (the caller's, or the types of a try statement) and those that the try statements around it have
remembered. `Charted` says what makes one: each instruction leads from its entry to the next one (`Carries`), a jump leads
where a mark is and the entry there is the same, or, out of try statements, an earlier one that was kept; behind an instruction that may raise stands the check,
behind the check the way out, behind the label of the except blocks the instruction that takes the exception (`MayFollow`).
`FunctionCharted` shows that `CompileFunction` always has one. Code is put together from pieces (`Piece`, `PieceJoined`),
a piece of a statement is put into code the proof knows nothing of, and ids keep the pieces apart because they are positions in the source
(`InsideParts`, `OwnApart`); so `Sound` says of a statement's code that it has a chart for *whatever* surrounds it and suits its context. There is one lemma per kind of
statement, and `AllSound` is the induction over `Depth`; that the recursive `CompileStatement` is defined at all is
`CompileStatementIs`, another one.

The inductive invariant `IInv` then says that every frame stands at a place of its chart and its variables hold the excepts the chart remembers;
that `excepts` is what the chart of the running frame says; that the frames below stand before their check, and that
each found the excepts its caller planned for; and that a pending exception is at an instruction that takes care of it (`Urgent`).
There is one lemma per action. TLC checked `IInv` on the programs of both runs before it was proved, with the chart computed instruction by instruction.

* `HandledMeansTheSame`: the invariant `MeansTheSame` of the run, `Spec => [](Handled(program) => MeansTheSame)` where programs are `Contained`.

`Contained` and `Handled` are what the compiler needs to be right about try statements. Without `Contained` a jump leaves the mask and the finally block behind
(`statements_leak`). `Handled` says of every try statement of the program that it has no else block (which is not compiled), that it catches what its body
raises (an inner mask replaces the outer one, so that an exception for the outer one ends the program), and that its except and finally blocks raise
nothing (it would be caught by the same except blocks again). It says so by what Python means by those blocks, from any state of affairs, so it leaves open how they
come to it: a body may call functions, loop, and hold other try statements. Branches, loops, calls, recursion and asserts are not restricted, nor is where exceptions are raised outside of try statements.

The proof follows Python's meaning backwards. First, depth is done away with: a statement is over (`Does`), a task ends (`Finishes`) at some depth, and then the same way at any
greater one, and what follows from it is stated for every kind of statement. A *configuration* is a call at a place of its function: its locals, the excepts in force, the
state of affairs as Python sees it, and how the function is to end. Code `Leads` from one set of configurations to another, or to those planned for the place it jumps to:
`Meant` says so of a piece of code whatever stands around it. `MeantStatement` is the induction over `Depth`: the code of a statement leads from the configurations in which Python's statement comes to
a wanted outcome, to that outcome at its end, to the label of the except blocks, or out of the loop or the function.
So every function has a plan, a set of configurations for each of its places (`Mapped`, `Story`). `Faithful` is what the running program keeps to: the last call is at a configuration of its plan, each
call below is waiting for the outcome its plan has for it, and the plan of the module ends in Python's outcome. It is inductive together with `IInv`, which knows about pending exceptions and
what the frames remember; there is one lemma per action again. `FaithfulMeans` reads `MeansTheSame` off at the end.

## What is only model-checked

* `Terminates` of `statements`, which is liveness. Also that the programs of the run are over within `Patience` and `Handled`, as far as their tests go
  (`ProgramsFinish` and `TriesHandled`, which TLC evaluates).
* Everything about the parser, but for the tables of its scopes, and about assignments: their modules follow recursive functions of the code over trees, with recursive operators.

## Hazards not covered

`PROJECT.json` lists every hazard with its line. Those without a property are

* `hashmap.c:152`: a symbol table is finalized by more than one owner, and its block freed again each time; the models of the arena keep to the interface;
* `compiler.c:4683`: `str_hm_rehash` wraps one slot too late; the string table is not modelled;
* `compiler.c:4509` and `compiler.c:4325` (with `not_python.c:28`): an exception raised inside an except block, and one only an outer try catches. The
  programs of the run `statements` leave both out, see `ContainedPrograms`;
* `not_python.c:336`: `extend` beyond the capacity; the behaviour ends there, once the items are written;
* `not_python.c:823` and `not_python.c:999`: the allocations of the dict and `d.update(d)`; the behaviour ends there;
* `not_python.c:789`: keys that are equal with different bytes; keys are modelled as their bytes;
* `lexer_helpers.c:253`: a variable becomes a closure variable after it was used as a local one; closures are not modelled.

## Not modelled

* *Closures and name resolution*: which variables become closure variables, their offsets, and the record they live in. Functions of
  the run `assignments` are called, not compiled.
* *Finalizing and memory of symbol tables and vectors*: `SymbolTable` finds what was put; where its buffer is, and who frees it when, is left out.
* *String constants*: a literal stands for itself.
* *Comprehensions, slices, tuples, with, import*: the parser reads them (and is modelled reading them), the compiler ends with an error.
* *Spelling*: how a token is scanned letter by letter, how C text is laid out in sections, the order of definitions.
* *Driver, diagnostics, debug output, scripts, `xxhash`*: straight lines of system calls and formatting, or not this project's code.

What would come next: `Closures`, with the scopes of `ParseStatements`; finalizing symbol tables over `Arena`'s interface, broken by the chunk freed while another client holds it.
