# TLA+ models of Nur

Nur is a small scripting language. A `.nur` file is lexed and parsed into an
AST, compiled to bytecode, cleaned up by a peephole pass and run by a stack VM
whose objects live in a mark-and-sweep heap. The program is sequential: what
makes it hard is not concurrency but long-lived shared state that several
components update in turn (the value stack, the list of open upvalues, the
intern table, the object list, byte offsets inside a chunk).

## 1. Inventory of the system

| Component | Source | State | Operations | Talks to |
|---|---|---|---|---|
| Hash map | `src/src/vm_map.c` | `entries`, `count`, `capacity` of an `ObjMap` | insert, lookup, delete, adjust capacity, probe | globals, map values, module cache, intern table; growing may run the collector |
| Intern table | `vm_map.c` (`vm_find_string`), `vm_gc.c` (`vm_copy_string`, `vm_concat_strings`, `vm_new_string`, `vm_delete_white_strings`) | `vm->strings` and the string objects | find, create, forget unmarked strings | map keys and equality compare string pointers; `import` shares the table between two VMs and edits a string in place |
| Closures and the stack | `vm.c` (`vm_run`, `vm_call_*`, `vm_capture_upvalue`, `vm_close_upvalues`) | `stack`, `sp`, `frames`, `open_upvalues`, upvalue `location`/`closed` | push, pop, set, make closure, close, call, return | compiler decides slots and which locals are captured |
| Collector | `vm_gc.c` | `objects` list, `marked` bits, `bytes_allocated`, `next_gc` | alloc, mark, forget strings, sweep, free | every allocation may collect |
| Compiler | `compiler.c` | locals, upvalues, loop of each `Compiler`; chunk bytes | one function per AST node | parser's AST, VM's heap and frames |
| Peephole pass | `compiler.c` (`chunk_optimize`) | a chunk's bytes | drop `DUP; POP` pairs | jumps emitted by the compiler |
| Parser | `parser.c`, `ast.c` | lexer cursor, two tokens, AST arrays | Pratt expression parser, statements | lexer, compiler |
| Lexer | `lexer.c` | cursor | next token | parser |
| Built-ins | `vm_builtins.c` | `modules` map | array push/pop, contains, import ... | all of the VM |
| Import | `vm_builtins.c` (`vm_builtin_import`) | `modules`, a second `Vm` on the C stack | run another file | intern table, collector |
| Subscripts and slices | `vm.c` | arrays and maps of the program | index and slice arrays, strings, maps; write to arrays and maps | UTF-8 helpers |
| Values and equality | `vm.h`, `vm_util.c` | - | tag tests, equality, truthiness | constants of a chunk, map keys |
| UTF-8 helpers | `vm_util.c` | - | skip, count, encode, decode | strings |
| Driver, file reading, disassembler, AST printer, source locations | `main.c`, `fs.c`, `ast.c`, `source_location.c` | - | I/O | - |

### What makes each component correct

* **Hash map**: a lookup returns the last value inserted under that very key;
  a resize loses and invents nothing; the probe loop, which has no bound in the
  code, always meets its key or an empty entry.
* **Intern table**: two live strings with the same characters are the same
  object (`vm_util.c:37` relies on it); forgetting strings never hides another
  one from the probe.
* **Closures**: the open-upvalue list is strictly descending, so a slot has at
  most one upvalue and all closures over a variable share it; a variable keeps
  its value when its frame goes away.
* **Collector**: it marks what its roots lead to, goes through every object
  once although objects form cycles, and loses none; what the running program
  can still reach is never freed. The code keeps the first half and not the
  second (section 6).
* **Compiler**: the slot numbers it hands out are the positions the values
  really have on the stack; every expression pushes exactly one value; jumps
  land on instruction boundaries.
* **Peephole pass**: every jump still lands on the instruction it was aimed at.
* **Parser**: it ends with every program, without reading past it; the tree has
  every token of the program once and agrees with the precedence table.
* **Subscripts, slices, equality**: arrays are sequences and strings sequences of
  characters, whatever the bytes; an index outside is an error
  (`docs/syntax.md`); a slice is a copy, everything else is shared.

## 2. Modules, and how they correspond to the code

Everything runs in one thread. The modules therefore have no processes: what is
nondeterministic is the *program being run* (which call, which statement comes
next, with which value), and every loop whose termination or intermediate states
matter is unfolded into one step per turn.

### `MapSpec`, `ObjMap`, `MCObjMap`, `ObjMapProofs`: `vm_map.c`

`entries`, `capacity`, `count` are the fields of an `ObjMap`; `index` and
`tombstone` are the locals of `vm_map_find_entry`; `fresh`, `freshCapacity`, `i`
are `entries`, `capacity`, `i` in `vm_map_adjust_capacity`; `pc` and `call` say
where the call is, and `interns` which kind of map it is: the VM's intern table, or any other.

| Code | Actions |
|---|---|
| call of insert, lookup, delete | `Call`; early return on a zero count: `CountIsZero` |
| one turn of the probe loop (lines 12-26) | `ProbeStep`, its exit `ProbeEnds`/`Found` |
| load check and `vm_map_adjust_capacity` | `Grow`, `RehashSkip`, `RehashEntry`, `RehashProbeStep`, `RehashStore`, `Swap` |
| rest of insert, lookup, delete | `InsertStore`, `LookupReply`, `DeleteMiss`, `DeleteStore` |

`hash & (capacity - 1)` is written as a remainder, which is the same for a power
of two (`CapacityAssumption`). Keys are abstract because the code compares key
pointers; `Hash` is a constant function. Dead locals are reset when their
function returns, which merges states and hides nothing.

`MapSpec` is what callers are promised: one request at a time, answered by one
atomic step on a partial function. `ImplementsMapSpec` is the refinement
`contents <- Contents(entries, capacity)`, for maps other than the intern table; the
moves of a resize are stutters and the binding changes in `InsertStore`.

`vm_map_delete` has one caller, `vm_delete_white_strings` on the intern table
(`interns`). For that one three properties
do *not* hold and are not claimed: an insertion that reuses a tombstone does not
count it although the deletion was counted (`vm_map.c:120` against 142), so
`count` becomes smaller than the number of keys; the load check then lets the
table fill up with keys and tombstones, so that a vacant entry is no longer
guaranteed; and a lookup on a table whose count has drifted to zero finds
nothing. What the structure of the table promises regardless
(`ProbeChain`, `UniqueKeys`, `OthersKept`) is checked and proved for both kinds.

### `Cells`, `Upvalues`, `MCUpvalues`, `UpvaluesProofs`, `CellsProofs`: variables at run time

`stack`, `sp`, `frames`, `open` are the fields of the `Vm`; `location[u]` and
`closed[u]` those of upvalue `u` (`Own` is "points at its own `closed`").
`frames[f].slots` and `.upvalues` are the `CallFrame`'s; `.locals` and `.blocks`
are the compiler's table of locals of that function and the `prev_locals_count`
of each block it is in, carried along because the instructions at the end of a
block are chosen from them. `drops` and `after` are what is left of the
instructions emitted at a block end or a return.

| Code | Actions |
|---|---|
| `compile_assign` for a new name in a function | `DeclareLocal`, `BeginNamedClosure` |
| `OP_GET_LOCAL` ... `OP_SET_UPVALUE` | `GetLocal`, `SetLocal`, `GetUpvalue`, `SetUpvalue` |
| `OP_MAKE_CLOSURE`, one captured variable a step | `BeginClosure`, `CaptureShared`, `CaptureNew`, `CaptureUpvalue`, `KeepClosure`, `CallNew` |
| `vm_call_closure` | `CallWithoutArgument`, `CallWithArgument`, `CallTooDeep` |
| `compile_block` | `OpenBlock`, `EndBlock`, `BlockEnd` |
| `OP_POP`, `OP_CLOSE_UPVALUE`, `OP_RETURN` | `DoPop`, `DoClose`, `DoNull`, `DoReturn` |

Whether a local is captured is known to the compiler only after it has compiled
the scope; the model chooses it at the declaration, and only a local so marked
can be captured. The expression stack above the locals is left out: a statement
pushes and pops it in one step. A declaration here is a statement of its own,
executed exactly once per entry of its block; other declarations are the subject
of `Codegen`.

`cells`, `out` and the `cell` fields are history variables: which variable of
the program is meant. `Cells` is the promise to the programmer, one cell per
variable, shared by everybody who mentions it; `ImplementsCells` says that
every read through a slot or an upvalue returns the cell's last value.

That is not so for every program: `compile_block` emits the drops of a block in the
order of the declarations, and they meet the locals from the last to the first
(section 6). `Mirrored` is the condition under which they fit all the same: from either
end of the block one finds captured locals at the same places. It holds in a block
with one local, or whose locals are all captured, or none of them, or in
`x y z` with `x` and `z` captured. `MirroredSpec` restricts the programs to those all
of whose block ends are `Mirrored`, and nothing else; what the machine does is `Next`
in both.

### `Peephole`, `PeepholeProofs`: jumps and `chunk_optimize`

A chunk is a sequence of instructions with byte offsets and operands. The
compile phase emits the code of `while`, `if`/`else`, `break`, `continue`,
declarations and expression statements and patches jumps as `compiler.c:534-626`
and 794-822 do; `nest` is the recursion of the compiler, each construct with the
`locals` its body found and drops at its end. The second phase is the pass,
an instruction a step. `aim` and `from` are history: the instruction a jump is
meant for, and the number an instruction had before the pass. `expr` is an
instruction of three bytes that stands for whatever pushes a value.

| Code | Definitions |
|---|---|
| `chunk_add_byte` and what emits with it | `Emit`, `EmitPops`, `EmitJump`, `EmitLoop` |
| patching a jump | `Patch`, `PatchAll` |
| `compile_while_loop`, `compile_conditional` | `BeginWhile`, `EndWhile`, `BeginIf`, `BeginElse`, `EndIf` |
| other statements, the end of a function | `ExpressionStatement`, `DeclarationStatement`, `EndFunction` |
| `compile_break`, `compile_continue` | `Break`, `Continue`; `InnermostLoop` is `compiler->loop` |
| `chunk_optimize` | `Copy`, `DropPair`, `Finish` |

### `Codegen`, `CodegenProofs`: stack heights

`todo` is what is left of the recursion of `compile_stmt` and `compile_expr`,
the next thing first; `nodes` counts the AST nodes met, so that the runs are
bounded, and the tree itself is chosen as the compiler walks it. `locals` and
`loop` are the `Compiler`'s, `chunk` its output. An instruction carries, as
history, the `height` of the stack the compiler relies on there, the locals it has
`placed` in their slots, and the local it is about (`var`); an expression to be
compiled carries how many values lie `above` the locals. `combine` is any opcode that replaces some operands by one result.
When the function is complete it is run: every condition goes either way.

| Code | Actions |
|---|---|
| `compile_block`, `compile_return`, `compile_stmt` | `Block`, `MoreStatements`, `EndBlock`, `Return`, `ExpressionStatement` |
| `compile_while_loop`, `compile_break`, `compile_continue` | `While`, `WhileBody`, `EndWhile`, `Break`, `Continue` |
| `compile_conditional` | `If`, `ThenCase`, `ElseCase`, `EndIf` |
| `compile_identifier` and the constants | `Leaf`, `GetLocal` |
| all other expressions, operands first | `Operation` |
| `compile_assign` to a name | `SetLocal`, `NewLocal`, `Bind`, `NewFunction` |
| `vm_run` | `RunPush` ... `RunReturn` |

A local may be declared by a statement of a block, by an assignment nested in
another (`a = (b = 1)`) and in the condition of an `if`, as the programs in
`examples/` do. The forms the model leaves out are listed at its head: in each
of them the interpreter itself loses track of the stack. No document or test
says what these programs should do, so they are hazards here and not findings.

### `Parser`, `MCParser`, `ParserProofs`, `TreeProofs`: `parser.c`

`nodes` and `extra` are the arrays of `parser.ast`; `input` holds the tokens
consumed, the last of them being `parser.next_token`. `calls` is the C stack: an
activation has a point it waits at (`at`), the precedence, the left operand and
the list its function collects. `result` is what the callee returned, `Invalid`
being `INVALID_NODE_IDX`. `first` and `last` are history: which tokens a node
stands for. Tokens that the parser treats alike are one token (head of the
module).

| Code | Actions |
|---|---|
| `parse`, `parse_stmt` | `Parse`, `ParseStmt` |
| `parse_block`, `parse_while_loop`, `parse_conditional`, `parse_return` | the action of the same name; `Body` is the choice between `=>` and a block |
| `parse_expr` (the loop over precedences) | `ParseExpr` |
| `parse_unary_expr` and what it calls | `ParseIdentifier` ... `ParseUnaryOp`, `UnknownExpression` |
| `parse_binary_expr` and what it calls | `ParseAssign`, `ParseBinaryOp`, `ParseCall`, `ParseMemberAccess`, `ParseSubscriptAccess` |
| `return INVALID_NODE_IDX` after a callee's | `Fail` |

The program is chosen while it is read: any token of the run's language may come
next, so that a run parses *all* programs up to its length. `parse_subscript_access`
is the one function that does not look at what its callee returned: after
`a[]` or `a[:(]` an error is printed and the tree, with an index that is none, is
compiled all the same. `reported` keeps that apart: a program is `Accepted` when
nothing was printed. Ends of lines are no tokens: a statement goes on as long as
tokens allow it (`StatementsMaximal`; after a `break`, or the end of a body,
nothing is asked for, so that `break [1]` is two statements). All binary operators associate to the left,
power included, and `TreeFollowsGrammar` says so of all but an assignment whose
operand is an assignment. There the code and the documents differ: `a = b = 1` is
`(a = b) = 1` to the parser, which the compiler refuses, and a chain that gives one value
to each target in `docs/syntax.md:80-88`. What the document says is
`AssignmentsChain`, which a run of its own finds violated (section 6).

### `Values`, `ContainerSpec`, `Containers`, `MCContainers`: what instructions do

`x` is the value of the last expression, `y` a variable, `objects` the arrays and
maps by address; strings are sequences of bytes. `status` is `error` when the VM
refuses and stops, `undefined` when it uses memory outside an array. One
step is one instruction or one call of a built-in; `instruction` remembers it
with its operands, so that the specification can say what it should have done.
`Careful` says that programs make none of four calls, in which the code does not do
what the documents promise (section 6).

| Code | Definitions |
|---|---|
| `string_utf8_skip_character`, `string_utf8_characters_count` | `Skip`, `CountFrom`, `After` |
| `vm_get_subscript`, `vm_set_subscript` | `Get`, `Set` |
| `vm_make_slice`, `vm_make_slice_under`, `vm_make_slice_above`, `OP_COPY_BY_SLICING` | `Slice`, `SliceUnder`, `SliceAbove`, `Copy` |
| `vm_add`, `vm_value_to_string` | `Add`, `Spelling` |
| `values_equal`, `objects_equal` | `Equals`, `Equal` |
| `value_is_falsey`, `len`, `array_push`, `array_pop`, `contains` | `Falsey`, `Not`, `Length`, `Push`, `Pop`, `Contains` |

`ContainerSpec` states the same instructions over sequences of *characters*, with
no walk over bytes; the refinement maps a string to its characters, told by their
continuation bytes. What `len`, `array_pop` and `contains` answer is taken from
`docs/builtins/global.md` and not from the code: null for the length of a number or for
the last element of an empty array, true or false for a string in a string. Careful
programs do not come to the places where the code does otherwise; `containers_documents`
has those that do. (The
document's examples also have maps with numbers as keys, `{1: 2, 3: 4}`; a map is "of a
string to any value" in `docs/data-types.md`, and so it is here.) The equality of maps walks `count` entries of a table that has
`capacity`: which keys it sees depends on their hashes, and `Equals` takes the set
it sees as an argument that may be any. What is sure, and what `ContainerSpec`
says, is that maps with equal bindings compare equal and that arrays are compared
element by element.

### `Heap`, `MCHeap`, `HeapProofs`: `vm_gc.c`, interning and `import`

`objects` are the heap objects by address, in the order of their allocation, with
the `next` pointers of the list that begins at `head`; `table` is the set of
strings in `vm->strings`. `stack` is the memory of the VM's stack, of which the first
`sp` values are in use, `frames` the VM's and `open` the list of open upvalues. The
`refs` of an object are what `vm_mark_object` goes on to from it: those of an upvalue are
its closed value and the neighbour in the list it had when it was closed, because
nothing resets `next` afterwards; what an open one leads to, its variable's slot and its present
neighbour, is read from `stack` and `open` (`LeadsTo`). An object that was
freed stays with `freed` set, so that a later use of it is seen. `hash` is the text
a string was hashed with: after `import` has shortened a string in place it is not
its `text`. `pending` and `freeing` are the C stacks of `vm_mark_object` and
`vm_free_object`; `prev` and `curr` the locals of `vm_sweep_objects`.

| Code | Actions |
|---|---|
| `vm_init`, `vm_load_file`, the compiler's allocations | `Init` |
| allocating and linking instructions | `PushConstant`, `Slice`, `Concat`, `MakeArray`, `ArrayPush`, `SetGlobal`, `GetGlobal`, `Pop` |
| `OP_GET_LOCAL` ... `OP_SET_UPVALUE` | `GetLocal`, `SetLocal`, `GetUpvalue`, `SetUpvalue` |
| `OP_MAKE_CLOSURE`, one upvalue a step | `BeginClosure`, `CaptureLocal` (`vm_capture_upvalue`), `CaptureUpvalue`, `MakeClosure` |
| `OP_CLOSE_UPVALUE`, `OP_CALL`, `OP_RETURN`, `vm_close_upvalues` | `Close`, `Call`, `Return`, `ClosesFrom` |
| `vm_copy_string`, `vm_concat_strings`, `vm_find_string` | `Interned`, `Matches` |
| `vm_builtin_import` | `Import`, `Directory` |
| `vm_gc` and `vm_mark_roots`, `vm_mark_object` | `Collect`, `Roots`, `Mark`, `Marked`, `LeadsTo` |
| `vm_delete_white_strings` | `DeleteWhiteStrings` |
| `vm_sweep_objects` | `SweepMarked`, `Unlink`, `SweepFreed` |
| `vm_free_object` | `FreeEnter`, `FreeLeave`, `FreedWith` |

Closures share upvalues as they do in the VM: a capture of a slot that has an open
upvalue finds it, and a closure made in a closure takes that one's. Here the compiler plays
no part, so that any slot can be captured and closed: more programs than it compiles. One function
stands for all functions of a file, with the arity and the captures that a call and
a closure choose, and values that are no objects are left out, with them the null
of a call that is a statement.

Bytes are not counted: a collection may start after any instruction, but not in the
middle of one, `OP_MAKE_CLOSURE` included (section 7). The first
step that would use freed memory leads to `phase = "corrupt"`, where the behaviour
ends, since C says nothing of what follows.

## 3. Runs

| Run | Question | Bounds |
|---|---|---|
| `objmap` | of any map: are keys reachable and unique, and other keys untouched? of a map that is not the intern table: do the loops end, is the count right, is it a map? (`TypeOK`, `ProbeChain`, `UniqueKeys`, `IInv`, `OthersKept`; `VacancyLeft`, `Counted`, `ImplementsMapSpec`, `CallsReturn`) | 4 keys, 2 values, tables of 0, 4 and 8 entries, all three calls |
| `upvalues` | is the open list sorted and complete, do slots agree, does no upvalue dangle, are variables shared cells, in programs whose block ends are `Mirrored`? (`TypeOK`, `IInv`, `OpenSorted`, `OpenListed`, `SlotsAgree`, `NoDangling`, `ClosuresSeeVariables`, `CellInv`, `ImplementsCells`) | 3 slots, 3 frames, 2 nested blocks of up to 2 variables, 2 variables in all, 2 values, 2 kept closures with up to 2 upvalues |
| `upvalues_two_locals` | the same for any block end (`Spec`): *violated*, see section 6 | as above, 1 closure |
| `peephole` | do compiled jumps land, does the pass drop pairs only and keep the jumps over none? (`TypeOK`, `JumpsPatched`, `OnlyPairsDropped`, `ShortJumpsKept`, `IInv`) | 11 instructions, 2 nested constructs |
| `peephole_jumps` | does the pass keep all jumps? *violated*, see section 6 | 10 instructions |
| `codegen` | does every expression push one value and every statement none, is the stack equally high on all paths, is each local in its slot? (`IInv`, `StatementsBalanced`, `HeightsAgree`, `LocalsInPlace`) | 5 AST nodes, operations with 1 or 2 operands, 1 parameter, 8 locals (out of reach) |
| `parser` | does the parser end, without reading past the program, and is the tree the program's? (`IInv`, `TreeIsTheProgram`, `TreeFollowsGrammar`, `NeverPastEnd`, `ParseEnds`) | all programs of ten languages, 5 to 10 tokens long |
| `parser_assignment` | can assignments be chained? (`AssignmentsChain`) *violated*, see section 6 | the same |
| `containers` | do the instructions on bytes, arrays and tables do what sequences and functions do, in programs that are `Careful`? (`TypeOK`, `CharactersWhole`, `ImplementsContainerSpec`) | eight programs: strings of up to 6 bytes, 2 arrays or maps of up to 3 elements, indexes from -2 to 3 and one that is not whole |
| `containers_documents` | do indexes, `len`, `contains` and `array_pop` do what the documents show? (`AsDocumented`) *violated*, see section 6 | the same, any calls |
| `heap` | are equal strings one object, is marking exact, does the sweep lose nothing, does a collection end? (`TypeOK`, `StringsUnique`, `MarkingExact`, `NoneLost`, `CollectionEnds`) | four of the five programs: 8 to 12 objects, texts of 2 characters, 2 stack slots, 2 frames, 1 item an array, 2 upvalues a closure |
| `heap_import` | does a string keep its text? *violated*, see section 6 | all five programs, texts of 3 characters, and they may use their file's path |

**Why the bounds are enough.** `objmap`: of the four keys, three share the last
slot of the table of four, so that probes collide and wrap around; the fourth's
home is where the collision lands; the third insertion fills the table up to the
load limit and the fourth grows it; in the table of eight the colliding keys
part, so that the rehash really moves them. `Null` is a value, since a null
value distinguishes a vacant entry from a tombstone only when the key is absent.
`InitCapacity` is 4 instead of 8: the code uses the number nowhere else, and the
theorems hold for any power of two. `upvalues`: two slots captured by one
closure, and a closure in the frame of another, are what the walks of the list
need to go wrong; a third frame lets an upvalue of an upvalue be captured; two
kept closures share a variable, and two values tell its versions apart.
A block of two is the least in which the order of the drops matters, and with two
`Mirrored` still leaves both captured or neither. `SlotsAgree`, `OpenSorted` and
`OpenListed` are proved for all programs, `MirroredEnds` or not. `peephole`: 11
instructions hold a loop in a conditional and a
conditional in a loop, with a declaration inside and a break or continue across.
`codegen`: 5 nodes hold a loop whose body is a block with a declaration, a loop left
or repeated from a conditional, a declaration in a condition, or a chain of two
declarations and a use; an expression statement costs no node of its own. What
needs more nodes, a conditional with declarations in both blocks or loops three deep,
is covered by the theorems, which have no bound. `parser`: each language holds the
tokens of constructs that meet (three precedences and parentheses; calls, members
and slices of each other; conditionals in conditionals), with the length that two
of them nested in each other need; the nesting of lists in lists, where `extra` is
shared, needs four tokens. `containers`: characters of one to four bytes; strings and arrays of
two or three elements have a first, a last and a place behind it; `instruction`
decides nothing and is left out of the states by a VIEW. `heap`: two of the programs
reach every way `import` takes (a directory in the path, none, the directory as
a literal of the program); in the third the path is a literal, and
only `heap_import` runs it; the fourth calls closures that hold strings. The fifth has no
strings and up to five objects for closures and upvalues: two upvalues open at once, one
between two closures, one closed before its neighbour and still pointing to it. Arrays
that hold themselves, maps, and a closure in its own variable give the cycles. A
collection is possible after every instruction, so that it meets all of these heaps.
A VIEW leaves out the part of `stack` above `sp` and all open upvalues: it is
written before it is read. `Values`, in `StringsUnique`, counts it nevertheless; that
the property holds there too is what the proof shows (section 4).

Deadlock is checked by `objmap`. In the other runs the system
may really stop: a program is parsed or compiled once, a bound on calls or objects is
reached, the VM refuses an operand, or memory is corrupt.

**Fairness.** `FairSpec` of `ObjMap` is weak fairness of `Step`, that is: a call
that was made keeps running. The interpreter has a single thread, nothing in
`vm_map.c` blocks, and the caller is suspended meanwhile, so that a step that is
enabled is taken next. No fairness is assumed of `Call`: a program may stop
calling. `FairSpec` of `Parser` is weak fairness of `Next`, for the same reason: the
parser has one thread and waits for nothing, not even for input, since the file was read before.
`Spec` of `Heap` is weak fairness of `Collection`: the program waits until the
collector returns. It says nothing of `Collect`, so that a collection need never
begin. `Upvalues`, `Peephole`, `Codegen` and `Containers` are safety only: Nur
programs may loop for ever, and the loops of those instructions are operators here.

## 4. Proofs

All proofs hold for every value of the constants, under the assumptions named in
the modules: `NoKey` is not a key, hashes are naturals, `Null` and `True` are
different values, the first capacity is a power of two and at least two
(`ObjMap`); `Null` and `Function` are values and the bounds are naturals
(`Upvalues`); paths and literals are sequences of strings, and no program has the
same literal at two addresses, because the compiler interns them (`Heap`).

**`ObjMapProofs`.** `ProbeChain` alone is not inductive: an insertion keeps it
only if the slot it writes to was reached by a probe that passed no vacant
entry. `IInv` therefore adds `InCall`, which says of a probe in progress that it
covered the whole way from the key's home to `index` without meeting a vacant
entry or the key and that its tombstone is on that way (`Probing`), and `Moved`,
which says that the new table of a resize holds exactly the entries already
passed. The main lemmas are about circular intervals (`Passed`). Theorems:
`Invariance` (`Spec => []IInv`), `TypeCorrect`, `KeysReachable`, `KeysUnique`
and the action property `OthersAreKept` (`OthersKept`: a store or a deletion
writes one slot, which held the key of the call or none, and a resize keeps the
contents), for the intern table too. For other maps (`~interns`): `CountInvariance`
(`Counted`), `ProbeCanStop` (`VacancyLeft`, a pigeonhole argument from the load bound), and
`MapImplementsStore`, the refinement; they need that a deletion is only asked of the
intern table (`Asked`).

**`UpvaluesProofs`.** `IInv` is `TypeOK`, `OpenSorted`, `OpenListed` and
`Balanced`: frames lie on the stack without a gap, block starts nest, and every
slot in use is accounted for by a local, a pending drop or a result. The last is
what makes the slot numbers of the compiler the positions of the VM, and what
keeps `sp - 1` inside the frame when a block ends. Theorems: `Invariance`,
`TypeCorrect`, `WalksMayStop` (`OpenSorted`), `ListIsComplete` (`OpenListed`),
`SlotsAlwaysAgree` (`SlotsAgree`). They are about `Spec`, all programs: the
error of section 6 is one of values, not of structure.

**`CellsProofs`.** The values of variables, for `MirroredSpec` with any number of
variables in a block. `NoDangling` and `ClosuresSeeVariables` say something of the
moments between instructions only, and nothing of how an upvalue came to point where
it does. `CellInv` does, in four parts over `Live` (all locals of all frames, with
their slots) and `Held` (all captures of frames, of kept closures and of the one being
made). `FramesApart`: frames do not share slots. `LocalsAreCells`: two locals are
never one cell, and a slot has the value of its cell. `CapturesAreCells`: two
captures have one upvalue exactly if they are of one variable, an upvalue has the value
of its cell, and it is at the slot of the variable as long as that is alive; the
equivalence is what keeps a `SetUpvalue` from changing another variable.
`OpenWillClose`: an open upvalue is at a local marked as captured, or at a slot whose
pending drop is `OP_CLOSE_UPVALUE`. It is the last part that an end of a block
disturbs when it is not `Mirrored`: a slot is dropped with an upvalue still at it,
and the next local there becomes the variable of an old closure. The proof has one
lemma for each action, with `NameIsLocal` (the local that a function is being bound to
is the last one) as an addition for the moment between a declaration and its
value. Theorems: `CellsAgree` (`CellInv`), `NothingDangles` (`NoDangling`),
`ClosuresAlwaysSee` (`ClosuresSeeVariables`) and `MachineImplementsCells`, the
refinement: every read and write is the read and write of the variable's cell, and
all else is a stutter.

**`PeepholeProofs`.** For chunks of any length and any nesting. Offsets are not
recomputed by adding sizes up: `Laid` says that each instruction starts where
the one before it ends (`End`), so that a sum over a chunk is never needed, and
`JumpsPatched` follows from it with the definition of `OffsetOf`. While code is
compiled, a jump is unpatched exactly when the construct it leaves is unfinished:
`Patched(chunk, Unfinished)` and `Nested`, which adds that loops know where
they start and that a construct drops only locals of its own. A target never comes
right after a `DUP` (`Target`), without which the pass could remove what a jump is
meant for. During the pass, `Passed` relates `newChunk` to what was read: every
instruction that is not `Gone` has one copy, unchanged but for its place, copies
keep their order, and two copies with nothing left out between them are as far apart
as before (`Spaced`). This is why a jump whose way has no pair still lands
(`ShortJumpsKept`), and also all that can be said: with a pair on the way the
distance stays and the target moves (section 6). Theorems: `ChunkInvariance`
(`Spec => []IInv`), `ChunksTyped` (`TypeOK`), `CompiledJumpsLand` (`JumpsPatched`),
`PairsDropped` (`OnlyPairsDropped`), `ShortJumpsLand` (`ShortJumpsKept`).

**`CodegenProofs`.** For functions of any size and nesting, with any operations. That
statements are balanced says nothing of a function that is half compiled, and that
heights agree says nothing of the paths of which one end is not emitted yet. `IInv`
says both, over what is emitted and over what is left. `Sound` is about the code: an
instruction leads to the next with the height and the locals `placed` there, and so does
a jump to its target, but for jumps that are `Unfinished`. Of these it must be known with
which locals they were emitted (`JumpFrom`), and that these will be the locals of the
place where they are patched: `Scoped` says it of the jumps that wait in `todo`, whose
patching may come after blocks that end in between, and `LoopsSound` of the start and
the breaks of each loop. `Nested` says which loop the compiler is in when it comes to an
item of `todo`, since that loop was stored away and is restored later; the mutant of
`IInv` forgets to. `Balanced` is the account of values: each item of `todo` leaves as many
above the locals as the next one finds. `Ordered` says what an instruction that
waits to be written relies on, for instance that the local of a `DUP` is still the last
one. When the function runs, `StackAsCompiled` has the height and the locals of the
instruction at `ip`, and `Leads`, which says how an instruction moves them, carries them
to the next. The lemmas show `Compiled` (the parts above `StackAsCompiled`) for each
action, by way of two facts: what `Append` and `Patched` do to `Sound`, and what
replacing the head of `todo` by other items does to the other parts. The theorems have
one assumption, `NotRefused`: `compiler_add_local` refuses a local when there are
`MaxLocals` (`compiler.c:107`), and `compile_assign` does not look at its answer, so
that from then on the stack has a value the compiler does not count. Theorems:
`CompiledAsRun` (`IInv`), `BalancedStatements` (`StatementsBalanced`), `PathsAgree`
(`HeightsAgree`), `SlotsAreLocals` (`LocalsInPlace`).

**`ParserProofs`.** For any set of languages, of which nothing is assumed: a language is
any set of tokens and any length. `parser_advance` asks the lexer for a token without
looking, so that `NeverPastEnd` rests on every function having seen that the token it
consumes is not the end. `Reading` says what is known in between: an activation that is
about to begin (`Starting`) runs alone at the top of the stack, and the token it was
called for is the one that is next, not yet consumed; every other activation has tokens
behind it (`Fits`), and operators are consumed by the two functions that were called
because of one (`assigned`, `rhs`), whose node later takes its tag from that token. The
rest of `Fits` is what the arrays of the tree need: a list holds nodes that exist
or the mark of none, a slice and a conditional have a bound, or a condition and a branch,
when they are finished, and a function's body begins at a token that was read. There is one lemma per
function of the parser; `Returning` and the lemmas beside it say what a return, a call
and a new node leave true of the activations that wait. Theorems: `ParserInvariance`
(`Reading`), `StopsAtEnd` (`NeverPastEnd`), `ParserTyped` (`TypeOK`).

**`TreeProofs`.** For any set of languages too, and on top of `Reading`. What is wanted
is of the finished tree; what has to be carried is of all that is not yet part of it, and
only until an error is reported: from then on a node may lack a child. `IInv` has three
parts, `Reading`, `Whole` and `Binding`.

`Whole` is what `TreeIsTheProgram` needs. The nodes are a `Forest`: the children of each
are older, inside its tokens and in order (`Family`), and no node is listed twice. What
has no parent is in the hands of the parser: it is the node just returned (`Given`), or it
is in the list or among the operands of exactly one activation (`Held`), in order and after what the
activations below hold (`Holds`, `Precedes`). `Stored` says that a node's list is already
in `extra`: a function that collects a list copies it there when it is complete, after the
lists inside it, and nothing in `extra` is changed afterwards. Where an activation is past
the first of its children, `Formed` says what it has in hand and which token it was called
for; that token is not yet a node, and `Kept` says that every other token that was read and is no
punctuation is the token of exactly one node. When the last function returns there is no
activation, so that the only root is `result` and no token waits. Every step either keeps
what an activation holds, adds to it a root that was given, or makes one node of all that
the running activation holds; there is a lemma for each of the three, and one for each
function of the parser that says which it is. `FS_Singleton` turns "at most one" and "at
least one" into the cardinalities of `OneParent` and `TokensKept`.

`Binding` is what `TreeFollowsGrammar` needs, and adds how the descent over precedences
hands them down. `Linked` says that an activation which consumed an operator was called by
a loop whose precedence is lower than that operator's, and that an activation that
waits for an operand called it with its own precedence. `Answers` says the same of a node on its
way back: an operator at its start binds more tightly than its caller asked for, and the
token after it does not bind more tightly than it does, unless the node was closed by a
parenthesis. That gives `OperatorsBind` when a node is made of the two; of an assignment
whose operand is an assignment it says nothing, since there the documents ask for the
contrary of what the code does (section 6). `Quiet` is the
part of `Answers` that a block keeps of each of its statements, for `StatementsMaximal`. Theorems:
`TreeInvariance` (`IInv`), `ProgramBecomesTree` (`TreeIsTheProgram`),
`TreeFollowsPrecedences` (`TreeFollowsGrammar`).

**`HeapProofs`.** The bounds of the program (objects, texts, stack, items, frames,
upvalues) play no part, and captures are arbitrary: a closure may share upvalues with any
other, and any number may be open. `IInv` has six parts. `TypeInv` adds to `TypeOK` that
`next` points to an older object, and `MachineInv`: the stack's memory holds objects,
also above `sp`, where a return or an open upvalue left them; a frame begins where its
caller's does or above (`FramesInv`) and its closure is one, whose function the roots read without
a look; an upvalue is open once, of a slot that was written or, while a closure is being
made for it, is about to be (`OpenInv`). `RunInv` holds until a collection begins: the list goes through the
objects one by one, nothing is marked (or marking would stop early), an upvalue that is
not open has its value (`UpvalueFits`), and every
string that the stack's memory or an object leads to is `Usual`, which is what
`StringsUnique` needs to be inductive: it is in the table, under the text it was
hashed with, and is not the path of the file. `TableOfStrings` says that the table
has one string of each text *among those whose text is still the one hashed*:
`import` cuts a string in place, and a cut string is no longer found. `Unique` is
the property itself, which the phases of a collection only have to keep. `MarkInv`
says that what a marked object leads to is marked or waits, and that whatever set
holds the roots and is closed under pointers also holds all that is marked or
waits; the first gives `Closed(Marks)` when nothing waits, the second that nothing
else is marked. Pointers are all of `LeadsTo`: the variable of an open upvalue and its
neighbour in the list, and the neighbour a closed one still has. `ListInv` is that no pointer of the list passes an object that is
left, and `SweepInv` that `curr` comes right after `prev`, without which unlinking
would cut off more than `curr`. An instruction is a sequence of changes to a heap
record, so the lemmas are about such changes (`AllocGood`, `InternedGood`,
`LinkedGood`, `CutGood`, `KeyedGood`), and `RunStep` and `CollectStep` say what is
left to show of an instruction and of a step of a collection. Theorems:
`TypeCorrect`, `EqualStringsAreOne` (`StringsUnique`, for programs that do not use
their path: section 6 has a program that does and breaks it), `MarkingIsExact`, `NothingLost`
(`NoneLost`).

## 5. Only model-checked

`CallsReturn` (liveness is out of the prover's reach; its safety part,
`VacancyLeft`, is proved). Of `Codegen`, what a function with more than `MaxLocals`
locals does is left out of the theorems and beyond the bounds of the run. Of `Parser`, `ParseEnds`, which is liveness. All of
`Containers`, which uses recursive operators on texts: no module with a theorem may reach
them. Of `Heap`, `CollectionEnds`, which
is liveness, and what becomes of strings that are a program's path.

## 6. Where the code does not do what its tests and documents say

* **Block end** (`upvalues_two_locals`, `compiler.c:41`). `compile_block` emits
  the drops of a block's locals in the order of declaration while the stack is
  dropped from the top. With a captured local followed by one that is not, the
  captured slot is already gone when `OP_CLOSE_UPVALUE` is executed: the upvalue
  stays open, and its slot is reused. The interpreter does so: in

  ```
  kept = []
  fn { x = 5  y = 1  array_push(kept, fn { return x })  x = 10 }()
  closure = kept[0]
  println(closure())
  ```

  it prints `null`. `tests/integration/closures.nur:70-95` states the rule for a
  block with one variable, where it holds (`upvalues`, and `CellsProofs` for all blocks
  that are `Mirrored`).
* **Jumps over a declaration** (`peephole_jumps`, `compiler.c:1029`). The pass
  removes two bytes per `DUP; POP` and leaves jump distances as they were, so
  that a `while` in a function with a declaration in its body goes back to two
  bytes before its condition. The test "while loop closure"
  (`tests/integration/closures.nur:41-68`) is such a program: it fails in a
  build of this commit, and passes when the pass is not called.
* **Chained assignments** (`parser_assignment`, `parser.c:705`). `parse_expr` goes on only
  over operators that bind more tightly than its precedence, so that an assignment, too, takes
  the one before it for its left operand. `docs/syntax.md:80-88` shows
  `name = arr[0] = map["name"] = "yhya"`; the compiler refuses the target of the second
  assignment (`compiler.c:529`).
* **Indexes below the first element** (`containers_documents`, `vm.c:397`). The length is
  added to a negative index, and the result is compared with the upper bound only.
  `docs/syntax.md:49` says `arr[-7] # error: index out of bounds`; the code reads, or
  writes, before the elements of the array. A string gives its first character
  (`IndexesChecked`).
* **The length of what has none** (`containers_documents`, `vm_builtins.c:72`).
  `docs/builtins/global.md:265` says `len(89) # null`; the code stops with an error
  (`LengthAnswers`).
* **`contains` of a string** (`containers_documents`, `vm_builtins.c:330`).
  `docs/builtins/global.md:285-288` answers false and true for a string in a string, and null
  when the first argument is no container; the code stops with an error in both cases
  (`ContainsAnswers`).
* **`array_pop` of an empty array** (`containers_documents`, `vm_builtins.c:203`). It is
  null in `docs/builtins/global.md:126`; the code lowers `count`, which is unsigned, below
  zero and reads the item there (`PopAnswers`).

  The last four are the parts of `AsDocumented`. TLC reports the shortest behaviour, the
  length of -1; each of the other parts it finds violated too when it is checked alone.
* **A string that changes** (`heap_import`, `vm_builtins.c:377`). `import` asks for a
  copy of the running file's path, gets the interned string of that text, and cuts it
  after its last slash, where it is. In `main.nur`, `s = "main.nur"` is empty after any
  import, and not equal to `""`. `docs/data-types.md:34` calls a string "an immutable
  list of characters".

**What a collection does.** The roots are the stack and the *functions* of the
frames. Neither the intern table, an object like any other, nor the closure of the
file is reached from them, and freeing a closure frees its function: the one that is
running. `CollectionEnds` states it: a collection comes to an end, and always at
freed memory. A build with the address sanitizer reports the use after free in the
first collection. No document says when a program may rely on a collection, so it
is no finding, but it bounds what the other modules say: they are about executions
up to the first one (when a megabyte is allocated, `next_gc` at `vm.c:51`).

Other places where the documents differ, seen while modelling and not run: the AST printer reads the
pairs of a map by another layout (`ast.c:318-340`) than `ast.h:24` describes;
`read_line` compares with the null character and the end of a line, not with the end
of the file (`vm_builtins.c:466`).

## 7. Not modelled, and why

* The lexer: a function of the characters at hand; `Parser` takes any token for
  the next one.
* Driver, file reading, disassembler, AST printer, source locations: input,
  output and formatting.
* `OP_SET_SUBSCRIPT_WITH_MATH`, comparison and the arithmetic besides addition: pure
  functions of doubles, but for the ignored failure that `Codegen` names.
* Values folded at compile time, the limits of 255 locals and of 16-bit distances and
  constants: far beyond any bound that can be checked; listed as hazards.
* Containers that contain themselves (to compare them does not end), and maps whose keys
  are numbers.
* The second VM in which `import` runs a module, which shares the table of strings
  and has a list of objects of its own; a collection in the middle of an instruction
  (a resize, a slice whose target was popped, `OP_MAKE_CLOSURE` between two captures);
  values on the stack that are no objects; numbers of bytes and `next_gc`.
* Printing, numbers, time and random among the built-ins: no state of the VM.
* `encode` and `decode` of the UTF-8 helpers: called by nobody.
* Integers of the machine: `count`, `capacity` and offsets do not come near
  their width under the bounds.

## 8. Plan

| Order | Modules | What | State |
|---|---|---|---|
| 1 | `MapSpec`, `ObjMap`, `MCObjMap`, `ObjMapProofs` | hash map, loop by loop, refines a key/value store | built and proved |
| 2 | `Cells`, `Upvalues`, `MCUpvalues`, `UpvaluesProofs`, `CellsProofs` | stack, frames and upvalues refine one cell per variable | built and proved |
| 3 | `Peephole`, `PeepholeProofs` | jumps, and `chunk_optimize` over byte offsets | built and proved |
| 4 | `Codegen`, `CodegenProofs` | statements and expressions compiled to stack effects, and run: every expression pushes one value, height of the stack along every path, nested declarations | built and proved |
| 5 | `Parser`, `MCParser`, `ParserProofs` | every function of the parser as one descent over arbitrary tokens; nothing is read past the end | built and proved |
| 6 | `Values`, `ContainerSpec`, `Containers`, `MCContainers` | instructions and built-ins on strings, arrays and maps refine sequences of characters and functions | built |
| 7 | `Heap`, `MCHeap` | objects, interning, `import`, and a collection step by step | built |
| 8 | `HeapProofs` | one string of each text, exact marking, nothing lost by the sweep | built and proved |
| 9 | `TreeProofs` | an accepted program has become its tree, the one the precedences give | built and proved |

Every safety property that a run finds to hold is proved, but for those of `Containers`
(section 5): its walks over texts are recursive operators, and what they compute for
every text would be an induction over data.
