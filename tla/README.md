# Dura Lex Compiler in TLA+

The repository is a C90 to RV32 compiler: flex and bison build a syntax tree, and
one walk over it (`Node::EmitRISC`) prints assembly. In the compiler nothing runs concurrently
and nothing is persisted; its test harness runs threads. What makes the compiler hard to get right is that all
nodes share one mutable object, `ast::Context` (registers, stack frame, symbol
tables, labels, "current" type): every node takes something from it, emits its
children, which take and give back things of their own, and must find its own
part untouched. Four models explore *every order* in which nodes can do that; a fifth
is what the compiler computes itself, in all orders of declarations and scopes; a sixth
compiles expressions, runs the code and compares it with C; the last is the harness.

## Parts of the system

| Part | State it keeps | Operations | Hard because | What makes it correct |
|---|---|---|---|---|
| Register allocator (`ast_context.cpp` 27-359) | `registers`, `f_registers`, `used_registers`, `spilled_registers` | `allocate_reg`, `allocate_arg_reg`, `deallocate_reg`, `spill_register`, `initalize_regs`, `initalize_arg_regs` | running out of registers; calls among operands; emitters that forget a release; state left over from the function before | two active emitters never name one register; arguments are where the callee reads them |
| Stack frame (`ast_context.cpp` 388-488) | `stack_frame_pointer`, `init_arr_loc_base_`, the slots in the symbol tables | `init_stack`, `push_stack`, `pop_stack`, `allocate_stack`, `allocate_stack_array` | variables, parked operands and spills share 256 bytes that are never given back on leaving a scope | live slots are disjoint and inside the frame |
| Symbol tables (`ast_context.cpp` 430-458, 746-1032) | four stacks of scopes, `current_type_` | `push_scope`, `pop_smoke`, `findSymbol`, `addEnumVal`, `addGlobalVar` | variables and enumeration constants are looked up apart; the type travels in a global | a name means its innermost declaration |
| Control flow (`conditional/`, `misc/`) | `label_map`, `break_label_`, `continue_label_`, `cases_map_stack_`, `default_switch_label_` | one `EmitRISC` per statement | labels are taken early and defined late, around any nesting of other statements | every jump has one target, the right one |
| Calls and parameters (`function/`) | argument counters, registers of the allocator | `FunctionCall`, `FunctionArgument`, `FunctionParameter`, `FunctionDefinition` | nested calls, mixed integer and floating arguments | caller and callee agree on registers |
| Instruction selection (`operation/`, `pointer/`, `array/`, `ast_identifier.cpp`) | none of its own | one `EmitRISC` per operator | evaluation order, registers held over calls, type of an operand | emitted code computes the value of the expression |
| Constant expressions (`EvalConstExpr`, `getValue`, `GetConst`) | `enum_stack`, `cases_map_stack_` | one `EvalConstExpr` per node; `addEnumVal`, `findEnumVal`, `getCases`, `getLabelCase` | enumerators defined by one another in scopes that come and go; labels evaluated twice; width, division, shifts | equals C's value; a collected label is found again |
| Literals (`make...Label`, `emitLabels`) | three maps | append, print | - | each label printed once |
| Structs, typedefs | joined names in the symbol table | unfinished in the source | - | - |
| Lexer, parser, driver, pretty printer | typedef names | build or print the tree | - | - |
| Test harness (`scripts/test.py`) | results, log directories, XML file | a pool of five-stage pipelines with timeouts | failures and timeouts of one test beside others | every test is reported once |

The tree is walked depth first. Emitters call the Context and each other; the
Context calls nobody. The allocator reaches the frame in one place
(`spill_register` calls `push_stack`), the symbol tables hold the frame's slots,
and a call frees the allocator's argument registers behind the back of the
emitters around it. Every exception of the Context ends the compilation.

## Modules

| Module | Models |
|---|---|
| `Registers` | the register allocator and the emitters that drive it |
| `RegisterPool` | what the allocator promises: loans are exclusive until a file runs out |
| `Frame` | the frame of a function |
| `Symbols` | scopes, lookup, the current type |
| `LexicalScope` | what the symbol tables promise: the scoping rule of C |
| `ControlFlow` | labels and jumps of statements |
| `IntegerWords` | integers of a given width, wrapping, division, bits, comparisons: for the compiler's own arithmetic, the machine's and the reference's |
| `ConstantExpressions` | enumerators, case labels, bounds, global initialisers and elements: what the compiler evaluates, and beside it what C says |
| `Syntax` | expression nodes: constructors, the methods that answer from the tree and the symbol table |
| `CodeGen` | instruction selection: `EmitRISC`/`EmitADDRESS` of the expression nodes, `load`, `store`, prologue and epilogue |
| `Machine` | the instructions the emitters use: registers, arithmetic at a word's width, memory as cells, what the assembler accepts |
| `CSemantics` | the reference: types, value, effects and undefined behaviour of an expression in C |
| `Expressions` | composition: input, compiler, machine, and C beside them |
| `TestRunner` | `scripts/test.py` |
| `MCRegisters`, `MCFrame`, `MCSymbols`, `MCControlFlow`, `MCConstantExpressions`, `MCExpressions`, `MCTestRunner` | values of the constants for TLC |
| `SequenceFilter` | erasing from a sequence, as a recursive function: what the deque of the allocator and the property of `ControlFlow` use |
| `DataLemmas` | induction over the naturals in a form the provers can use, and what it gives about powers of two and remainders, `Without`, the orders of `SetToSeqs` and `SumFunction` |
| `RegistersProofs` | theorems about the allocator: its invariants, then its contract |
| `ExpressionsProofs` | what every emission keeps, and what follows for the function around an expression and for the machine that runs it |
| `FrameProofs`, `SymbolsProofs`, `ControlFlowProofs`, `ConstantProofs`, `TestRunnerProofs` | theorems about the other models |

**Stack of emitters.** In `Registers`, `Frame`, `Symbols` and `ControlFlow` the C++ call stack is a variable. In `Registers` it is
`held`: one handle for each active `EmitRISC` that still has a register to name.
In `Frame` it is `operands`, in `ControlFlow` it is `open`. An emitter becomes a
pair of actions, one for what it does before its children and one for what it
does after them, and any sequence of complete emitters may come between. So the
behaviours are those of all programs at once, without a syntax tree.

**Exceptions.** Throwing sets `phase` to `"aborted"`; `Stopped` is the only
action from there, so TLC's deadlock check stays on in their runs. `Expressions` and
`TestRunner` end (a program returns, the script exits) and switch it off.

### Registers

`busy` is the set of registers whose flag is 1 in `registers` or `f_registers`,
`used` the deque, `spilled` the keys of `spilled_registers` (the offsets are
never read back: `get_spill_offset` has no caller). `Acquire`/`Release` are an
emitter that takes and returns a register, `AcquireBySpilling` the one that gets a register
somebody else has, `EndAssignment` the one that never returns it
(`ast_assignment.cpp` allocates `right_reg` and does not deallocate it).
`BeginCall` frees the argument registers of everybody, `PassArgument` takes the
next one, `EndCall` ends the call. `BeginFunction` is everything from
`initalize_regs` to the allocation of the return register.

Two points follow the build rather than the intent. `f_register_map` numbers the
float registers 32 to 63 and every use indexes an array of 32 with that number.
The flags read and written that way live in the memory behind `f_registers`; the model
takes them to be kept (nothing else writes there in the builds examined) while
the *default* read the same way may be 1 for any register of `Stray`, chosen
anew at each function. And the order in which `initalize_regs` fills the deque is
that of an unordered map, so any order is allowed. The same holds for `Init`.

Two history variables carry what the properties need: `ample` says that in this
function no request went beyond the first list of `allocate_reg` and no entry of
`spilled_registers` is left from earlier ones; `leaked` are the registers
assignments kept. Both are reset when they stop mattering, so they cost few states.

### Frame

`sfp`, `base` and `tables` are `stack_frame_pointer`, `init_arr_loc_base_` and
the slots in `symbol_table_stack_`. A slot is an offset from `s0` and a size.
`operands` are the left operands that `Operation::EmitRISC` stores below the
pointer before it emits the right one. `init` and `retired` are history: where the
newest array initialiser stored, and the bytes nobody refers to any more.

An array is declared with no bound, with a literal, or with a constant expression. The parser does not fold
expressions and `getValue` is 0 for all but literals, so `int x[3 + 2]` reserves nothing (`SizeOf`); its initialiser
stores five words all the same, from where `init_arr_loc_base_` then is. `LiteralBoundHarmless` is about arrays that have bytes of their own.

`phase` tells the file scope before the first function from that after one. Before it no register is taken, so a declaration cannot
spill; after it those that `Assignment` kept may still be marked, and it can. Within a function `Spill` may happen at any time:
which emitters exhaust the registers is the subject of `Registers`.

### Symbols

`tables` and `enums` are the two stacks that decide what a name means; `current`
is `current_type_`. `declaring` is history, the type a declaration is
written with. `Pitfalls` chooses which programs are looked at: with the empty set,
programs in which no variable hides an enumeration constant of an outer scope,
no relational operator on doubles stands in an initialiser, and no enumeration constant
hides a pointer. The code is the same for all; those programs are where it
departs from C.

### ControlFlow

Labels are numbered by the counter of makeUniqueLabel (".L"). A record of `open`
holds the labels its statement has taken. A `for` without a condition writes no branch back (`Back`). The default label is *not* read from
that record when it is emitted but from `default`, as in the code.
`NestedDefaults` chooses whether a switch with a default may stand in a switch
whose default is still to come.

### ConstantExpressions

`enums` is `enum_stack`; `switches` has for each switch under way the number of scopes around it, the
labels still to be emitted and the keys of its map in `cases_map_stack_`. `Enumerator` and
`ImplicitEnumerator` are `EnumValue::EmitRISC`, with the exceptions of the evaluation and of `addEnumVal`;
`BeginSwitch` is `Switch::EmitRISC` up to the body, with `getCases` for all labels, `EmitCase` is
`Case::EmitRISC`, which evaluates the label again. `Bound` and `Element` are the places that use `getValue` and `GetConst` instead.
`GlobalInitialiser` asks `getValue` of the `NodeList` (or `ArrayInit`) the grammar wraps an initialiser in (`parser.y` 397); neither has
one, so `Node`'s answers 0 and `.word 0` is written even for `int x = 2`. (`compiler_tests/a/global.c` assigns `x` before it reads it and
does not notice.) Three variables are history: `meant`, what each name means in each
open scope by the rules of C, `next`, the value C gives an enumerator without one, and `last`, the newest
constant as the compiler and as C have it.

An expression is the sequence of its nodes, operands before operators, with the places of the operands
in each node. The tree is the same, and the evaluators become recursive functions on the places, which the
provers can reason about, instead of RECURSIVE operators on trees, which they cannot.

`Pitfalls` chooses the programs, as in `Symbols`; the code is one for all of them. With any one feature
added TLC finds a property violated:

| Feature | What happens | Where |
|---|---|---|
| `unevaluated` | `?:`, `sizeof`, a call or an assignment in a case label or enumerator is 0; bounds and elements other than literals are 0 | `ast_node.hpp` 38-78, `ast_array_declarator.cpp` 12 |
| `initialised` | a global initialiser is 0, whatever was written | `parser.y` 397, `ast_init_declarator.cpp` 29 |
| `unneeded` | `0 && 1 / 0` throws | `ast_logical_operation.cpp` 381 |
| `implicit` | an enumerator without a value is 0 wherever it stands | `ast_enum.cpp` 36 |
| `captured` | a label is evaluated before and after the declarations of its switch's body, with two results | `ast_case.cpp` 10, 30 |

C++ leaves three things about the compiler's own arithmetic open. Sums and products wrap and shifts take their count
modulo the width, as in the builds; a quotient that does not fit traps on x86 and not on ARM, so
`DivisionTraps` is a constant, and the theorems hold for both.

### Expressions

The first models forget the tree to get all orders. What an operator *computes*
needs the tree, so here an expression is a value: a record for each node, built by
the operators of `Syntax`. `Emit(e, dest, c)` of `CodeGen` is `EmitRISC` as a function from
Context to Context: the tree below, the register to leave the value in, and the Context
with the instructions written so far, the stack pointer, the registers marked, labels,
constants and the flags `left_op_`, `array_index_`, `is_current_pointer_`. Each emitter calls the
same others in the same order as the C++ method it is named after.

An emitter reaches the nodes below it through virtual functions. So does the model: `Emit`, `GetIdentifier`, `GetType`
and `Parts` (and `CType`, `CValue`, `CPlace` of the reference) are operator CONSTANTS, and `EmitNode`, `NodeIdentifier`,
`NodeType`, `PartsOf`, `TypeRule`, `ValueRule`, `PlaceRule` are what the class of a node does when it is called. `MCExpressions` gives
each constant the definition that goes with it, which ties the knot for TLC; the proofs assume no more of
the constants than they state (below).

`Expressions` takes a program from `Programs` (an expression with its use: returned,
a statement, an initialiser), the type
some earlier declaration left in `current_type_`, what an array's uninitialised `scope`
happens to be, and a memory. `Compile` is the whole walk; then one step is one instruction. The end is one of
`returned`, `trapped` (an access outside the frame and the objects, a jump on a
value nobody knows), `rejected` (by the assembler: wrong kind of register, a label twice or never),
`thrown` (by the compiler). The call instruction leaves its return address in `ra`, so a function that calls
another returns only because `init_stack` saved `ra` and `end_stack` fetches it (`CallerIntact`). `ProgramsAssumption` says what the parser guarantees: expressions are finite, with
nodes the grammar has. Registers start as junk, calls turn every caller-saved
register to junk, and a cell read at another width or type than it was written is junk;
so a result that happens to be right by luck is not.

`CSemantics` evaluates the same tree over objects, knowing nothing of registers, the
frame or instructions. It marks what C leaves undefined or to the implementation (overflow, division by zero, shifts,
accesses outside an object, unsequenced accesses, a char too small), and the properties say
nothing then.

The code departs from C in many places. `Departures` lists them as predicates on
the expression, each named and each tied to lines of code, and `Init` takes the programs whose departures are
among `Pitfalls` (empty in the run). The predicates are as narrow as they could be made with the run
still passing, and with any name added to `Pitfalls` TLC finds a property violated:

| Departure | What happens | Where |
|---|---|---|
| `RightOperandFirst` | int `&&`, `\|\|` emit their right operand before the test of the left one, and again after it | `ast_logical_operation.cpp` 263-346 |
| `Unscaled` | integers are scaled by the identifier of the left operand: `*p + 1` is scaled, `v + 1` and `1 + p` are not | `ast_operation.cpp` 15-83 |
| `WrongTarget` | `p[i] = e` stores into `p`; `v[i] += e` uses the element as an address; `*(p + 1) = e` throws; `*s = e` stores a word; `v[v[0]] = e` | `ast_array_index.cpp` 43-60, `ast_assignment.cpp` 18-48 |
| `ValueOfAssignment` | the value of `x = 3` is not in the register the expression around it reads | `ast_assignment.cpp` 27-43 |
| `CharWidth` | an int computed from a char is parked in a byte; `~c`, `!c` throw; `sizeof` of arrays and pointers | `ast_operation.cpp` 27, `ast_unary_expression.cpp` 56-84, `ast_size_of.cpp` 13 |
| `HeldOverCall` | a temporary holds the left operand of a comparison, or a target, over a call | `ast_logical_operation.cpp` 263, `ast_assignment.cpp` 23 |
| `FloatTyping` | registers are chosen by `getType`, which is INT for a floating constant, a comparison, an element | `ast_operation.cpp` 38 |
| `ConstantOfCurrentType` | a floating constant is loaded as `current_type_`, or throws | `ast_constant.cpp` 23-70 |
| `AddressOf` | `&g` of a global takes an address in the frame; `&*p` emits nothing | `ast_identifier.cpp` 46-52 |
| `ArrayScope` | an array whose scope reads as GLOBAL throws on access | `ast_context.cpp` 470, 563 |

### TestRunner

`main` is the program counter of the main thread, from the removal of `bin/output` through the build, the
report (`JUnitXMLFile`, whose exit closes it after an exception too), the tests and the
coverage server to the exit with its status. `future` is the state of each test, with and
without a pool; `outcomes` how its tools ended so far, `result` its `Result`, `file` what each
test's directory holds: nothing, a file of an earlier run, or one of this run. `rmtree` is called with `ignore_errors=True` and `mkdir`
with `exist_ok=True`, so what cannot be removed is left in silence: each `rmtree`, of `main` and of `run_test`, may leave any set of a test's files
that `Leavings` names for it. `mkdir` may raise. `stale` is history: the old files the `rmtree` of `run_test` left to a test. One step of a test is its start
(with the rmtree of its directory) or one tool: it ends well and writes its output, fails, is
killed by its timeout, or cannot be started, which raises. The compiler may return 0 having written
nothing, since `ASAN_OPTIONS=exitcode=0` hides its crash; the assembler then needs a file that is not there, or takes the one an
earlier run left. `PassEarned` says that this is the only way to pass without having compiled.
The main thread takes results in any order (`as_completed`), raises what a test raised, and leaves the
pool only when all futures are done.

## Runs

| Run | Instance | Shows |
|---|---|---|
| `RegistersInt` | t0 t1 / a0 a1, sp s0 reserved; nesting 4; up to 3 parameters | refines `RegisterPool`; shared registers are shared by spilling or calls only; only assignments leak; reserved registers are spilled last |
| `RegistersBoth` | t0 / a0 and ft0 / fa0 fa1, fa1 stray; nesting 3 | exclusive loans across both files; arguments in place; deque and flags agree |
| `RegistersNestedCall` | as `RegistersInt` | *violated*: arguments of a call with a call among them |
| `Frame` | three words below the saved registers, widths 4 and 8, a bound of 2, literal or not, three scopes, two names | slots in the frame, disjoint, every byte accounted for, initialisers of arrays with a literal bound stay in their array |
| `FrameGlobals` | four words below the saved registers, bounds 1 and 6, one global array | *violated*: global array inside a frame |
| `Symbols` | two names, two types, four scopes, three declarations | refines `LexicalScope` |
| `SymbolsHiddenEnum` | same, with hidden enumerators | *violated*: the constant stays visible |
| `ControlFlow` | nesting 3, 8 labels, two case values | break and continue go where they should; every jump lands; no label twice |
| `ControlFlowNestedDefault` | same, with nested defaults | *violated*: the outer default label is never defined |
| `ConstantExpressions` | every operator on two enumerators, chains two deep; two names, five scopes, two enumerators at a time, four lists of case labels; words of 4 bits | constants and enumerators are C's but for those of the features, collected labels are found |
| `Expressions` | every expression of one operator over seven leaves, about 20 shapes of a second operator, pointers, arrays, floats and doubles, assignments to every kind of target; three memories | the code returns C's value, has C's effects and no other, keeps the caller's registers; `sp` and `s0` are the ends of the frame and the next instruction is one of the function's at every step; nothing defined is thrown at, rejected or trapped; the Context is restored, every jump has one target, stores by `s0` are whole variables or parked below them |
| `TestRunner` | three tests in two directories, two of one stem, two threads or none, every outcome of every tool; one test's files may resist removal, all or all but the assembly removed | the report is truthful and complete, tests keep out of each other's files, a pass is earned or owed to assembly that could not be removed, no test outlives the report, the script ends |

The two register instances reach every boundary of the real one: a file with
fewer emitters than temporaries, one that falls back on argument registers,
one that spills, one that spills a register already spilled, one whose deque runs
down to the reserved registers, and more parameters than argument registers. The
code treats its lists uniformly, so longer lists add repetitions of the same
steps. With three words and widths 4 and 8 the frame holds up to three slots, fills exactly, and
overflows by one word and by two; an array of two has its last element apart from its first, and one without bytes of its own has an element too many.
In `FrameGlobals` an array of six words reaches below the saved registers of the function that comes after it. Four scopes are the global scope, the
parameters', the body and one nested block, which is opened and closed any number of times.
Three statements nest a loop in a switch in a loop and every other pair inside a third.

Words of 4 bits in `ConstantExpressions` have every kind of value the operators tell apart (zero, one, the sign,
both ends), and expressions of enumerators defined by expressions reach them. Five scopes hold a switch in the body of a switch,
and two declarations of one name in different scopes need no third to be told apart.

`Expressions` has words of 8 bits and chars of 4, so that overflow, sign and the width of a
parking place matter to small numbers; the code has no literal that depends on the width. The frame is
96 bytes, so that its addresses are words (the code's is 256). Two operators deep is where
everything one emitter can do to another happens: an emitter is exposed to its operand
through registers, parking place, labels and flags only, and a third level repeats that; `Depth2` samples one.
The memories have values that are small, zero and negative, at the edge of a word and of a char, and pointers to an
element, to the last element, and null. `MCPrograms` keeps below the number of temporaries: what happens beyond is
the subject of `Registers`.

Three tests and two threads make a thread take a second test while another runs; three is the least
for which a result waits while another is taken, and the pipeline has its five stages. Old files that resist removal matter to the test they belong to; the directory of one test, which
shares a directory with the first and may start before or beside the others, shows what they do (`Leavings`).

Bounds: `MaxHeld`, `MaxParams`, `MaxScopes` (of `Symbols`, `Frame` and `ConstantExpressions`), `MaxGlobals`, `MaxOperands`,
`MaxNames`, `MaxOpen`, `MaxLabel`. They only cut behaviours short: each stands in the
guard of the action that would go on, so every explored behaviour is one of the program.

`Frame` uses symmetry in the names: no property of that run names one, and all are invariants.

**Fairness.** None in the models of the compiler. It is one terminating walk over a finite tree; what it
must eventually do is return, which no shared state can prevent. Their properties are
invariants, action properties or refinements. `TestRunner` assumes weak fairness of the main thread
and of each test: a tool that runs ends or is killed when its timeout is over
(`subprocess.run(timeout=...)`), and threads are not starved. No fairness is assumed of
`StopServing`, which is somebody pressing Ctrl+C: `Terminates` allows the script to serve
the coverage report for ever. Nor is any of a particular outcome: tests may fail, time out or raise in every way.

### Violations

`FrameGlobals` needs three declarations: a 24-byte array before the first function is entered at -24; the function begins, with the
pointer at -16, under the saved registers; its local variable is put at -20, inside the array. The four violating runs are disagreements between the code and what
`docs/c_compiler.md` asks for; each is described under "findings" in
`PROJECT.json`. Further departures met while reading, modelled but without a run:
the initialiser of an array without a bound stores over the array declared before it (`ast_context.cpp` 482);
the bound of `int x[3 + 2]`, an example of the comment in `ast_array_declarator.cpp` 24, is taken as 0, and its initialiser stores over
other variables; every global initialiser is 0 (`ast_init_declarator.cpp` 29); `for (;;)` has no branch back and
runs its body once (`ast_for.cpp` 49); a test whose old files could not be removed may pass on an old compiler's output (`test.py` 203, 208);
spilling takes the *back* of the deque although the comment says "least recently
used" (`ast_context.cpp` 281); a relational operator on doubles in an
initialiser changes the type of the declarators after it
(`ast_logical_operation.cpp` 150); a floating constant fails to load after an
`int` declaration (`ast_constant.cpp` 63); `case 1: case 2:` throws
(`ast_case.cpp` 28); global pointers are not recorded as such (`ast_context.cpp` 968); and the tables
under ConstantExpressions and Expressions.

## Proofs

For every value of the constants allowed by the assumptions
(`RegisterAssumption`, `FrameAssumption`, `SymbolsAssumption`, `ControlFlowAssumption`, `WidthAssumption`,
`ConstantAssumption`, `ProgramsAssumption`, `FrameAssumption` of `Expressions`, `TestAssumption`; TLC evaluates them on every run). They ask of constants what the code
has: finite register files with argument registers apart from temporaries, widths that
are not zero, finitely many names (`FrameAssumption`, so that sizes can be added up), types
among which are `int` and `double` (`SymbolsAssumption`), case values that are finitely many, an `int` wider than a `char`, and expressions whose operators stand behind
their operands.

Every invariant below was checked by TLC on the instance of its run before it was proved.

### Registers

* `RegistersProofs!TypeCorrect`, `Spec => []TypeOK`.
* `RegistersProofs!ExclusiveLoans`, `Spec => []Exclusive`. `Exclusive` is not
  inductive: that a fresh register differs from those held needs that held
  temporaries are marked; that they stay marked needs that no release frees a
  register of someone else, which needs that nothing held is in
  `spilled_registers` while `ample`. The invariant adds these facts. The action that could
  break it is `BeginCall`, which frees registers of other emitters: argument
  registers only, and a temporary held while `ample` is none.
* `RegistersProofs!DequeInStep` (`Spec => []DequeTracksFlags`), `SharingAnnounced`
  (`Spec => []NoSilentSharing`) and `ReservedGoLast` (`Spec => ReservedLast`, an action property).
  They hold when files have run out, where `Exclusive` says nothing. The invariant adds to
  `IInv` that the deque has the registers of `registers_default` in front of all others but stray
  ones (`OldestFirst`: this is what keeps the stack pointer from being spilled), that a
  holder that was neither spilled nor robbed by a call has a marked register (`Counted`), that of two holders
  of one register the older counts on it only while an entry of `spilled_registers` is
  there to absorb the younger's release (`Absorbed`), and that a reserved register that
  was handed out is no longer in the deque (`ReservedHeld`). `Absorbed` is the reason
  why `deallocate_reg` looks at `spilled_registers` before it clears the flag.
* `RegistersProofs!LeaksKnown` (`Spec => []OnlyAssignmentsLeak`), `ArgumentsArrive`
  (`Spec => []ArgumentsInPlace`) and `AllocatorKeepsContract` (`Spec => KeepsContract`, the
  refinement of `RegisterPool`). `ArgumentsInPlace` needs `ArgsCounted`: while `ample`, the argument
  registers marked are exactly the first ones, as many as the innermost call has passed in that file,
  and no other call has begun since. The loans of `RegisterPool` are the registers of the held
  temporaries. The initial state has none; each action maps to a loan, a return,
  a kept register, the end of the promise, or to nothing (`PassArgument`,
  `LoadConstant`). A fresh loan is free by `Exclusive`, and `ample` ends only with every temporary marked, which by
  `OnlyAssignmentsLeak` is on loan or kept.

### Frame

* `FrameProofs!TypeCorrect`, `FrameSafe` (`Spec => []SlotsInFrame`) and
  `NoOverlap` (`Spec => []SlotsDisjoint`). The last two come from one invariant:
  every slot lies at or above the stack pointer, the pointer is within the frame,
  a later operand lies below an earlier one, and every operand below every variable.
  A new slot ends where the pointer was, so it is apart from everything above; taking
  the last operand back raises the pointer by that operand's size, at most to the end of its
  slot, and nothing else lies below that.
* `FrameProofs!FrameAdds` (`Spec => []FrameAccounted`): the pointer has gone down by the saved
  registers, the variables of open scopes, the parked operands and `retired`. The invariant
  (`Accounted`) states it with one sum over tables and one over operands, and each
  action moves the pointer and one sum by the same number. A declaration that replaces a name's
  slot, a scope that is left and an operand taken back each change
  one term; `SumSplit` and `SumChange` of `DataLemmas` say what that does to the sum.
* `FrameProofs!InitialisersContained` (`Spec => []LiteralBoundHarmless`), for arrays with a literal bound: any other reserves nothing. Not inductive: a
  declaration *after* the initialiser might be put over the array. `Contained` adds that the array, even when its
  scope is closed, lies above the pointer and the operands and apart from every
  variable that can be named.

### Symbols

* `SymbolsProofs!TypeCorrect`, `Spec => []TypeOK`, for every set of pitfalls: the stacks of tables and
  constants have one height, and the phase says how high it is (`ScopesOpen`), so that no `pop_smoke`
  meets an empty stack.
* `SymbolsProofs!ScopedLexically`, `Spec => LexicallyScoped` under `Pitfalls = {}`: the refinement
  of `LexicalScope`. With pitfalls it is false, as the run `SymbolsHiddenEnum` shows. What a name means is read from the tables by
  a search from the innermost scope, twice: constants of all scopes first, then variables. `ConstantsVisible` (no
  declaration lies over a constant of an open scope) makes the two searches
  one; `TypeKept` (the current type is the one the declaration was written with) makes the entry the
  one C asks for. The mapping takes the meaning of each name now for `Now`, and its meaning at each height of the
  stack for `Saved`; declaring changes the top meaning of one name, opening a
  scope copies the meanings, leaving one restores those below.

### ControlFlow

* `ControlFlowProofs!TypeCorrect` and `TargetsAlwaysMirror` (`Spec => []TargetsMirrorNesting`),
  for every nesting of statements, any number of labels and of case values, nested
  defaults or not. `Nested` says that
  `break_label_` lists the end labels of the loops and switches under way, in
  order, and `continue_label_` the continue labels of the loops, by an increasing map
  from one to the other: in this form pushing and popping are easy to follow. `TracksDetermined` then shows by
  induction on the nesting that such a list is the list of marks without the statements that have
  none, which is what the property says. `Sound` adds what types need: a loop has a continue label, the condition label of a
  `for` is a label, `default_switch_label_` is not empty while a default is to come.
* `JumpsAlwaysLand` (`Spec => []JumpsLand`) and
  `LabelsAlwaysUnique` (`Spec => []LabelsUnique`), under `~NestedDefaults`: with nested defaults `JumpsLand`
  is false, as the run `ControlFlowNestedDefault` shows. The invariant adds to `Nested`, by which a `break` jumps to a label
  still awaited and a statement that ends pops its own, two facts.
  `Ready`: the start of a loop is already defined when its back edge is
  written, the labels within a statement differ, and the one default awaited is the
  one in `default_switch_label_`. `Taken`: every label defined or awaited was taken from
  the counter, so those a new statement takes are fresh. Four lemmas say what
  beginning, going on with, ending or staying in a statement does to these facts
  whatever the statement is; each action is then a case of one of them.

### Constant expressions

* `ConstantProofs!TypeCorrect` (`Spec => []TypeOK`), with every feature: what is evaluated, however large
  the expression, is an `int`. The invariant (`StackInv`) adds that each switch's two scopes lie inside those of the switches
  around it and are open (`Nested`), so that leaving a switch never pops the global scope.
* `EnumeratorsAlwaysRight` (`Spec => []EnumeratorsRight`) and `ConstantsAlwaysRight` (`Spec =>
  []ConstantsRight`), without the features `unevaluated`, `unneeded` and `implicit`, the second also without `initialised`, and whatever `captured`
  is: each of the four is where a value differs from C's, and TLC shows a violation with any of them.
  Global initialisers C makes 0 are all that is left of them, so on these `ConstantsRight` says little; it is about enumerators, case labels,
  bounds and elements.
  `ScopesAgree` says that `findEnumVal` and `meant` agree in each open scope, the first from the declarations
  of all scopes around it, the second from what was visible when the scope was opened. It is inductive only together with
  `EvaluatedRight`: where the scopes agree, the evaluators and C agree on an expression without those
  features. That is by induction on the places of the nodes; it needs that wrapping is the identity on what
  fits (`WrapFacts`), that quotient and remainder are C's whenever C has them, that the bits of two ints make an
  int, and that an operand that throws has no meaning in C unless `&&` or `||` does without it.
* `CasesAlwaysFound` (`Spec => []CasesFound`), without `captured`. `CasesFound` speaks of the labels as evaluated in the body of
  their switch, also while other switches and blocks are open inside it. It is kept because a declaration in the
  body names nothing a label to come mentions, a declaration elsewhere does not reach the body's scopes, and an expression
  depends on the names it mentions only (`EvaluatedDepends`, again an induction on the places).

### Expressions

What is asked of the code generator is that a node, wherever it stands, leaves the shared Context as its parent and
its siblings need it. The properties of the function as a whole that say so, `ContextRestored`,
`LabelsResolved` and `ParkedBelowVariables`, follow from nothing about whole functions: operands are emitted in the middle of an
operator's code, into a register it chose, with registers borrowed, bytes parked and labels promised. The inductive
statement is therefore a contract between the Context `a` before and `b` after an emission,
`Emits(a, b, D, leak)`: the compilation has thrown, or

* `Restores`: `stack_frame_pointer` and symbol table are as before, no flag is set that was not, every
  register marked before is still marked and no other one is, unless `leak`;
* `Writes`: code was appended only; none of it is a `ret`, its instructions write registers that were free, argument registers, or those
  of `D`, and of the caller's only what `D` has; a store relative to `s0` writes a whole variable of the frame or lies between its bottom and where
  `stack_frame_pointer` was;
* `Labelled`: the labels defined by the new code were made by it, each once, and every jump in it has its label.

`Emitting` generalises it to the middle of an emission: `S` is borrowed, `n` bytes are parked, the labels of `P` are made and not yet placed. Each helper of the
Context takes `Emitting` to `Emitting` (`AllocateEmitting`, `PushEmitting`, `MakeLabelsEmitting`, `PutPlacing`, ...), each emitter is
a chain of such steps that ends with `S`, `n` and `P` as they were, and an operand fits into it by
`EmitEmitting`, from *its* contract.

* `ExpressionsProofs!EmissionsKeepTheContract`: every part of every program keeps the contract for all
  registers and Contexts. By induction on the height of a node; one lemma for each emitter
  (`OperationEmits`, `LogicalEmits`, `TernaryEmits`, `IndexEmits`, `UnaryEmits`, `IncrementEmits`, `AssignmentEmits`, ...). `leak` is that the
  program assigns: `Assignment` never gives its register back.
* `AlwaysContextRestored`, `AlwaysLabelsResolved`, `AlwaysParkedBelowVariables` (`Spec => []` of each), for every set of programs, symbol
  table, frame size and width, *with* all departures from C: what the emitters get wrong is never this. `IInv` is the contract
  for the function around the expression; `Compile` establishes it (`WrittenSettled`, from `BegunFacts`: no label is used and
  nothing is stored by `s0` before the expression), and the machine changes neither program nor Context. A declaration is apart: its
  initialiser is emitted in a frame that is lower by the variable, with a register borrowed (`DeclaredFresh`).

* `AlwaysFrameHeld`, `AlwaysStaysInCode` (`Spec => []` of each), for every program and memory, again with all departures from C. They speak
  of the machine, so `IInv` is not enough: what holds at an instruction depends on the one that ran before it. `MInv` adds `Held`,
  which says for every place of the code what `sp` and `s0` are there. It is inductive because of the shape of what was compiled,
  `Framed` (`ClosedFacts`): the prologue, the epilogue, and between them no `ret` and no instruction that writes a register
  of the caller, which is the part `Tame` of the contract. A jump leads to a label, labels lie between the
  two (`PlaceOf`), and each has one place (`AlwaysLabelsResolved`), so no jump enters or leaves the middle (`JumpHeld`). That
  `addi` undoes `addi` on words of any width is `WordAdd`, from `DataLemmas!Congruent`. `ra`, which a call
  overwrites, and `s0` of the *caller* come back from memory, where a store through a pointer may have changed them: that is `CallerIntact`, and stays with TLC.

The six theorems have one hypothesis, `Ties`: of every part of a program, `Emit` is `EmitNode`. It is what a
virtual function is, and `MCExpressions` defines `Emit` so; it quantifies over all Contexts, which TLC cannot
enumerate, so it is a hypothesis and not an `ASSUME`. `GetIdentifier` and `GetType` may
answer anything.

### TestRunner

* `TestRunnerProofs!TypeCorrect`, `ReportTruthful`, `NoInterference`, `PassesEarned`, `PoolDrained` and
  `StatusTruthful`: `TypeOK`, `ReportRight`, `OwnArtefacts`, `PassEarned`, `QuietWhenClosed` and
  `ReportComplete`, for any number of tests and threads and any files that resist removal, from `TestAssumption` (no test lies in
  a directory named as another test). One invariant carries them, a conjunction of facts each about two
  parts of the state: `Phases` says which futures there are while the main thread is where it is; `OneByOne` that
  without a pool a test runs only when those before it are reported, so none runs when the main
  thread has left; `Complete` that a main thread that left without an exception has reported
  every test (a counting argument: reported tests are distinct, so as many as there are tests are all of them);
  `Quiet` that a pool is left when its futures are done; `Written` that what is reported
  has ended; `Pipeline` that a test that still runs has had only successes, and what the outcomes
  of one that ended say of its result; `Products` that a test that has not started has no new file, that one past the assembler had
  its input, and that a pass was earned. `OwnArtefacts` needs `TestAssumption` exactly where another test starts and removes its directory.

### Induction

The library's induction theorems take a predicate as a parameter, which the provers cannot
instantiate. `DataLemmas!SetInduction` states the principle of a *set*: a set of naturals with 0 and every
successor has all of them. It follows from the well-foundedness of `<`. With it, recursive
functions are within reach: `Without` (for the deque and the label stacks), the sums of `SumFunction`, the powers
of two, the evaluation of a constant expression node by node, and what an emitter keeps, by the height of its node. That a
recursive function has the value its equation says is proved by building a
function that satisfies the equation, one argument more at a time.

### Model-checked only

* `ReturnRight`, `EffectsRight`, `CallerIntact`, `CompilesAndRuns` of `Expressions`: that the machine computes what C says, and that no
  store of the program reaches the saved registers. They
  need `MInv` and, besides, an invariant of the machine at every instruction of every emitter
  against the meaning of the operands; and they hold only without the departures, which are predicates on whole trees. `TypeOK` of
  `Expressions` speaks of what the machine does to memories TLC is given.
* `Terminates`: liveness under fairness.
* The four violated properties are false, and no theorem is about them. Nor does one say that
  every jump lands with nested defaults, that lookup is lexical or constants are C's with pitfalls.

## Plan

Done: Registers, Frame, Symbols, ControlFlow, ConstantExpressions, Expressions with its machine and
reference, TestRunner; theorems for every safety property and both refinements a run checks, but for five
properties of Expressions that speak of values: what the machine computes and what memory holds. Next, in this order:

1. Proofs: what `LexicalScope` and `RegisterPool` themselves guarantee; which of the results on `Symbols` survive
   each single pitfall; from `MInv`, that `CallerIntact` holds of programs without stores through pointers.
2. Statements in `CodeGen`: `while`, `if`, `switch` around expressions, so that the labels of `ControlFlow` are run.
3. Calls with arguments in `Expressions`: caller and callee together.
4. Struct access, if the source finishes it.

## Not modelled

Structs and typedefs (unfinished in the source), pointers to pointers, string
literals, pretty printing, the command line and the grammar. Struct members, enumeration types and
function declarations are left out of `Symbols` and `Frame`; case labels inside loops
and the labels of `||` out of `ControlFlow`. `Expressions` leaves out calls with arguments, spilling (the allocator's model
has it), the bits and rounding of floating values (they are integers, with the same four operations on the machine and in the reference, so that a swapped operand or a wrong register shows), conversions between int and floating (the
compiler never emits one), floating arrays and pointers to them, global arrays (they throw), and statements other than the three uses.
`TestRunner` leaves out the drawing of the progress bar and what the tools do. `PROJECT.json` lists each component with its status,
and each hazard no property covers, or covers in part, with the reason.
