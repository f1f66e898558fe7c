# A TLA+ verification project for the C-- (cmm) compiler

This directory specifies parts of the compiler in `src/`, of its standard
library in `libs/std/`, and of what `docs/spec/` promises about them; TLC checks
the specifications on small instances and TLAPS proves theorems about them for
every instance. Paths below are relative to the repository. `PROJECT.json` ("map")
names, definition by definition, the lines of the source that are modelled.

    tlc -workers 2 -config module_loader.cfg MCModuleLoader     # a run
    tlapm ModuleLoaderProofs.tla                                # the proofs

## 1. Inventory

The program is an ahead-of-time compiler: one thread, no state kept between two
invocations. What is hard about it is not concurrency but *order*: stacks that
are pushed and popped by a recursive traversal with early exits, tables that are
written in one phase and read in another, recursion over graphs with cycles, and
generated code whose behaviour depends on the context in which it was generated.
The library it compiles against is written in cmm itself; its hard parts are
containers whose state after a long sequence of calls decides what the next call
does, and memory ownership.

| component | source | state | operations | interacts with | what makes it correct |
|---|---|---|---|---|---|
| Driver | `src/driver/CompilerDriver.cpp`, `StdPrelude.cpp`, `Linker.cpp` | options, diagnostics, the unit, the object file | parse options; per file: lex, load imports, parse, import again, prelude, analyse, generate, emit, link | calls every other component | stops at the first phase that reports errors; leaves no object file behind; nothing of one input file reaches the next |
| Module loader | `src/driver/ModuleLoader.cpp` | set of loaded modules, DFS stack, declarations so far, errors | resolve a specifier, load a module, walk a list of imports (twice) | driver, lexer, parser, type context (types are registered while parsing) | each module once, imports before importers, cycles reported, ends |
| Lexer, token stream | `src/frontend/Lexer.cpp`, `TokenStream.cpp` | position, buffer, diagnostics | next token, peek, consume | parser, loader | progress on every input, exact positions |
| Parser | `src/frontend/Parser.cpp`, `OperatorPrecedence.cpp` | position, scopes of type names, errors | one method per production, synchronisation after an error | type context | precedence, progress of recovery |
| Symbols, types, layout | `src/ast/Symbol.cpp`, `Type.cpp`, `LayoutBuilder.cpp`, `Mangle.cpp` | chain of scopes; singletons of types; the field list of each record, rewritten once | declare, look up, resolve overloads; lay out records | sema, codegen, layout queries | lookup finds the innermost declaration; members do not overlap; all builders of a layout agree |
| Semantic analysis | `src/sema/SemanticAnalyzer.cpp` | scopes, flow state, diagnostics | one visit per node | everything below | accepts only programs codegen can translate |
| Compile-time evaluation | `src/sema/CompileTimeEvaluator.cpp`, parts of `SemanticAnalyzer.cpp` | environment, step and depth counters, failure flag | evaluate expressions, statements, calls and container methods; answer layout queries | sema, layout | bounded; agrees with run time; no value from a failed evaluation |
| Templates, reflection | `src/sema/TemplateRegistry.cpp`, `TemplateInstantiator.cpp`, `ReflectionRegistry.cpp` | templates, instances with a state each, pending clones | register, instantiate, resolve a use | parser, sema | one instance per argument list, recursion reported |
| Statement code generation | `src/ast/Stmt.cpp`, parts of `Decl.cpp`, `Expr.cpp`; `src/codegen/CodegenContext.cpp` | scope chain, defer and clean-up stacks, break and continue targets, insertion block | one `codegen` per node | LLVM builder | on every path out of a scope exactly its clean-up is run, in order |
| Expression code generation | `src/ast/Expr.cpp`, `CodegenContext.cpp` | the builder | one `codegen` per node | string ownership | each temporary string is released once |
| Containers, memory | `libs/std/hashmap.cmm`, `hashset.cmm`, `vec.cmm`, `deque.cmm`, `mem.cmm` | buffers, counters | the usual ones | allocator | behave as maps, sets, sequences; no leak, no double free |
| Threads | `libs/std/thread.cmm`, `atomic.cmm` | handle, flags | start, join, detach, lock, wait | pthread (external) | each handle joined or detached once |
| Other library modules, support | `libs/std/*.cmm`, `src/support` | none | bindings, pure functions, file access | libc | - |

`PROJECT.json` lists the same components with their status, and under "hazards"
every place we know where this code can go wrong in a way that a test hardly
reaches, with the property that would catch it or the reason there is none yet.

## 2. What is modelled

### Leaving scopes: `ScopeCodegen` implements `DeferSemantics`

`DeferSemantics` is the promise of `docs/spec/semantics.md` section 2 for one
call of a function: obligations are registered in the innermost scope when
control reaches their statement; leaving scopes discharges exactly theirs, the
innermost scope first, in each scope the deferred expressions last-in first-out
and then the local strings last-in first-out. It has two variables: what
each open scope owes, and what has been discharged.

`ScopeCodegen` is the code that has to keep it. The recursion of `codegen()`
over the statement tree is the variable `ctl`; the tree itself is not an input:
every step visits some statement a program could have next. `deferScopes`,
`cleanupScopes`, `breakBlocks`, `continueBlocks` and `scopes` are the members of
`CodegenContext` with those names; `terminated` is the question whether the
insertion block has a terminator. One action is one piece of a `codegen` method
between two visits of child statements (`BeginIf`, `BeginElse`, `EndIf`, ...).

A second set of variables follows one execution of the code as it is emitted:
`live` says whether that execution passes the insertion point, `frames` and
`ran` what it owes and has discharged, `store` the state of each local string.
They are the refinement mapping: `ImplementsDefer` says that `frames` and `ran`
behave as in `DeferSemantics`. The execution creates a lambda's closure and does
not call it.

The code of a loop body is followed for one iteration of the execution; `break`,
`continue` and the condition of that iteration all end the loop. For the
statements in braces this is enough: their scopes are left in the iteration, so
that the next one runs the same code from the same state. It is not enough for
what a body registers without braces, which lands on the list of the block
around the loop: `while (c) defer f();` reaches the defer in every iteration, and
`while (c) string s = f();` gives `s` a new buffer in every one. `IterateAgain` is the
end of a loop whose body the execution reaches several times: what the body has
registered in the block around (`AgainItems`, by all branches that some iteration can
take, `ReachAgain`) is owed once more and run once, which is put down in `skipped`
and, as what no code will discharge, in `lost`. `returned` is the `return`, if any, by
which the execution left a loop and the function: iterations before that one have
reached the same statements.

Left out: expressions, types, and the parts of `VarDeclAST::codegen` that do not
concern clean-up (initialisers, arrays, static storage); a `string` is
initialised with a buffer of its own. Assignments to strings are not modelled. A
condition that gives no code makes `codegen` return with its stacks still pushed
(`src/ast/Stmt.cpp:174,208,238`): not modelled. Nor are the iterations before one
that ends by `break` or `continue`; unbraced clean-up of the loop that such an
iteration passes by counts as skipped anyway.

### Imports: `ModuleLoader`

The recursion of `loadModuleFile` is `stack`, with one frame per import list being
walked; `active`, `loaded`, `out` and `errors` are its reference parameters. The
two walks of `compileFile` (before and after the entry is parsed) share the
actions and differ in `phase`. A file is chosen, when it is read, from `Sources`:
whether it lexes and parses, which name it declares, what it imports. `At` and
`SearchDirs` give what a specifier names in each directory, so that one file can
be reached by two specifiers and one specifier can reach two files. `edges` and
`parsed` are history. Candidate paths of a specifier, the canonical form of a
path and texts of messages are abstracted.

### Hash tables: `HashTable` implements `Associative`

`HashMap` and `HashSet` are the same algorithm with two differences, chosen by
`kind`. The slots, the counters and the probing are those of the code; a
tombstone's old key is dropped since no code reads it. `Rehash` goes over the
live slots in slot order. `Associative` is a map from keys to values with
the answers the calls return. Not modelled: a null hash or equality function
(then `put` returns `true` and stores nothing), `init` of a table in use, and
arithmetic overflow of the capacity.

### Flow analyses: `DefiniteInit`

`DefiniteInit` is the analysis behind two warnings, on one function body:
W3001 (`checkInitialization`, `initWalkStmt`, `initWalkExpr`, `initRead`) and
W3003 (`stmtAlwaysTransfers`, `visit(CompoundStmtAST&)`). As above the statement
tree is not an input; `ctl` is the recursion of the walk and each step visits a
statement that could stand there. `locals`, `state` and `warned` are
`initLocals`, the `state` handed from statement to statement, and `initWarned`.
In the code the two analyses and the scopes of sema are separate walks over the
same tree, in the same order; the model makes them in one. (Sema looks at the
increment of a `for` before the body; it declares nothing there.)

Next to it the model collects what executions do (the code `ast/Stmt.cpp` and
`ast/Expr.cpp` generate): `reach` is the set of states in which an execution can
come to the point of the walk, a state being the set of declarations that hold a
value, with names resolved by `scopes` as `Scope::lookup` does; frames of `ctl`
keep the executions that wait at an `else`, for a `case`, or have left by a
`break` or `continue`. Conditions are not interpreted: an execution takes either
way. `uninit` are the names that some execution has read without a value.

The analysis departs from the executions in places that are part of its design
or of its blind spots. The model names them: `blind` holds the names whose
assignments it may overestimate (address taken, one member or element
assigned, assigned under `&&`, read where `initWalkExpr` does not look, a name
used for two variables, an assignment that a `break` or `continue` jumped over in
a `do-while` or before the increment of a `for`); `coarse` those it may
underestimate (after any jump, after a `switch` with a default, a name that
means a global where it is read, and a name that the analysis takes to be read where
the execution only takes its address: the object of a method call, an array as an
argument, `&x.m`; `Receiver` in `MCExprs` is such an expression). Outside of those the
two must agree, in both directions: `NoSilentRead` and `NoFalseAlarm`. `Touched` are the
names an expression names in this way, and `Unfounded` those of them that are
reported without a read.

Left out: deferred expressions and bodies of lambdas (the walk does not visit
them; a lambda's reads are `unseen`), `compile_time` statements, `static`
locals, and types whose variables have a value without an initialiser.

### Templates: `Templates`

`TemplateRegistry` keeps the instances, `TemplateInstantiator` copies a body with
its parameter replaced, and `SemanticAnalyzer` asks for instances, analyses
them, and after the unit takes the rest from the queue `m_pending`. The three
call one another recursively: `ctl` is that recursion. Its frames are `use`
(`resolveTypeInstance`, `resolveTypeInstanceUse`), `resolve` (`resolveInstance`,
for a type in a body that is copied), `clone` (`cloneDecl` between the two parts
of `instantiateByKey`), `visit` (the analysis of an instance) and `call`
(`tryAnalyzeTemplateCall`); an action is one step of the frame on top.

A type is the sequence of its constructors; a template has one type parameter. A
body is a list of items: types (fields of a class, locals of a function) and
calls of function templates. A method of a class template is the calls in it.
Qualifiers, arrays, slices and the like are left out: they are rewritten like
pointers. Value parameters, deduction, template base classes (CRTP) and lazily
analysed methods are not modelled. `analysed` is history; the diagnostics are
sets of kinds.

What the model shows and the properties except: an instance that is called
first in a namespace is renamed when it is analysed (`scoped`), analysed again
in the queue and then a redefinition, and calls from outside of the namespace
do not find it. A name without `$` (its argument was refused) is not taken for
an instance (`HasDollar`). A failure in a copy gives no diagnostic but a null
type (`FailuresShow`): also for `Node<T>*` in `Node<T>`, which is refused like
`Node<T>` by value, and for an alias template used in a template. The types of
locals in a function template can be incomplete when its body is analysed
(`VisitLocal` asks for nothing): they are completed from the queue.

Nothing limits calls: a function template is analysed from inside the analysis of
its caller, when the caller's copy has ended and no longer counts. The model stops at
`MaxCalls` analyses of functions in one another (`CallsInProgress`), the end of the
compiler's stack; `Terminates` excepts (`Endless`) that it comes there by functions that
call one another with larger and larger arguments (section 4).

### Sequences: `Containers` implements `GrowableSequence`

`std::Vec` and `std::Deque` are one structure; `kind` says which, and the head of
a vec stays at 0. `obj` is that structure with the elements its `data` points at,
`heap` the buffers that are allocated: the allocator (external) hands out one
that is free, or fails. `NewCap` is the doubling of `reserve` in a `usize` of
`MaxUsize`; where the next doubling would leave it, Vec takes what is wanted and
Deque's loop does not end (`Never`). `GrowableSequence` is what
`docs/spec/stdlib.md` section 14 promises: a sequence, and a call that fails for
want of memory leaves it as it was. `ImplementsSequence` is the refinement, with
the elements from `head` on as the sequence.

The compiler has each method a second time, in `evalContainerMethod`, for
constexpr functions. Those are the operators `Ct...`: what the evaluator answers
and leaves for the same call on the same object. `CompileTimeAgrees` compares
every step with it, except where one of the two gives up; the evaluator's `reserve`
of a deque has the loop that does not end as well, which is in `ConstexprControl`.

### Interpreting constexpr functions: `ConstexprNames` and `ConstexprControl`

`evaluateConstexpr`, `evalConstexprCall` and `evalConstexprStmt` interpret the
body of a constexpr function. Two questions are separate modules because neither
needs the state of the other.

`ConstexprNames` is about variables. The evaluator has one map from names to
values per call (`envs`), the callee's map begins as a copy of the caller's, a
block has none of its own, and a pointer is the *name* of its variable, copied
back at the return. Beside it stands the program (`frames`, `store`): scopes, and
locations. Both make the same steps, chosen one by one; control flow plays no
part. `NamesAgree` says that they read the same, until a name has stood for two
variables (`clash`, by `Clashes`, `Captured` and the conditions in `Call`): these
are exactly the programs in which copying by name is not what C does.

`ConstexprControl` is about control: `acts` is the recursion, one activation per
statement and per call; `flow` is the `CtFlow` a statement ends with; `steps`,
`calls` and the depth in each activation are the three limits; `failed` is
`m_ctFailed`, which `evaluateConstexpr` clears when it begins at depth 0 (`Forgets`).
What each statement is and whether each expression is constant is chosen when the
interpreter comes to it. An expression, of a statement, a condition or the last part
of a `for`, can call functions, and containers that call back (`Invoke`): `contains`, `get` and `remove` of the hash containers have a value also if
their callback fails. A `reserve` of a deque is a loop of the evaluator's own that
spends no steps: `growing` is its capacity, doubled in `Indices` values of
`std::size_t`. `lapses` remembers where something has failed: in the first part of a
`for` ("init"), in a condition or last part that has a value all the same
("condition"), or elsewhere. `target` is the loop or call that a jump belongs to. Past
the limit, `steps` is not counted further, since the code only asks whether the limit
is reached.

Left out: arithmetic on constants (`constexprApplyBinary`, casts, widths),
strings, arrays and maps at compile time, and the evaluator of `compile_time`
expressions (`CompileTimeEvaluator`) apart from its layout queries; so the calls that
come to `evalConstexprCallCT` from inside such an expression, which it does not count, and
the memory that a huge `reserve` asks for.

### Records: `RecordLayout`

`buildAggregate` turns the fields of a record with bit-fields, `packed` or
`align(N)` into a longer list with storage units and explicit padding, once, and
every build makes an LLVM structure of the list there is. `fields` is
`semanticFields`, `build` holds the local variables of the loop, with one action
per kind of field (`Ordinary`, `PackedBits`, `UnitBits`, `ZeroWidth`), `flds` is
the list as it stays behind. `MakeUnion` is `buildUnion` for two members.
`LaidOut` is what LLVM makes of a list (external): each element at the next
multiple of its alignment. A type is its size and alignment, in two data layouts:
the default one, which every build uses, and the target's. `made` are the types
so far, so that records stand in records, unions and as bases.

Left out: fields whose type has no LLVM type, flexible arrays, and records
without any field. The build that rewrites the list is taken to resolve the name of
the base, as every caller of `buildAggregate` but the one for `offsetof` does
(`src/ast/LayoutBuilder.cpp:74`).

## 3. Runs

| run | module | what is checked |
|---|---|---|
| `scope_codegen` | `MCScopeCodegen` | `ImplementsDefer`: the refinement, except after unbraced clean-up is skipped or reached in several iterations; `OnlyUnbracedSkips`: nothing else causes the exception; `RunsOnce`: on a path each deferred call runs once, and its names still mean what they meant; `StringsReleased`; `StacksBalanced`: types, and the stacks match the recursion |
| `module_loader` | `MCModuleLoader` | `LoadedOnce`, `DependencyOrder`, `Complete`, `CyclesReported`, `SafetyNetIdle`, `TypeOK`, and `Terminates` under fairness |
| `hash_table` | `MCHashTable` | `ImplementsMap` while no key is in the table twice, `DuplicatesNeedTombstones`, `ProbeChains`, `CountersRight` |
| `containers` | `MCContainers` | `ImplementsSequence`; `CompileTimeAgrees`; `OnlyEmptiedVecLeaks` and `OnlyHugeDequesHang`: the two faults have no other cause; `TypeOK`: the object owns a live buffer exactly when it has capacity |
| `definite_init` | `MCDefiniteInit` | `NoSilentRead` and `NoFalseAlarm`: W3001 against the executions, in both directions; `UnreachableIsDead`: W3003 against them; `TypeOK`: scopes are paired |
| `templates` | `MCTemplates` | `AnalysedOnce`, `EmittedIsAnalysed`, `LayoutsKnown`, `RecursionIsReal`, `FailuresShow`; `TypeOK`: the counters and states match the recursion; `Terminates` under fairness, unless function templates call one another without end |
| `constexpr_names` | `MCConstexprNames` | `NamesAgree`: the interpreter reads what the program reads, until a name stands for two variables |
| `constexpr_control` | `MCConstexprControl` | `JumpsLand`: a jump ends the loop or call it belongs to; `ValueIsEarned`: no constant from a failed evaluation, but in the condition of a `compile_time.if`, and there in two ways only; `TypeOK`: the counters count the recursion and are restored on every way out; `FoldEnds` under fairness: the folding of a constant ends, unless a deque reserves more than half of the range |
| `record_layout` | `MCRecordLayout` | `MembersApart`: no two members share a bit, and `BitsInUnits` and `UnionHolds`; `TargetsMet`: LLVM puts each entry where `buildAggregate` wants it; `RebuildAgrees`: a later build finds the same |
| `cleanup_stays_home` | `MCScopeCodegen` | violated: see section 4 |
| `one_entry_per_key` | `MCHashTable` | violated |
| `layout_is_the_targets` | `MCRecordLayout` | violated |

Bounds, and why they are enough:

- `scope_codegen`: all functions of at most 7 statements (`MaxStmts`) nested 7
  deep (`MaxDepth`), with one variable name (`Names`). Seven statements hold a
  jump through a loop, a branch and two blocks with clean-up pending in each, a
  fall-through between cases, and a return in a lambda in a loop. One name is
  enough for shadowing. 1.8 million states.
- `module_loader`: an entry and three modules in two directories; the import
  lists contain every cycle length up to three, diamonds, self-imports, cycles
  through the entry, a missing file, a `.smc` specifier, and a module under two
  names. 140,000 states.
- `hash_table`: three keys, two values, capacity 4 growing to 8
  (`MinCap`, `MaxCap`; 16 in the code), four hash functions: all scattered, two
  colliding, all colliding, and wrapping around the end. With capacity 4 a table
  holds 1 live key before it grows, with 8 it holds 4: chains of three
  colliding keys with tombstones between them fit. 108,000 states.
- `definite_init`: all functions of at most 6 statements (`MaxStmts`) nested 4
  deep (`MaxDepth`), over one name (`Names`; the analysis treats names
  independently, and one is enough for shadowing, for two variables of a name,
  and for a global). `MCExprs` and `MCTests` have one expression for each thing
  the analysis tells apart. Six statements hold a declaration, a loop, a branch
  with an assignment and a jump in it, and a read after it. 1.6 million states.

- `templates`: six programs of two class templates, an alias and two function
  templates, registered in the order `MCTextOrder` with uses before, between and
  after; two uses (`MaxUses`) out of seven types and four calls, in or out of a
  namespace. The limits are 3 (`MaxDepth`, 64 in the code) and 2
  (`MaxUseDepth`), and each is reached: by a class that contains itself with
  another argument, and by a type nested three deep. In one program two function
  templates call one another, with a larger argument each time; `MaxCalls` is 5.
  The other programs do not come to it, or `Terminates` would be violated, since none of
  their functions calls itself with a larger argument. 359,000 states.
- `containers`: two values, two buffers, capacities 2 and 4 (`MinCap`, `MaxCap`;
  8 and the memory in the code), a `usize` of four bits (`MaxUsize`), so that a
  deque wraps around, grows while it is wrapped, and is asked for more than half
  of the range. `ContainerAssumption` asks that twice the largest allocation that
  succeeds is still a `usize`: mimalloc refuses more than `PTRDIFF_MAX` bytes
  (`thirdparty/mimalloc/include/mimalloc/types.h:273`). A second buffer is needed to grow; more would not be told apart.
- `constexpr_names`: three calls deep (`MaxFrames`), two blocks in a call
  (`MaxScopes`), four variables (`MaxLocations`), parameter lists of one and two
  names, of which one is also a module-level constant. Three calls are needed for
  a pointer that is handed on. 213,000 states.
- `constexpr_control`: statements four deep (`MaxDepth`, 128 in the code), two
  calls (`MaxCalls`, 128), four steps (`StepLimit`, 1,000,000), blocks of two
  statements (`MaxStmts`), a `std::size_t` of two bits (`Indices`). Every limit is
  reached, and a jump in a branch in a block in a loop fits. 1.2 million states.
- `record_layout`: up to three fields, and two types with the fields of the first
  counted against the second (`MaxFields`, `MaxTypes`); int8, int32 and int64;
  bit-fields of width 12 (`Widths`: too wide for an int8, twice in an int32, not
  three times), and `align(8)`. A unit that is begun, filled and left, and a
  record with a base and a member each, fit. 228,000 states. `layout_is_the_targets`
  needs one record of two fields.

`CHECK_DEADLOCK FALSE` is given where the program ends: code generation reaches
the end of the function (or the bound), the walk of a function is over (or at
the bound), the loader is done or has failed, the queue of instances is empty or
`MaxCalls` is reached, an evaluation has a result; `containers` has a call that does not return, and
`record_layout` stops at its bound.

Fairness: `ModuleLoader`, `Templates` and `ConstexprControl` have a liveness
property each. The compiler is one thread that is not suspended for ever, hence
weak fairness of the next-state relation as a whole. No fairness of single
actions is assumed.

Each property of a passing run has a mutant ("mutants" in `PROJECT.json`): a
plausible mistake in one definition, standing unused before it in the module,
that makes TLC report that property.

## 4. Disagreements found

With a run that shows them:

- `return` in a lambda emits the pending clean-up of the enclosing function into
  the lambda (`CleanupStaysHome`; `src/ast/Expr.cpp:3139`, against
  `src/ast/Stmt.cpp:124`).
- `HashMap::put` makes a second entry for a key whose chain has a tombstone
  (`OneEntryPerKey`; `libs/std/hashmap.cmm:117`, against its comment at 104).
- Layout queries, `sizeof` and all code generation compute with LLVM's default
  data layout, in which an int64 is aligned to 4; the module gets the target's
  when the object file is emitted (`LayoutIsTheTargets`;
  `src/sema/CompileTimeEvaluator.cpp:77-80`, `src/driver/CompilerDriver.cpp:95`).

Met while modelling; the models follow the code, and the properties except these
cases by name:

- *Clean-up.* A `defer` as the unbraced body of an `if` or a loop is registered
  whether or not control reaches it (`docs/spec/semantics.md:20`), and so is a string's
  release. In a loop such a `defer` is reached in every iteration and runs once, and
  such a string gets a new buffer in every iteration, of which the last is freed
  (`src/ast/Stmt.cpp:180`, `src/ast/Decl.cpp:1678`). A deferred
  expression is generated again at each exit, in the scope of the exit, where its
  names can mean other variables (`src/codegen/CodegenContext.cpp:348`,
  `src/ast/Expr.cpp:418`).
- *Imports.* A cycle through the entry file is accepted
  (`docs/spec/modules.md:99,102`). Nested modules are parsed before their imports
  are loaded (`docs/spec/modules.md:131`).
- *W3001.* A variable declared without a value counts as assigned if a parameter
  or an earlier variable has its name, and a read of a global is reported if a
  local of that name is declared elsewhere (`docs/spec/semantics.md:97,99`). The object
  of a method call is reported though only its address is passed: `std::Vec<int32> v;
  v.init();` (`src/sema/SemanticAnalyzer.cpp:9334`; as in
  `tests/e2e/test_std_collections.cpp:112-113`), and so are an array as an argument
  (`:9331`) and `x` in `&x.m`.
- *Templates.* Function templates that call one another with larger and larger
  arguments are instantiated until the compiler's stack is used up
  (`src/sema/SemanticAnalyzer.cpp:4738`, against
  `docs/superpowers/specs/2026-10-06-generics-crtp-design.md:52`); and what the
  section on `Templates` says of namespaces, pointers to itself, and locals.
- *Containers.* A Vec that was cleared and grows loses its buffer
  (`libs/std/vec.cmm:56`). `Deque::reserve` of more than half the address range
  does not end (`libs/std/deque.cmm:45`). At compile time a deque's pop refuses a
  null pointer and a vec's `insert` behind the end is an error; at run time the
  one is allowed and the other returns false.
- *Interpreter, names.* An undeclared name in a callee finds the caller's local
  before the constant; an inner block's declaration overwrites the outer variable
  of its name; a pointer means whatever now has the name; the
  callee's copy is from before the arguments are evaluated, so that in
  `f(&x, x++)` the pointer leads to the old value
  (`src/sema/SemanticAnalyzer.cpp:2064`).
- *Interpreter, control.* A statement without a case (`switch`, `defer`), one
  nested deeper than 128, and one past the step limit end like an executed one,
  and the call can still yield a value (`src/sema/SemanticAnalyzer.cpp:2260`,
  against the comment at `SemanticAnalyzer.h:439`, "aborts instead of silently
  skipping unsupported operations"). In a `compile_time` condition
  each expression of the function begins a budget of its own, so that
  `while (true) {}` is not stopped (`docs/spec/compile_time.md:71`), and clears
  `m_ctFailed`: the function goes on to a value after a failed first part of a `for`, or
  after a failed callback in `if (m.contains(k))` (`src/sema/SemanticAnalyzer.cpp:1673`,
  `2774-2789`, against `docs/spec/compile_time.md:194`). The evaluator's `reserve` of a
  deque, of more than half the range of `std::size_t`, does not end and spends no step
  (`:2655`, against `docs/spec/compile_time.md:71`).
- *Layout.* The self-check of `buildAggregate` cannot run: its condition asks for
  a list that was rewritten before, when `targetOffsets` is empty. `align(N)` is
  not in the LLVM type, so that such a record stands in another one at its natural
  alignment. A union's bit-field is bounded by the most aligned member, which
  can be smaller than the bit-field's type in the default data layout. `offsetof`
  resolves no base names, so that an unannotated derived record is laid out
  without its base.

## 5. Proofs

`ModuleLoaderProofs` proves, from `LoaderAssumption` alone (for every set of
files, every directory layout and every content):

- `TypeCorrect`: `Spec => []TypeOK`. The part that is not about types says that
  the recursion (`stack`) and the vector `active` describe the same path:
  one frame per active module, above the entry's. `TypeInv` strengthens it: a walk
  begins with the entry's frame, the entry has been read, and outside a walk
  nothing is on the stack. There is one lemma per helper and one step per action.
- `ModulesLoadedOnce`: `Spec => []LoadedOnce`. `LoadedOnce` is not inductive: it
  needs that everything on the DFS stack and everything spliced has been marked,
  and that the three lists are disjoint, which is `OnceInv`. Its interesting
  steps are `ImportModule` (the new module is unmarked, so it is in none of the
  lists), `FinishModule` (it moves from `active` to `out`) and the two splices.

- `ImportsBeforeImporters`, `LoadingIsComplete`, `CyclesAreReported`,
  `SecondWalkIsIdle`: the other four invariants of the run `module_loader`, by one
  inductive invariant, `LoadInv`. Its parts: the stack is a path of edges from the
  entry, each list is a suffix of the file's imports (`PathInv`); without an error
  what is marked is loaded or on the stack, and the imports that were dealt with have
  edges to files of their names (`ResolvedInv`); the second walk finds an edge for each
  import of the entry, so it can only take `ImportAgain` (`NetInv`); an edge leads to
  the entry, to a module that is finished before its importer, or to the one its
  importer waits for (`Settled`, `OrderInv`); a set of files that the edges do not leave
  has all that was loaded (`ReachInv`). That there is no cycle follows from the order:
  of the modules of a cycle, one would be finished first (`OrderedAcyclic`).

`DefiniteInitProofs` proves, from `ConstantsAssumption` (for any names, any
expressions, and functions of any size, since the bounds are any numbers):

- `TypeCorrect`: `Spec => []TypeOK`; the invariant is `TypeInv`, which adds to
  the types that only the innermost statement can be between two of its parts
  (`WellNested`). `Walk` states this for any sequence of frames, and three lemmas
  treat the three shapes of a step: a frame is pushed, stays, or is popped.
- `UnreachableCodeIsDead`: `Spec => []UnreachableIsDead`. The verdict of W3003 is
  formed from the statements already left, so the invariant `DeadInv` says what
  the verdict on the last child (`last`), on the rest of a block (`over`) and on
  the then-branch of an `else` imply, and that no frame inside a dead block holds
  executions that would come back. The same three shapes of a step have a lemma
  each; a step of the proof for an action names its shape and says why no
  execution goes on.

- `ReadsAreReported`: `Spec => []NoSilentRead`. The invariant is `SoundInv`. Its
  heart is `Good`: a name in a state outside `blind` has a value on every path
  that belongs to that state, for whatever declaration the name means; it holds
  of `state` with `reach`, and of every frame with the executions it holds back.
  For an inner scope to be closed without losing it, a name outside `blind`
  means one variable (`Single`) and is a local that was declared (`Known`). For
  the state to fall back to one saved earlier (the end of a loop, of a `case`,
  of a `switch`), no statement may be left with fewer names than it was entered
  with (`Nest`). `EvaluateSound` is the argument for one expression, by the order
  of its operands; the three shapes of a step have a lemma each here too.
- `AlarmsAreReal`: `Spec => []NoFalseAlarm`, the other direction. The invariant is
  `PreciseInv`: some execution comes to every point that is walked, and each name that
  is neither in the state nor in `coarse` lacks a value on some path to it (`Lacking`),
  for whatever declaration the name means. It holds of `state` with `reach`, and of the
  frames that keep executions for later (`Waits`). Between the cases of a `switch` it
  is not claimed: there the state is dropped while executions may fall through. After
  a jump, or a `switch` with a default label, `coarse` is every name, so nothing is
  claimed: the walk goes on as if executions were still there. Of a name whose address
  alone is passed (`Touched`) nothing is claimed at that expression; if it is reported
  there without a read it is in `coarse` from then on.

`RecordLayoutProofs` proves, from `LayoutAssumption`, every property of the run
`record_layout`. The assumption is that sizes and alignments are positive, that the
size of a scalar is a multiple of its alignment (an allocation size is), and that of
two alignments one divides the other: those of a data layout are powers of two, and
so is the argument of an `align(N)` that sema lets pass
(`SemanticAnalyzer.cpp:1221`).

- `BitFieldsFit`: `Spec => []BitsInUnits`, the part of `MembersApart` that the loop
  of `buildAggregate` alone is responsible for. The invariant `BuildInv` adds
  what the loop knows and the result does not show: the bits of the current unit
  that are used are enough for every bit-field placed in it, and the cursor of an
  open region is behind every pending one. `LongerKeeps` says that further entries
  disturb nothing, `CloseKeeps` that the pending bit-fields get an entry of their
  own, `PlacedKeeps` that a new bit-field comes behind the others.
- `PaddingMeetsTargets`: `Spec => []TargetsMet`, `LaterBuildsAgree`:
  `Spec => []RebuildAgrees`, and `MembersStayApart`: `Spec => []MembersApart`, by
  one invariant, `LayoutInv`. Every type made so far has a size that is a multiple of
  its alignment, in both data layouts (`MadeTyped`, kept by `LaidIsType`). The
  entries of the loop adjoin from 0 to `cursor`, each aligned as its type asks
  (`Adjoining`): LLVM then has no padding of its own to add and puts each entry
  where the loop counts it to be (`LaidExact`). Each field that has been placed has
  one entry, its own or its unit's, behind those of the fields before it and behind
  the base (`Placed`). The entry that may take another bit-field is the last one
  (`UnitLast`), without which a later bit-field could come before a field in
  between. The ends of the elements are a recursive function, of which `LaidOutIs`
  shows that it is one; `LaidApart` is that elements of any list follow one another.

`HashTableProofs` proves, from `TableAssumption` (any keys and values, any hash
functions into the numbers, a first capacity of at least 2, 16 in the code), every
property of the run `hash_table`:

- `CountersAreRight`: `Spec => []CountersRight`, and `ChainsHold`:
  `Spec => []ProbeChains`, by one invariant, `HashInv`: a table is `Good` (typed,
  counted, and with unbroken chains), less than 70% of it is live, and a set holds no
  key twice and no values. The last part is needed because `insert` searches before
  it writes and `put` does not. `EverySlotProbed` says that the probes for a key meet
  every slot; so a search finds a live key (`SearchFinds`), and with a slot that is
  not live `put_raw` ends by writing (`RoomStored`). With a first capacity of 1 the
  bound of 70% would fail: the assumption is used.
- `SecondEntriesNeedTombstones`: `Spec => DuplicatesNeedTombstones`. Without tombstones
  `put_raw` meets the key before any slot it would take (`PutUnique`).
- `TableImplementsMap`: `Spec => ImplementsMap`. The contents are those a search
  finds (`ContentsOf`); `PutContents` and `RemovedContents` are the two ways they
  change. `rehash` is a recursive function on the old slots: `MovesExist` shows that it
  is one, `MovedSoFar` is the invariant of its loop (the entries of the slots passed,
  and no others, are in the new table), and `SameEntriesSameContents` that a grown
  table is the same map.

`ContainersProofs` proves, from `ContainerAssumption` (any values and buffers, any
first capacity and width of `usize`), every property of the run `containers`:

- `TypeCorrect`: `Spec => []TypeOK`. `TypeInv` adds the shape of the structure.
- `Refinement`: `Spec => ImplementsSequence`. For each operator on an object there
  is a lemma that says which sequence the object is afterwards; they rest on
  `AtFacts` (element i is in slot head + i, wrapped around once at most) and
  `AtApart` (two elements are never in one slot). `UnrolledFacts` is the move into
  a new buffer.
- `CallsReturn`: `Spec => []OnlyHugeDequesHang`. The doubling is a recursive function
  on the range of `usize`; `LoopExists` shows that it is one, and `NewCapFacts` what
  it ends with. The proof needs that an object with the largest capacity can still
  be doubled within `usize`: without that `Deque::push` could hang too, which is
  the last part of `ContainerAssumption`.
- `NothingElseLeaks`: `Spec => OnlyEmptiedVecLeaks`; `RoomFacts` is where the old
  buffer goes.
- `EvaluatorAgrees`: `Spec => CompileTimeAgrees`. Where the library doubles until it
  is enough, the evaluator doubles once; `NextCap` says that from an object the
  library can have come to, one doubling is enough, and `GrownFacts` that both then
  hold the same elements from slot 0 on.

`ConstexprControlProofs` proves, from `ControlAssumption` (any limits), every safety
property of `ConstexprControl`:

- `TypeCorrect`: `Spec => []TypeOK`. The invariant `TypeInv` says which stacks the
  recursion can have (`Stack`): which activation can stand above which (`Placed`)
  and where each can be (`Sound`). `Pushed`, `Popped`, `MovedOn` and `Returned` say
  once what a step does to the stack and to the set of calls on it.
- `JumpsLandWhereTheyShould`: `Spec => JumpsLand`. While a jump is under way, the
  activation it was made for is still on the stack, and only activations that pass
  the jump on are above it (`JumpInv`); so nothing but the target can stop it.
- `ConstantsAreEarned`: `Spec => []ValueIsEarned`. `LapseInv` says that a
  failure other than in the first part of a `for`, or under a condition or last part that
  has a value all the same, is still in `m_ctFailed`, with the failed statement about to
  end what is around it, and that in the folding of a constant any failure is: nothing
  is evaluated any more at depth 0 that could forget it, whichever expression the calls
  and callbacks stand in.

`ScopeCodegenProofs` proves, from `BoundsAssumption` (any names; functions of any
size and depth, since the bounds are any numbers):

- `StacksStayBalanced`: `Spec => []StacksBalanced`. The inductive invariant
  `StackInv` counts: the length of each stack, and the boundary kept with each jump
  target, is the number of open statements of some kinds up to a position of the
  recursion (`CountIn`); and only the innermost statement can be elsewhere than in
  its body (`Nested`), so that a jump out of several blocks leaves the recursion, and
  thus the stacks, as they were.
- `SkipsAreUnbraced`: `Spec => OnlyUnbracedSkips`, for both ways of `skipped`: clean-up
  of a statement not reached, and of one reached in several iterations. `HoldInv` says where the execution
  that is followed is, when it is not at the insertion point: exactly one open
  statement holds it back (`Holds`), and it has as many scopes open as there are
  blocks around that statement (`Where`). `NextShapes` reduces the next-state relation
  to ten shapes of a step, with a lemma each.
- `CleanupRunsOnce`: `Spec => []RunsOnce`, and `StringsAreReleased`:
  `Spec => []StringsReleased`, by one invariant, `RunsInv`. Its part about the
  generator, `PendInv`, says that the pending items are of different statements,
  that the release of every string a name can mean, or a deferred expression names, is
  pending in a block around (`ScopesIn`, `DefersIn`), and that a name means what it meant
  at the defer, or what was declared since, at every depth of the scopes at which the
  expression can still be emitted (`NamesIn`). `EmissionFacts` says what is in the
  clean-up code from a boundary on: each item pending there, once, a string after the
  defers that name it. Its part about the execution, `RunInv`, says that nothing that is
  owed (`DueIn`: what is pending in the blocks the execution has open) has been run, and
  that a string owns a buffer only as long as its release is owed. `SoundCleared` is the
  argument for running clean-up code, with or without a string moved out. `LostInv` says
  that nothing was lost, so that no buffer is left behind, unless `skipped` is set.
- `CodeImplementsDefer`: `Spec => ImplementsDefer`, the refinement of `DeferSemantics`.
  The invariant `FrameInv` says that until a statement is skipped, or its clean-up owed
  for several iterations, each open scope of
  the execution owes, of each kind and in the same order, what is pending in its block.
  `OwesMore` keeps it when a statement registers something; `BlockDischarges` and
  `CodeUnwinds` turn it into what the documentation asks of the clean-up code of one
  block and of all blocks down to a boundary; each of the ten shapes of a step is then
  one step of `DeferSemantics` or none (`NextDocumented`).

`TemplatesProofs` proves, from `TemplatesAssumption` (any templates and bodies, any paths
and any limits):

- `TypeCorrect`: `Spec => []TypeOK`. `TypeInv` adds what `ctl` can be: which call can be
  where (`Fits`), which call can have made which (`Above`), that no two copies in progress
  are of one instance, and that an instance a frame has asked for has a declaration
  (`Ready`). Without that, reading the declaration of an instance would be undefined in
  the model. The six lemmas from `StepReplace` to `StepInstantiate` say what each way to
  change the stack leaves true; `TypeAfter...` has one lemma per action.
- `NeverTwice`: `Spec => []AnalysedOnce`. What was analysed without a
  namespace's prefix is in `m_visited` under the name that every later request looks up
  (`AnalysedInv`); what was analysed with one is not, and is left out of the property.
- `NoFalseRecursion`: `Spec => []RecursionIsReal`. An instance is refused as recursive
  when its copy is in progress. Between two copies, one above the other, are only
  resolutions of types the lower one's body names (`Nested`); so from the copy that is
  met again up to the top every class template mentions the next, and the last the
  first (`RecursionMet`).
- `NoFailureIsLost`: `Spec => []FailuresShow`. A failure is shown (a diagnostic, a null
  type in the alias cache or in a declaration), or a call in progress bears it (`Bears`:
  an item already copied, a resolution that was refused), or it is in the result that a
  call has just returned (`Failing`): `FailureInv`. Every return hands it to the caller,
  and nothing shown is overwritten: an alias that is being expanded is not in the cache
  yet (`NewAlias`, which needs the nesting of the calls), and an instance whose copy ends
  has no declaration yet.
- `LayoutsAreKnown`: `Spec => []LayoutsKnown`. Every type that is named anywhere has a
  declaration, and what the analysis of a class or of a use has passed has been visited
  (`SoundInv`). A class that was visited is complete or still being analysed further down
  the stack (`ClassesInv`). The second cannot be when another class is completed that has
  it in a field: the class further down would contain that one, which was then copied
  before it (`Under`), while the class of a field was copied before its owner (`OrderInv`;
  `EarlierOnce` is the contradiction). `Advance` is what all steps but the end of a copy do
  to the frames.
- `EmittedWasAnalysed`: `Spec => []EmittedIsAnalysed`. `EmittedInv`: each name that is
  visited has an analysed instance, and at every place of the queue there is a function
  of whose name an instance up to that place has been analysed, or, at its end, the one a
  call is just asking for (`Served`). The call analyses it, or its name had been visited
  before, for an instance that is then further to the front.

Model-checked only: the liveness properties (`Terminates` twice, `FoldEnds`),
which are out of the prover's reach, and `NamesAgree`.

## 6. Plan

A theorem for `NamesAgree`. Then models: value parameters and template base classes in `Templates`; what the
visitors of declarations save and restore; speculative parses and what they
must restore; the driver's phases and the registries that several input files
share; temporaries and copies in string ownership.

## 7. Not modelled

- *mimalloc* (`thirdparty/`) is vendored, and more than half of the lines of the
  repository.
- *Lexer, token stream, parser.* Productions build a tree and have little state;
  text is out of place in a model. Speculation and recovery would be worth a module.
- *Type checking, overload resolution, visibility*: functions of a declaration
  and its context, which unit tests reach.
- *Expression code generation*: a translation without state of its own beyond
  string ownership; `ScopeCodegen` has the local strings.
- *Mangling, print formats, diagnostics*: text.
- *The reflection registry*: written once per declaration and then read.
- *std.mem, std.thread, std.atomic and the other library modules*: wrappers of
  the allocator, of pthread and of the C library, which decide their behaviour.
- *Driver beyond imports, support code*: files, options, and the linker.
