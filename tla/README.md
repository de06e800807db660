# Dolorem, specified

Dolorem is a small compiled language whose macros run at compile time and call
the code generator directly. The compiler is C (a reader, an evaluator that
emits LLVM code while it walks the program, a quoter, type conversions), two
C++ files around LLVM's builder and JIT, and a prelude, `def.dlr`, that defines
the control structures as macros. This directory holds TLA+ modules for the
parts of it whose correctness depends on the order of steps, the TLC runs that
check them on small instances, and proofs of the main invariants for all
instances.

## Inventory

| Part | Source | State it keeps | Operations | Makes it correct |
|---|---|---|---|---|
| Evaluator and function bodies | eval.c, fun.c, var.c, llvmext.cpp | `mod`, `curfn`/`curllvmfn`, `curfn->scope`, the builder's position, C locals of the active calls | `eval`, `funcall`, `scope`, `funbody` (from defun, defmacro, deftypemacro, deftypeconverter, static-cond, freestanding-lambda), `add_variable`, `lookup_in_fun_scope` | after any nested compilation the context is that of the enclosing function; code, variables and callees stay in their function and module |
| Control structures | def.dlr | `while-in-loop`, `while-last-cond-block`, `while-last-after-block`, blocks in macro locals | `while`, `break`, `continue`, `if`, `cond` | every block ends in one terminator; jumps reach the innermost loop; phi nodes name their predecessors |
| Quoter | quote.c | static function handles | `quote`, `quasiquote`, `quasiunquote` | handles belong to the module being generated; quoting rebuilds the list |
| Include, main | include.c, main.c | `precompiled_module` | `include`, `lower_include_list` | nothing is generated for a file whose shared object was loaded |
| Hash map | hashmap.c | table, `table_size`, `size` | new, put, rehash, get, get_ptr, remove, iterate, length, free | it is a map until something is removed, and never full |
| JIT and symbols | jit.c, llvmjit.cpp, global.c, fun.c | `map_funs`, `map_globals`, `map_modules`, `struct fun.ptr`, the JIT's symbol table | funproto, defun, defmacro, lambdas, `lower_defglobal`, `end_function`, `resolve_sym`, `address_registrar`, `add_symbol_to_module`, link-in | the places a name is looked up in agree; calls run the latest definition |
| Allocator | list.c | part list, `At`, `Left` | `init_alloc`, `get_mem`, `more_mem`, `print_to_mem`, `end_alloc` | allocations are disjoint, zeroed, inside of a part |
| Reader, source table | list.c | text being cut in place, list of sources, `atfile` | `read_file`, `read_string`, `read_stdin`, `actual_read`, `get_source_file` | lists mean what the text says; locations name their file |
| Types, conversions | type.c, basictypes.c, var.c, def.dlr | `map_types`, aliases, local variables, the rtvs of the running `eval`s | `register_type`, `create_alias`, `eval_type`, `convert_type`, `prepare_read`, `expect_same_number`, `ptr_to`, `ptr_deref`, assignment, calls | the type the language gives a value and the LLVM type of the value stay together |
| Structs | structs.c | member lists | `defstruct`, `memb` | members resolve to fields of their own and of their type |
| Header converter, platform detection, examples | chdrconv.c, os_detection.c, *.dlr | none shared | printing | not modelled |

The parts interact by calls and by global variables. There is one thread, no
signal handler and no message; what makes the program hard is re-entrance. Any
form may compile another function in the middle of the current one (a defun, a
lambda, a static-cond, a macro whose expansion defines functions: `repl.dlr` and
`def.dlr` really do), so every function of the evaluator reads globals that its
callees change. An error ends the process: nothing is rolled back.

## Modules

| Module | Models |
|---|---|
| `Activation` | abstract: nested compilations as a stack of activations, each with its module and environment |
| `Codegen` | eval.c, `funbody` (fun.c), var.c, quote.c, include.c, the builder position (llvmext.cpp), `begin_new_function`/`end_function` (jit.c) and the control structures of def.dlr; implements `Activation` |
| `Jit` | jit.c, llvmjit.cpp, global.c and the definitions of fun.c: what a name means |
| `Dictionary` | abstract: the map that hashmap.h promises |
| `HashMap` | hashmap.c; implements `Dictionary` until something is removed |
| `Arena` | the allocator of list.c, and main's order of reading and initialising |
| `Syntax` | abstract: what a program means, token by token |
| `Lists` | characters and the elements of lists, shared by the next three |
| `Reader` | the reader and the source table of list.c |
| `Reading` | what `Reader` makes of a text, compared with `Syntax` |
| `Quoter` | quote.c: what the code that a quote form generates computes |
| `Types` | type.c, basictypes.c, structs.c, and what var.c, eval.c and def.dlr do with values |
| `MCCodegen`, `MCJit`, `MCHashMap`, `MCReader`, `MCTypes` | instances for TLC |
| `CodegenProofs`, `CodegenBlockProofs`, `CodegenScopeProofs` | proofs about `Codegen`, each extending the one before |
| `HashMapProofs` | proofs about `HashMap`, and that it implements `Dictionary` |
| `JitProofs`, `ArenaProofs`, `TypesProofs`, `ReaderProofs` | proofs about `Jit`, `Arena`, `Types` and `Reader` |

### Codegen

The evaluator is recursive, so its control state is the C stack. `stack` has
one frame for each form that has begun and not returned, with exactly the locals
its C function (or macro of def.dlr) uses afterwards: `funbody`'s `prev`,
`prev3`, `old` and `same_mod`, `funcall`'s callee, a `while`'s blocks and saved
loop globals, and so on. Each action is the stretch of code between two
evaluations of sub-forms: `FunBody` runs up to `eval(body)`, `EndBody` from
there to the end; `While`, `WhileBody` and `EndWhile` are the three stretches of
the macro `while`. Which form is evaluated next is the program's choice, so
`Next` offers all of them wherever the code would call `eval`. A quote evaluates
nothing but the arguments of `quasiunquote`. Forms that emit code or declare
variables need a current function (the C code dereferences it).

Of the generated code the model keeps basic blocks (`<<function, number>>`),
whether they are terminated, the branches between them, phi nodes with their
incoming blocks, and for each emitted call the module of its callee. Types and
values are in `Types`, what names mean is in `Jit`. LLVM itself is external:
`NewBlock`, `AppendBlocks` and `Terminate` model LLVMAppendBasicBlock and the
terminator instructions by how the code uses them. The file time test and
`dlopen` of a precompiled object are the parameter `so` of `Include`. An error
may happen in any form (`CompilerError`) and ends everything.

`ImplementsActivation` maps the stack's body frames to activations; an
environment says for each scope and name in whose frame the variable lives. The
abstract `Finish` uncovers the enclosing activation exactly as it was left, and
only the innermost activation may complete blocks.

### Jit

A name is looked up in three places that know nothing of each other: the struct
fun of `map_funs` caches an address (`map_globals` likewise), LLVM's JIT has a
symbol table, and the process is searched with `dlsym`. The model keeps one
variable for each, and for a name the place its address points into: `jit`,
`exe` (the compiler and its libraries) or `so` (an object loaded later).
`Resolve` is `resolve_sym`'s order: cache, JIT, process.

`pending` holds the functions that are being compiled, with the names they refer
to; `Codegen` says where their code goes. `EndFunction` is `end_function`,
`jit_add_module` and `addModule`: it stores a clone for linking, resolves every
name the module refers to, which fills caches and the JIT, and only then enters
the function itself, which must be new there. `includes` holds the files being
loaded with the `precompiled_module` before them; `funbody` of a precompiled
file compiles nothing. A step that meets an error does not exist, since
`compiler_error` ends the process.

Four ghosts record what no variable of the compiler says: `latest` (where the
newest definition of a name is), `referred` (the names that code in the JIT
refers to), `early` (names that were called while they were being compiled) and
`mistaken` (lambda expressions that evaluated to another one). Two of the
properties name their exceptions with them: a macro that is called in its own
redefinition keeps the address of the old one, and a definition from a
precompiled object is shadowed by compiled code of its name.

### HashMap

`hashmap_put` and `hashmap_rehash` call each other; `calls` is their C stack.
A put's frame has its arguments, a rehash's frame the old table and the loop
counter. `SetData` is the successful end of a put (and of the caller's loop
step), `Rehash` the doubling, `Reinsert` the loop's next call, `EndRehash` the
return to the put that tries again, `OutOfMemory` a failing `calloc`, after which
every call on the stack returns MAP_OMEM. The hash function is a constant, a key
is its contents, `hashmap_get` is the operator `Get`. `Dictionary` allows a put
to fail and lose entries (the code does lose those not yet put again) but
nothing else.

A removal leaves a gap in the chains, and the next put may then store a key a
second time; nothing in the sources says otherwise. The ghost `removed` says
that it has happened: `Findable` and `ImplementsDictionary` hold up to then
(including the first removal), `HalfEmpty` and `PutReturns` always.
`hashmap_iterate` and `hashmap_free` change no element and are left out.

### Arena

A byte is a part and an offset. `memalloc` is the static struct; `GetMem`,
which `more_mem` and `print_to_mem` call, is an operator on it. `blocks` is what
callers hold, `written` every byte that was handed out or that a `vsnprintf`
into too little space has dirtied. Callers may write all of their block at once.
A part is 1 MiB, but a request has no bound in the code, so `Size` contains one
that is larger: `Left` is negative afterwards, as in the code. Then `vsnprintf`
gets a huge size and writes behind the part, even a short string; where those
bytes lie in the process is beyond the model, which keeps them as offsets behind
the part's end. `OnlyOversizedOverrun` therefore says two things: a block that is
handed out ends in its part unless it is larger than any, and bytes behind a part
are written only in parts that such a block has overrun. It does not say that
ordinary requests never write there. Files
are read before `init_alloc`, with an allocator that has no part yet.

### Syntax and Reader

The reader works in place: it cuts lists out of a copy of the program by writing
NUL over the bracket that closes them, names and strings are pointers into the
text, and the NUL behind a name is written only after the next name was read,
because the character behind it may be needed. `Reader` therefore keeps the text
as characters; `frames` holds the calls of `actual_read` with their variables
`s`, `groupb` (`head`) and `lastidentend` (`last`). One action is one round of
the loop, or the return. `Syntax` knows nothing of all this: it gives a sequence
of tokens its meaning, a list with the place of every element, or says that it
has none, and how to write it down (`Wording`). `ReadsMeaning` in `Reading`
compares the two. `Reader` itself takes any programs that some `Text` writes
with some `Chars`, and states what does not need a meaning: `Located`, that every
element is reported at its line, and `NamesAreWhole`, that behind every pointer
into the altered text stands what the program has there as it was written
(`Says`: a name up to its word's next separator with `-` as `_`, a string up to
its closing quote without escapes). Both are about `Elements`: the elements of
what was read, those of its lists, and so on.

A list under construction is the sequence of its elements (`*v`, the place the
code appends to, is always its end). Which tokens exist is the `Spelling` of
`Syntax`: names, names with dashes and with colons, numbers, characters, strings
with escapes and in parts, comments, brackets and semicolons. Numbers keep their
digits. `''` is a token that is a character only at the end of its list: to see
whether a literal is too long, the code looks at the second character from its
beginning, which for `''` lies behind it (list.c:707). `atfile` counts up to `Indices`, which is 65536 in the code.

The loops that search the text are operators that say what they find:
`Closer` counts the brackets outside of what is `Skipped`, `Separators` are the
colons at which `transform_identifier` ends up cutting a name, from the last one
down to one that has no name beside it. Literals are read by recursive
functions over the places of the text (`StringEnd`, `Unescaped`).
`CommentsEnd` is about a trap: the search for a bracket steps over whatever ends
a comment, a NUL too. In a list that was cut out no comment lasts that long,
because the bracket that closed it was found outside of every comment.

### Quoter

`Codegen` says where the code of a quote form goes and through which handles it
calls; `Quoter` what it computes. `LowerQuote` gives the calls in the order they
are built, `Run` executes them, `Filled` is the list that should come out: what
was read, with the values of quasiunquotes in their places. The lists are those
that `Reader` has read. A name `quasiunquote` before the end of a list makes the
rest of it a tail (`(a quasiunquote b)` is a pair), as in the C code, which looks
at the head of every rest of a list.

### Types

Every value has two types: the LLVM type of the instruction that computes it
(`l`) and the type the language gives it (`t`), with the flag `lv` for values in
memory. These are `struct rtv`, and nothing keeps them together but the code.
A type is the sequence of the props one reaches from its first one: `ptr` and
`array` are followed by what they are made of, an alias by what it stands for
unless it is opaque. Props are compared as pointers, so the prop of an array
names the declaration that made it. LLVM types are sequences as well; `Lower`
follows a type up to its first alias and goes on with the LLVM type that
`create_alias` stored. `slot` holds what `eval` has returned for the operands of
an expression, `locals` the variables, `built` the last instruction that LLVM
would check: the type it needs and the type it gets. A name that is no type yet
is a compile error (`Known`, `Declared`), which has no successor, and neither
has a NULL that the code dereferences (`float` + `double`).

`ConvertRead` is `convert_type` with the converters in the order
`init_basictypes` registers them. The converter of aliases takes one alias off
the value's type and one off the wanted type and calls `convert_type` again,
without the caller's flags. `Unwrap` and `UnwrapTo` are those calls, the k-th one
of which sees both types without their first k aliases; the round that decides
is the first in which another converter applies, or the one with no alias left.
An alias of an alias needs two.

A conversion between pointers changes `t` and leaves the LLVM value alone, and so
does a member of a union that is not the longest. The ghost `loose` marks values
whose type was asserted in this way, and what is computed from them. Values that
are not loose must agree; accesses through a loose pointer are not followed.

## Runs

| Run | Shows | Bounds |
|---|---|---|
| `codegen_nesting` | module, function, scope chain and builder agree, names resolve locally, a scope lasts as long as its block, callees are in their module, generation follows the innermost file, and `Codegen` implements `Activation`, with functions, lambdas, scopes, calls and includes nested | 3 functions, 1 name, 5 frames |
| `codegen_blocks` | no code behind a terminator, finished functions have only terminated blocks, the loop globals describe the innermost loop, also with quotes and nested quasiunquotes | 2 functions, 5 frames, a construct opens while a function has fewer than 4 blocks |
| `jit` | macro calls run the latest definition, compiled code and macros agree on what a name means, a global has one storage, what was compiled can be linked, lambdas are not mistaken for each other | a C macro, a function, a global, two lambdas of one line, an object that defines all names, 1 function being compiled, 1 file being loaded |
| `hashmap` | the table is the dictionary, never more than half full, and every put returns | 4 keys, 2 values, tables of 8, 16, 32, chains of 2 |
| `types` | language type and LLVM type of every value agree, instructions get the types they need, members have fields of their own, nothing converts to an opaque type, names of types keep their meaning | 1 variable, 2 operands, 11 type expressions, an alias that stands for a number, an opaque type or a pointer, an alias of that alias, a struct with a union in the middle, 2 functions |
| `reader` | reading in place gives every program its meaning or fails when it has none, what is yet to be read is intact, lists that were cut out end outside of comments, names and strings are whole behind their pointers, elements are located in their file, quoting what was read rebuilds it | every program of up to 4 tokens of 15 kinds, of up to 6 of brackets and names with semicolons or with quasiunquotes, those that end in a comment, and up to 4 tokens with literals without a character (`''`); 4 texts one after another, 4 file numbers |
| `arena` | no byte is handed out twice, what is left is zero, a part is overrun only by a block larger than a part, and by `print_to_mem` after that | parts of 3 bytes, requests of 0, 1, 2 and 4, strings of 0 to 4 characters, 3 parts |
| `break_target` | **violated**: break and continue in a function nested in a loop branch into the enclosing function (def.dlr:248) | 2 functions |
| `quote_handles` | **violated**: the outer quasiquote goes on with handles of the inner module (quote.c:23) | 2 functions |
| `if_phi` | **violated**: `if` names the wrong incoming blocks when a branch contains a control structure (def.dlr:155) | 2 functions |
| `reader_strings` | **violated**: a bracket in a string inside of a list counts as a bracket (list.c:622) | programs of up to 3 tokens |
| `arena_end` | **violated**: the parts are not freed (list.c:56) | parts of 3 bytes |

The bounds are those at which the interesting cases occur. Context errors need
a function in a function in a function (three levels, so that what is restored
is neither the top level nor the newest one) with another form between; five
frames hold them. `MaxBlock` lets an `if` or a `while` stand inside another
construct and a break in it.

For `Jit` one function being compiled suffices for a name that is declared,
called, redefined and loaded while its own body or another one is compiled: all
disagreements of the three places need one name whose definition is unfinished
and one other. The proofs cover any depth.

For the table, keys 6, 22 and 38 collide in tables
of 8 and 16, two of them also in 32, and key 7 stands in their way: reinsertion in
slot order then differs from insertion order, and a rehash inside a rehash
happens.

In `Types` the two operands are what every operator has, and any longer
expression leaves its intermediate results in the same two places. Variables do
not interact but through the operands, so one will do. The type
expressions contain one of each class, and the alias of an alias makes
`convert_type` call itself twice; the struct has an array, a union whose
second member is the longest, and a member behind it, which is where member
indices and field numbers part.

Four tokens hold every pair of tokens inside of brackets, six hold brackets in
brackets with semicolons in both. With 4 numbers the file number wraps at the
fourth text, where `Located` stops to claim anything, as the code does after
65535. With parts of 3 bytes requests fit exactly, by one byte, or not at all;
three parts are one for the arguments, the one of `init_alloc` and one after it.

Function objects and names of variables are permutable in the passing `Codegen`
runs, operands in `types`; `Init`, `Next` and the properties treat them alike.

Deadlock is checked except in `reader`, `reader_strings` and `types`, where the
process really stops: the texts are read, or the only continuation is a compile
error. In `Codegen` and `Arena`, `Stop` is the stuttering of a process that has
exited or has no more files.

Fairness: `HashMap` assumes weak fairness of `Continue`, the steps of a call that
has begun: a C function that was called keeps running. `PutReturns` rests on it.
The other modules assume none and claim no liveness: whether evaluation ends is
up to the program.

## Proofs

`CodegenProofs` proves, for every set of functions and names, every selection
of forms and every bound, `TypeCorrect`, `ContextCorrect` (`ContextAgrees`) and
`CalleeCorrect` (`CalleeInModule`). `ContextAgrees` is not inductive: what
`funbody` restores comes from its frame. `FramesOK` strengthens it: every body
frame saved the context of the function that is innermost below it, and every
frame of a form inside of a function holds blocks and modules of that function.
Each step pushes a frame that fits the present context (`StayPush`), exchanges or
pops the top one while the context stays (`StayRetop`, `StayPop`, `StayPut`), or
starts or ends a function; the lemmas about actions have one each. The only
assumptions are that `None` is no function and that the bounds are naturals.

The two modules that follow it prove the other invariants of `Codegen`.

- `CodegenBlockProofs`: `BuilderOpen` (`BuilderBlockOpen`) and
  `FinishedTerminated` (`FinishedIsTerminated`). `BlocksOK` accounts for every
  block: it has a terminator, or the builder stands in it, or exactly one frame
  waits to put the builder there (`Waiting`: the rest of an `if`, the block
  behind a `while`, the place `funbody` will return to). Each action moves
  blocks between those three places (`Moves`). When a function is complete no
  frame above its own is left, so no block of it can still wait.
- also in `CodegenBlockProofs`: `LoopInnermost` (`LoopIsInnermost`) and
  `PrecompiledCorrect` (`PrecompiledFollowsFile`). What a `while` or an include
  frame saved describes the innermost loop or file below it (`LoopsOK`,
  `FilesOK`), and every other action leaves the frames of that kind alone
  (`OtherAlters`).
- `CodegenScopeProofs`: `LookupLocal` (`LookupIsLocal`) and `ScopesCorrect`
  (`ScopesAreOpen`). Variables are added where the builder stands, which
  `ContextAgrees` says is a block of the function whose chain grows (`Local`);
  a scope frame's function is the innermost one when it closes as when it opened.

`CodegenScopeProofs` then proves that `Codegen` implements `Activation`
(`ActivationImplemented`). The abstract activations are read off the C stack: the
n-th body frame from the bottom is the one of rank n (`Ranked`, `NthFacts`). A step
leaves the body frames alone, puts one on top or takes that off (`BodySteps`,
`FnSteps`), so every activation below the top keeps its function; no function is
compiled twice at once (`Distinct`), so it keeps its module and its environment as
well, which only change for `curfn`. `BodyStarts`, `BodyEnds`, `ScopeOpens`,
`ScopeCloses` and `VariableDeclared` map the five kinds of steps that change the
activations, and `OthersEmit` all others: they complete at most the builder's block,
which belongs to the innermost function by `ContextAgrees`. A function that starts
has no completed block because every terminated block is one of a started function
(`BlocksOK`), and closing a scope leaves the body's own because of `ScopesAreOpen`.

`JitProofs` proves, for every set of names, C macros, loadable objects and lambdas
and any depth of compilations and includes, `TypeCorrect` and the five
properties of the run: `CallsCorrect`, `CodeCorrect`, `GlobalsCorrect`,
`LinkingCorrect` and `LambdasCorrect`. The first ones rest on `IInv`: an address
that the JIT does not have can only have come from the process, so the cache, the
JIT and the process agree as long as no name is resolved too early (`Agree`); the
JIT and the process in turn differ from the latest definition only when that one
came with a precompiled object (`Defined`); and a function being compiled has
either not been resolved, or is in `early`, or the JIT will refuse it
(`PendingIsEarly`). `LambdasCorrect` needs only that a lambda in a pending
function has the name its location gives it (`LambdasNamed`). They rest on
the named assumptions of `Jit`: a name is not a function and a global at once, C
macros are exported by the process, and two lambda expressions of one file do
not begin at the same character.

`HashMapProofs` proves, for every hash function, initial size from 2 on, chain
length and memory bound, `TypeCorrect`, `HalfEmptyCorrect` (with and without
removals) and `FindableCorrect`. All actions change the table in one of four
ways (`TableSteps`): not at all, filling the first usable place of a key's chain,
clearing a place, or starting an empty one. `ChainsOK` is the invariant behind
`Findable`: the chain of an element is in use up to its slot, and no key is in
two slots. A put takes the first free or matching place, so a chain never gets
a gap and a key never a second slot. Removals make gaps, which is why the
property ends with them.

The second half of `HashMapProofs` proves under the same assumptions that `HashMap` implements
`Dictionary` up to and including its first removal (`DictionaryImplemented`).
An element is in the table or waits in an old table that a call of
`hashmap_rehash` holds (`ElementsAre`). `Rehash` moves all elements of the table
to the waiting ones; a put called by the loop puts exactly the element the loop
is at (`PutsOK`), so it moves one back; the others move none. As no two elements
have the same key (`KeyOnce`), the contents stay the same until the program's own
put stores its element (`OuterPuts`), runs out of memory and loses what still
waits (`OutOfMemoryFails`), or `hashmap_remove` takes one out (`RemoveRemoves`).

`ArenaProofs` proves, for every part size, set of request sizes and number of
parts, `DisjointCorrect`, `RestIsZeroCorrect`, `OverrunCorrect` and
`TypeCorrect`. None of the invariants is inductive alone: `IInv` adds that
blocks and written bytes lie below `<<part, At>>`, and that `At` and `Left` add
up to a part (`Balanced`), which a wrong comparison in `print_to_mem` would break.
For `OverrunCorrect` it also adds that `Left` is negative only in a part that an
oversized block has overrun (`OverrunsOK`): that is when `print_to_mem` has no limit.
`GivePreserves` covers everything that hands out a block by moving upwards;
`GrowStep` is the block that grows in place.

`TypesProofs` proves, for every set of variables, type expressions, aliases,
structs and functions, `TypeCorrect` and the properties of the run:
`ValuesCorrect`, `InstructionsCorrect`, `FieldsCorrect`, `OpaqueCorrect` and
`NamesCorrect`. The assumptions say only of what kind the constants are: type
expressions are names behind any number of `ptr` and `array`, and lists of
members are not empty. The inductive invariant `IInv` (`TypesInvariant`) needs one
conjunct beside the properties, `AliasesAgree`: the LLVM type that
`create_alias` stored is still the one of what the alias stands for. Without it
`convert_type` could take an alias off a value's type and be left with a value of
another LLVM type.

The argument has three layers.

- About types: the LLVM type of a pointer or an array is its own prop and then
  the LLVM type of the rest (`LowerWrapped`), and an alias has the LLVM type of
  what it stands for (`LowerUnwrapped`, from `AliasesAgree`).
- About conversions: whatever the number of calls and whichever converter
  decides, what `convert_type` returns agrees again, and has the LLVM type of the
  type that was asked for unless its type was asserted (`ConvertAgrees`). `SameNumberAgrees`, `PtrToAgrees`, `LvalueAgrees`
  and `StoreAgrees` say the same of the other operations on values; an
  action needs one of them (the lemmas that end in `Follows`).
- About declarations: they give names a meaning and take none away (`Keeps`,
  `StepKeeps`), because `register_type` refuses a name it has, and a type that is
  already in use reaches only names that have one (`IsType`). So `Lower` of
  every old type is the same after the step, and what agreed still agrees
  (`ValuesKeep`, `AliasesKeep`, `FieldsKeep`). `DefstructHolds` is the
  new struct: numbering the items of the list and not the members is what gives
  every item its own field.

`ReaderProofs` proves, for every set of characters and every set of programs,
`TypeCorrect`, `UnreadCorrect` (`UnreadIsIntact`), `CommentsCorrect`
(`CommentsEnd`), `NamesCorrect` (`NamesAreWhole`) and `LocatedCorrect`
(`Located`). The assumptions are that texts contain no NUL and that `Chars`
has the characters the reader writes itself. The first three rest on `IInv`, which adds to the properties that
the calls on the stack read disjoint parts of the text, inner ones first
(`FramesOK`), and that what a call has not read contains no NUL before its end,
since it is still as it was written (`TopProps`).

- About searching: every search stays inside of the call's text and ends at its
  NUL at the latest (`FirstProps`, `PartEndProps`, `StringEndProps`,
  `WordEndProps`). `CloserProps` is the one that needs `CommentsEnd`:
  without it the bracket found could lie behind the list.
- About writing: what is written lies before the place the call goes on from
  (`SameFrom`, one lemma for each way of writing). For a literal this is because
  its characters are no more than it had (`UnescapedProps`), for a name because
  the NUL written behind the name before it is not behind this one.
- About calls: a call that goes on and writes only what it has read leaves the
  invariant intact (`Advances`), a list that was cut out may be entered
  (`Enters`), and a call that is over may be left (`Leaves`). Each action is one
  of these.

`StringEnd` and `Unescaped` are recursive functions whose domain is finite and
which call themselves further to the right. That such a function exists is
`Backwards`, proved once by descent from the end of the text (`NoLast`); what
they return follows the same way.

`IInv` is about what is yet to be read. `NamesCorrect` and `LocatedCorrect` are about
what has been read, the elements in `frames` and `result`, and need `ElementsInv`
beside it. A name is not terminated when its element is made: the NUL behind it
is still owed by the `last` of a call, possibly one further down the stack. So
the invariant cannot say that the text behind a pointer is right, only that it
will be.

- `Held` says so of one pointer: its characters stand in the text, the NUL behind
  them is there or a call on the stack owes it, no call owes one within them, and
  nobody reads there any more. When the stack is empty, `Held` is what
  `NamesAreWhole` asks for (`StringIs`).
- `Placed` says it of all elements of a list, however deep: they belong to a set
  that contains the elements of its lists (`Closed`), each at a character of the
  program that is not the end of a line, and each name and string `Held`. Such a
  set replaces induction over lists in lists. That `Elements` stays inside of it
  is `ElementsPlaced`, by the same descent as `Backwards`.
- About steps: `Passes` is what a step may do to the text and the calls. It
  writes before the place the innermost call reads only a NUL that was owed, and
  whatever was owed is written or still owed. `HeldPasses` shows that `Held`
  survives it; `TopPasses`, `EnterPasses` and `ReturnPasses` that a call that goes
  on, enters a list or returns does no more.
- About new elements: `WordProps` and `NameRead` show that the word found in the
  altered text is the one of the program, with the same separators; `AlikeStrings`
  and `StringRead` the same for literals. They need that a call's text ends at a
  bracket of the program (`EndsOK`), so that no word goes on behind a list that
  was cut out, and that what is owed lies behind a word (`LastsOK`).
- `CountedLines` is the counting of `get_loc_info`: going through the characters
  up to a place that is no line end counts the lines and columns before it.
  `atfile` is the number of texts until it wraps, which is `Located`'s condition.

Only model-checked: `PutReturns`, because it is liveness, and `ReadsMeaning` and
`QuoteRebuilds`. These two compare with a result that is defined by recursion
over lists in lists, and equality with it needs induction over them, which a
closed set cannot replace.

## Findings

Five runs end in a counterexample; PROJECT.json quotes the comment or check in
the sources that each one contradicts. Two more places are listed with the
hazards because no line of the sources says what they should do: in `defstruct`
a union member that is not the longest has no field number and is accessed under
the type of the longest one (structs.c:96), and `expect_same_number` ends the
compiler with a null pointer when it should widen a float (basictypes.c:358).

## Not modelled

- chdrconv.c: a separate tool over libclang that prints declarations while it
  walks a syntax tree. It shares no state with the compiler and keeps none
  between declarations.
- os_detection.c: two constant functions.
- The examples and the REPL: programs in the language. They showed which
  nestings, redefinitions and conversions occur.
- `print_list` and everything else that formats output; how a text is fetched
  (files, standard input); floating-point numbers in the reader.
- `hashmap_iterate`, `hashmap_free`, and what callers do to the buffers of keys
  they have put.
- Writing and compiling bitcode (include.c) and LLVM's own symbol table, which
  are modelled as far as the compiler uses them.

## Plan

Keys of the hash map in buffers that change after they have been put
(hashmap.c:297), with the table holding references instead of names.
