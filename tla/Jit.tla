--------------------------------- MODULE Jit ---------------------------------
(***************************************************************************)
(* What a name means: jit.c, llvmjit.cpp, global.c and the definitions of  *)
(* fun.c.                                                                  *)
(*                                                                         *)
(* A name is looked up in three places that know nothing of each other:    *)
(* map_funs (and map_globals), where struct fun caches an address; the     *)
(* symbol table of LLVM's JIT, which calls in compiled code are bound to;  *)
(* and the process, searched with dlsym.  resolve_sym, which runs macros,  *)
(* asks the cache, the JIT and the process in this order.  When a module   *)
(* is added, every name it refers to is resolved and entered in the JIT    *)
(* before the module's own symbols are.  A step that meets an error does   *)
(* not exist: compiler_error ends the process.                             *)
(*                                                                         *)
(* A name has at most one definition in the JIT, so an address is the      *)
(* place that holds it: "jit" for compiled code, "exe" for the compiler    *)
(* and its libraries, "so" for an object loaded later.  pending holds the  *)
(* functions that are being compiled, innermost last; Codegen says where   *)
(* their code goes, here they only matter for the names they refer to.     *)
(***************************************************************************)
EXTENDS Naturals, Sequences, FiniteSets

CONSTANTS
  FunName,      \* names of functions and macros
  GlobalName,   \* names of global variables
  CMacro,       \* the macros entered by the init_ functions
  Exported,     \* names that the process exports from the start
  LambdaForm,   \* the lambda expressions of the program
  FileIdx,      \* their location: file, 0 for generated code ...
  CharIdx,      \* ... and character
  Objects,      \* the names in each shared object that can be loaded
  None,         \* no address
  MaxNest,      \* bound on functions compiled inside of each other
  MaxIncludes   \* bound on files being loaded

Name == FunName \cup GlobalName

ASSUME NameAssumption   == FunName \cap GlobalName = {}
ASSUME CMacroAssumption == CMacro \subseteq FunName \cap Exported
ASSUME LambdaAssumption == /\ FileIdx \in [LambdaForm -> Nat]
                           /\ CharIdx \in [LambdaForm -> Nat]
\* Two lambda expressions of one file do not begin at the same place.
ASSUME LocationAssumption ==
  \A a, b \in LambdaForm :
    FileIdx[a] = FileIdx[b] /\ CharIdx[a] = CharIdx[b] => a = b \/ FileIdx[a] = 0
ASSUME NoneAssumption   == None \notin {"jit", "exe", "so"}
ASSUME ObjectAssumption == Objects \subseteq SUBSET Name
ASSUME BoundAssumption  == MaxNest \in Nat /\ MaxIncludes \in Nat

VARIABLES
  map_funs,     \* the struct fun of each name, and ptr, its cache
  map_globals,  \* the struct global of each name, likewise
  jit,          \* the JIT's symbol table
  anon,         \* names of lambdas in the JIT
  process,      \* what dlsym finds
  map_modules,  \* a compiled name's module, for linking: it may be used up
  pending,      \* functions being compiled: name, names referred to, lambdas
  includes,     \* files being loaded: functions around them, and
                \* precompiled_module before them
  precompiled_module, \* it is not NULL
  referred,     \* ghost: names that modules in the JIT refer to
  latest,       \* ghost: where the latest definition of a name is
  early,        \* ghost: names resolved before their definition was complete
  mistaken      \* ghost: lambda expressions that evaluated to another one

ghosts == <<referred, latest, early, mistaken>>
linkvars == <<jit, anon, process, map_modules>>
vars == <<map_funs, map_globals, linkvars, pending, includes,
          precompiled_module, ghosts>>

Place   == {"jit", "exe", "so", None}
Uncleared == [defined |-> TRUE, ptr |-> "dirty"]
Unknown == [defined |-> FALSE, ptr |-> None]
New     == [defined |-> TRUE, ptr |-> None]
NameWithoutChar(fm) == <<FileIdx[fm], FileIdx[fm], FileIdx[fm]>>
LambdaName(fm) == <<FileIdx[fm], FileIdx[fm], CharIdx[fm]>>
LambdaNames == Nat \X Nat \X Nat
LambdaDef   == [name : LambdaNames, form : LambdaForm]
Body == [name : FunName, refs : SUBSET Name, lambdas : SUBSET LambdaDef]

TypeOK ==
  /\ map_funs \in [FunName -> [defined : BOOLEAN, ptr : Place]]
  /\ map_globals \in [GlobalName -> [defined : BOOLEAN, ptr : Place]]
  /\ jit \in [Name -> Place]
  /\ anon \subseteq LambdaNames
  /\ process \in [Name -> {"exe", "so", None}]
  /\ map_modules \in [Name -> {"absent", "module", "used"}]
  /\ pending \in Seq(Body)
  /\ includes \in Seq([depth : Nat, before : BOOLEAN])
  /\ precompiled_module \in BOOLEAN
  /\ referred \subseteq Name
  /\ latest \in [FunName -> Place]
  /\ early \subseteq FunName
  /\ mistaken \subseteq LambdaForm

Init ==
  /\ map_funs = [n \in FunName |-> IF n \in CMacro THEN New ELSE Unknown]
  /\ map_globals = [g \in GlobalName |-> Unknown]
  /\ jit = [n \in Name |-> None]
  /\ anon = {}
  /\ process = [n \in Name |-> IF n \in Exported THEN "exe" ELSE None]
  /\ map_modules = [n \in Name |-> "absent"]
  /\ pending = << >> /\ includes = << >>
  /\ precompiled_module = TRUE
  /\ referred = {} /\ early = {} /\ mistaken = {}
  /\ latest = [n \in FunName |-> IF n \in Exported THEN "exe" ELSE None]

-----------------------------------------------------------------------------
Known(n) == IF n \in FunName THEN map_funs[n].defined
                             ELSE map_globals[n].defined
Ptr(n)   == IF n \in FunName THEN map_funs[n].ptr ELSE map_globals[n].ptr

\* resolve_sym, and lower_resolve_address for globals: the cache, the JIT,
\* the process.  None is an error.
ProcessFirst(n) == IF Ptr(n) # None THEN Ptr(n)
                   ELSE IF process[n] # None THEN process[n] ELSE jit[n]
Resolve(n) == IF Ptr(n) # None THEN Ptr(n)
              ELSE IF jit[n] # None THEN jit[n] ELSE process[n]

Top   == pending[Len(pending)]
Below == SubSeq(pending, 1, Len(pending) - 1)
BeingCompiled(n) == \E i \in 1..Len(pending) : pending[i].name = n
\* The innermost form that is evaluated: the function, or a file inside it.
FileDepth == IF includes = << >> THEN 0 ELSE includes[Len(includes)].depth

-----------------------------------------------------------------------------
\* hashmap_put of a new struct fun, which has no address yet.
Declare(n) ==
  /\ map_funs' = [map_funs EXCEPT ![n] = New]
  /\ early' = early \ {n}

Funproto(n) ==
  /\ ~Known(n)
  /\ Declare(n)
  /\ UNCHANGED <<map_globals, linkvars, pending, includes,
                 precompiled_module, referred, latest, mistaken>>

\* macroproto, typemacroproto, typeconverterproto and the REPL: a name that
\* exists is replaced.
Macroproto(n) ==
  /\ Declare(n)
  /\ UNCHANGED <<map_globals, linkvars, pending, includes,
                 precompiled_module, referred, latest, mistaken>>

\* funbody: without precompiled_module the code is in the loaded object.
FunBody(n) ==
  IF precompiled_module
  THEN /\ Len(pending) < MaxNest
       /\ pending' = Append(pending, [name |-> n, refs |-> {}, lambdas |-> {}])
       /\ UNCHANGED latest
  ELSE /\ latest' = [latest EXCEPT ![n] = "so"]
       /\ UNCHANGED pending

\* defun and static-cond: the name must be new.
Defun(n) ==
  /\ ~Known(n)
  /\ Declare(n)
  /\ FunBody(n)
  /\ UNCHANGED <<map_globals, linkvars, includes, precompiled_module,
                 referred, mistaken>>

\* defmacro, deftypemacro, deftypeconverter and the REPL.
Defmacro(n) ==
  /\ Declare(n)
  /\ FunBody(n)
  /\ UNCHANGED <<map_globals, linkvars, includes, precompiled_module,
                 referred, mistaken>>

-----------------------------------------------------------------------------
\* A call, funptr-to or a global in the function being compiled.
Refer(n) ==
  /\ pending # << >> /\ Known(n)
  /\ pending' = Append(Below, [name |-> Top.name, refs |-> Top.refs \cup {n},
                               lambdas |-> Top.lambdas])
  /\ UNCHANGED <<map_funs, map_globals, linkvars, includes,
                 precompiled_module, ghosts>>

\* freestanding_lambda: the second function of a name is renamed by LLVM, and
\* the value of the form is the first one.
Lambda(fm) ==
  /\ pending # << >> /\ precompiled_module
  /\ LET named == {l \in Top.lambdas : l.name = LambdaName(fm)}
         new   == [name |-> LambdaName(fm), form |-> fm]
         got   == IF named = {} THEN new ELSE CHOOSE l \in named : TRUE
     IN /\ pending' = Append(Below, [name |-> Top.name, refs |-> Top.refs,
                                     lambdas |-> Top.lambdas \cup {got}])
        /\ mistaken' = IF got.form = fm THEN mistaken ELSE mistaken \cup {fm}
  /\ UNCHANGED <<map_funs, map_globals, linkvars, includes,
                 precompiled_module, referred, latest, early>>

\* addModule hands every name a module refers to to address_registrar, which
\* caches its address and enters it in the JIT; a name that is there stays.
RegisterUncached(refs) ==
  [n \in Name |-> IF n \in refs /\ jit[n] = None /\ Ptr(n) = None
                  THEN Resolve(n) ELSE jit[n]]
Register(refs) ==
  [n \in Name |-> IF n \in refs /\ jit[n] = None THEN Resolve(n) ELSE jit[n]]

CacheFuns(refs) ==
  [n \in FunName |-> [defined |-> map_funs[n].defined,
                      ptr |-> IF n \in refs THEN Resolve(n) ELSE Ptr(n)]]
CacheGlobals(refs) ==
  [g \in GlobalName |-> [defined |-> map_globals[g].defined,
                         ptr |-> IF g \in refs THEN Resolve(g) ELSE Ptr(g)]]

\* end_function: store a clone for linking, resolve what the module refers
\* to, and only then add its own symbols, which must be new.
StoreNothing(n) == map_modules
StoreModule(n)  == [map_modules EXCEPT ![n] = "module"]

EndFunction ==
  /\ pending # << >> /\ FileDepth < Len(pending)
  /\ LET n     == Top.name
         known == Register(Top.refs)
         names == {l.name : l \in Top.lambdas}
     IN /\ \A r \in Top.refs : Resolve(r) # None
        /\ known[n] = None
        /\ names \cap anon = {}
        /\ map_modules' = StoreModule(n)
        /\ map_funs' = CacheFuns(Top.refs)
        /\ map_globals' = CacheGlobals(Top.refs)
        /\ jit' = [known EXCEPT ![n] = "jit"]
        /\ anon' = anon \cup names
        /\ pending' = Below
        /\ referred' = referred \cup Top.refs
        /\ latest' = [latest EXCEPT ![n] = "jit"]
  /\ UNCHANGED <<process, includes, precompiled_module, early, mistaken>>

\* call_fun_macro, call_type_macro, call_type_converter and static-cond's
\* resolve-sym: the code at the resolved address runs.
Call(n) ==
  /\ Known(n) /\ Resolve(n) # None
  /\ map_funs' = [map_funs EXCEPT ![n].ptr = Resolve(n)]
  /\ early' = IF Ptr(n) = None /\ jit[n] = None /\ BeingCompiled(n)
              THEN early \cup {n} ELSE early
  /\ UNCHANGED <<map_globals, linkvars, pending, includes,
                 precompiled_module, referred, latest, mistaken>>

-----------------------------------------------------------------------------
\* lower_defglobal: the storage is a module of its own in the JIT, unless it
\* is somewhere else already.
Stored(g) == /\ jit[g] = None
             /\ jit' = [jit EXCEPT ![g] = "jit"]
             /\ map_modules' = StoreModule(g)

Defglobal(g, isextern) ==
  /\ ~Known(g)
  /\ map_globals' = [map_globals EXCEPT ![g] = New]
  /\ IF ~isextern /\ precompiled_module THEN Stored(g)
                                        ELSE UNCHANGED <<jit, map_modules>>
  /\ UNCHANGED <<map_funs, anon, process, pending, includes,
                 precompiled_module, ghosts>>

\* add_symbol_to_module uses a module up, copy_symbol_to_module clones it and
\* leaves no trace here.
AddSymbol(n) ==
  /\ map_modules[n] = "module"
  /\ map_modules' = [map_modules EXCEPT ![n] = "used"]
  /\ UNCHANGED <<map_funs, map_globals, jit, anon, process, pending,
                 includes, precompiled_module, ghosts>>

-----------------------------------------------------------------------------
\* dlopen: names the process has already keep their meaning.
Load(new) ==
  /\ process' = [n \in Name |-> IF n \in new /\ process[n] = None
                                THEN "so" ELSE process[n]]
  /\ latest' = [n \in FunName |-> IF n \in new /\ latest[n] = None
                                  THEN "so" ELSE latest[n]]

\* def.dlr, link-in.
LinkIn(object) ==
  /\ Load(object)
  /\ UNCHANGED <<map_funs, map_globals, jit, anon, map_modules, pending,
                 includes, precompiled_module, referred, early, mistaken>>

\* lower_include_list: a precompiled object is loaded instead of generating
\* code for the file.
Include(object, so) ==
  /\ Len(includes) < MaxIncludes
  /\ includes' = Append(includes, [depth |-> Len(pending),
                                   before |-> precompiled_module])
  /\ precompiled_module' = ~so
  /\ IF so THEN Load(object) ELSE UNCHANGED <<process, latest>>
  /\ UNCHANGED <<map_funs, map_globals, jit, anon, map_modules, pending,
                 referred, early, mistaken>>

EndInclude ==
  /\ includes # << >> /\ FileDepth = Len(pending)
  /\ precompiled_module' = includes[Len(includes)].before
  /\ includes' = SubSeq(includes, 1, Len(includes) - 1)
  /\ UNCHANGED <<map_funs, map_globals, linkvars, pending, ghosts>>

Next ==
  \/ \E n \in FunName : \/ Funproto(n) \/ Macroproto(n) \/ Defun(n)
                        \/ Defmacro(n) \/ Call(n)
  \/ \E n \in Name : Refer(n) \/ AddSymbol(n)
  \/ \E fm \in LambdaForm : Lambda(fm)
  \/ EndFunction
  \/ \E g \in GlobalName, isextern \in BOOLEAN : Defglobal(g, isextern)
  \/ \E object \in Objects : LinkIn(object) \/ \E so \in BOOLEAN : Include(object, so)
  \/ EndInclude

Spec == Init /\ [][Next]_vars
-----------------------------------------------------------------------------
\* A definition that came with a precompiled object is shadowed by compiled
\* code or a C function of that name.
Shadowed(n) == latest[n] = "so" /\ (jit[n] # None \/ process[n] = "exe")

\* A macro call runs the latest definition of its name (jit.c:38), with two
\* exceptions: the name was called while that definition was being compiled,
\* or the definition is in a precompiled object and shadowed.
CallRunsLatest ==
  \A n \in FunName : map_funs[n].ptr # None
                     => \/ map_funs[n].ptr = latest[n]
                        \/ n \in early \/ Shadowed(n)

\* Compiled code never refers to a name the JIT cannot find, and where a call
\* in it goes is where resolve_sym goes (llvmjit.cpp:102).
CodeAgreesWithMacros ==
  \A n \in referred :
    /\ jit[n] # None
    /\ Ptr(n) # None => Ptr(n) = jit[n] \/ n \in early

\* A global has one storage: its cached address is that which the JIT binds
\* compiled code to (jit.c:63).
GlobalsAgree ==
  \A g \in GlobalName : map_globals[g].ptr # None => map_globals[g].ptr = jit[g]

\* What the JIT compiled can be linked into a program or has been, and
\* nothing else can (jit.c:81, 100 and 142).
LinkableIsCompiled ==
  \A n \in Name : jit[n] = "jit" <=> map_modules[n] # "absent"

\* A lambda that was read from a file is never mistaken for another one
\* (fun.c:194); one without a location may be.
LambdaIsOwn ==
  \A fm \in mistaken : FileIdx[fm] = 0
=============================================================================
