------------------------------- MODULE Codegen -------------------------------
(***************************************************************************)
(* The code generator of Dolorem: eval.c, fun.c (funbody), quote.c,        *)
(* include.c and the control-structure macros of def.dlr.                  *)
(*                                                                         *)
(* The compiler is one recursive evaluator that generates LLVM code while  *)
(* it walks the program.  Where code goes is decided by global variables:  *)
(* the current module, the current function and its scope chain, the       *)
(* position of the one LLVM builder, the targets of break and continue,    *)
(* and the function handles of the quoter.  Compiling a function body in   *)
(* the middle of another one saves some of them in C locals and restores   *)
(* them.  The stack below is the C stack: one frame for each form whose    *)
(* evaluation has begun, holding the C (or Dolorem) locals it will need.   *)
(* Which form comes next is the program's choice, so Next offers them all. *)
(*                                                                         *)
(* Types, values and names of generated instructions are left out; what    *)
(* remains of the generated code are basic blocks, their terminators, the  *)
(* branches between them and the module of each callee.                    *)
(***************************************************************************)
EXTENDS Naturals, Sequences, FiniteSets

CONSTANTS
  Fun,       \* the struct fun objects a program passes to funbody
  Var,       \* names of local variables
  None,      \* NULL
  Form,      \* which kinds of form the program uses
  MaxDepth,  \* bound on the C stack: forms nested in forms
  MaxBlock   \* bound on a function's basic blocks: with so many it
             \* opens no further construct

ASSUME NoneAssumption  == None \notin Fun
ASSUME BoundAssumption == MaxDepth \in Nat /\ MaxBlock \in Nat

AllForms == {"fun", "lambda", "scope", "var", "call", "while", "if", "cond",
             "quote", "include"}
ASSUME FormAssumption == Form \subseteq AllForms

VARIABLES
  stack,    \* the evaluator's C stack, innermost form last
  mod,      \* jit.c: the module code is generated into, named by the
            \* function that opened it
  curfn,    \* fun.c: curfn, and with it curllvmfn
  pos,      \* where the builder stands: the end of a basic block
  home,     \* home[f]: the module that holds the LLVM function of f
  nblk,     \* nblk[f]: how many basic blocks f has
  term,     \* the blocks that end in a terminator
  edges,    \* the branches between blocks
  phis,     \* the phi nodes of if: [at, inc]
  scope,    \* scope[f]: the chain f->scope, innermost scope last
  loop,     \* def.dlr: while-in-loop, while-last-cond/-after-block
  statics,  \* quote.c: the module that fun_cons, fun_nil... belong to
  uses,     \* callees of emitted calls: [by, of, in], modules of and in
  precompiled_module,  \* include.c: it is not NULL
  exited    \* compiler_error has ended the process

genvars == <<term, edges, phis>>
vars == <<stack, mod, curfn, pos, home, nblk, term, edges, phis, scope, loop,
          statics, uses, precompiled_module, exited>>

FunBlock == Fun \X Nat
NoBlock  == <<None, 0>>
Block    == FunBlock \cup {NoBlock}
Module   == Fun \cup {None}
NoLoop   == [inLoop |-> FALSE, cond |-> NoBlock, after |-> NoBlock]
Loop     == [inLoop : {TRUE}, cond : FunBlock, after : FunBlock] \cup {NoLoop}

\* One kind of frame for each form that evaluates sub-forms; the fields are
\* the locals its C function or macro reads after they return.
BodyFrame    == [k : {"body"}, f : Fun, same_mod : BOOLEAN, old : Module,
                 prev : Module, prev3 : Block]
ScopeFrame   == [k : {"scope"}, pushed : BOOLEAN]
CallFrame    == [k : {"call"}, fun : Fun]
WhileFrame   == [k : {"while"}, ph : {"cond", "body"}, cond : FunBlock,
                 loop : FunBlock, after : FunBlock, last : Loop]
IfFrame      == [k : {"if"}, ph : {"cond", "then", "else"}, ifblk : FunBlock,
                 elseblk : FunBlock, afterif : FunBlock]
CondFrame    == [k : {"cond"}, ph : {"test", "body"}, block2 : Block]
QuoteFrame   == [k : {"quote"}, quasi : BOOLEAN]
UnquoteFrame == [k : {"unquote"}]
IncludeFrame == [k : {"include"}, before : BOOLEAN, so : BOOLEAN]
Frame == BodyFrame \cup ScopeFrame \cup CallFrame \cup WhileFrame
           \cup IfFrame \cup CondFrame \cup QuoteFrame \cup UnquoteFrame
           \cup IncludeFrame

FunScope == [Var -> Block]  \* the block of each variable's alloca

TypeOK ==
  /\ stack \in Seq(Frame)
  /\ mod \in Module /\ curfn \in Module
  /\ pos \in Block
  /\ home \in [Fun -> Module]
  /\ nblk \in [Fun -> Nat]
  /\ term \subseteq FunBlock
  /\ edges \subseteq FunBlock \X FunBlock
  /\ phis \subseteq [at : FunBlock, inc : SUBSET FunBlock]
  /\ scope \in [Fun -> Seq(FunScope)]
  /\ loop \in Loop
  /\ statics \in Module
  /\ uses \subseteq [by : {"call", "quote"}, of : Module, in : Fun]
  /\ precompiled_module \in BOOLEAN
  /\ exited \in BOOLEAN

Init ==
  /\ stack = << >>
  /\ mod = None /\ curfn = None
  /\ pos = NoBlock
  /\ home = [f \in Fun |-> None]
  /\ nblk = [f \in Fun |-> 0]
  /\ term = {} /\ edges = {} /\ phis = {}
  /\ scope = [f \in Fun |-> << >>]
  /\ loop = NoLoop
  /\ statics = None
  /\ uses = {}
  /\ precompiled_module = FALSE
  /\ exited = FALSE

-----------------------------------------------------------------------------
Top      == stack[Len(stack)]
Pop      == stack' = SubSeq(stack, 1, Len(stack) - 1)
Push(fr) == Len(stack) < MaxDepth /\ stack' = Append(stack, fr)
Retop(fr) == stack' = [stack EXCEPT ![Len(stack)] = fr]
Closing(kind) == ~exited /\ stack # << >> /\ Top.k = kind
InPhase(kind, ph) == Closing(kind) /\ Top.ph = ph

\* eval is called by progn of lower_include_list and by every form but quote,
\* which calls it only for the argument of quasiunquote.
Evaluates(form) ==
  /\ form \in Form
  /\ ~exited
  /\ stack # << >> => Top.k # "quote"
  /\ form # "include" => stack # << >>

\* Forms that emit code or declare variables dereference curfn, curllvmfn or
\* the builder's block: programs use them inside function bodies.
Emits(form) == Evaluates(form) /\ curfn # None

NewBlock(i) == <<curfn, nblk[curfn] + i>>
AppendBlocks(n) == nblk' = [nblk EXCEPT ![curfn] = @ + n]
Room == nblk[curfn] < MaxBlock

\* Br, CondBr and Ret end the builder's block.
Terminate(targets) == /\ term' = term \cup {pos}
                      /\ edges' = edges \cup ({pos} \X targets)

EmptyScope == [v \in Var |-> NoBlock]

-----------------------------------------------------------------------------
\* funbody, up to the evaluation of the body.  While a precompiled file is
\* being loaded it returns at once and nothing is generated.
FunBody(f, same) ==
  /\ precompiled_module
  /\ home[f] = None
  /\ Push([k |-> "body", f |-> f, same_mod |-> same, old |-> mod,
           prev |-> curfn, prev3 |-> pos])
  /\ mod' = IF same THEN mod ELSE f
  /\ home' = [home EXCEPT ![f] = mod']
  /\ nblk' = [nblk EXCEPT ![f] = 1]
  /\ pos' = <<f, 1>>
  /\ scope' = [scope EXCEPT ![f] = <<EmptyScope>>]
  /\ curfn' = f
  /\ UNCHANGED <<genvars, loop, statics, uses, precompiled_module, exited>>

\* defun, defmacro, deftypemacro, deftypeconverter and static-cond.
Define(f) == Evaluates("fun") /\ FunBody(f, FALSE)

\* freestanding_lambda: the function joins the current module, which is NULL
\* outside of function bodies.
Lambda(f) == Emits("lambda") /\ FunBody(f, TRUE)

\* The context funbody and end_function go back to.  SetBuilderPosition does
\* nothing for a NULL block.
PosNotRestored == pos
RestoredPos == IF Top.prev3[1] # None THEN Top.prev3 ELSE pos
ModNotRestored == mod
RestoredMod == IF Top.same_mod THEN mod ELSE Top.old

\* funbody, after the evaluation of the body.
EndBody ==
  /\ Closing("body")
  /\ Terminate({})
  /\ curfn' = Top.prev
  /\ pos' = RestoredPos
  /\ mod' = RestoredMod
  /\ Pop
  /\ UNCHANGED <<home, nblk, phis, scope, loop, statics, uses,
                 precompiled_module, exited>>

-----------------------------------------------------------------------------
\* eval.c, scope: outside of a function it is progn.
Scope ==
  /\ Evaluates("scope")
  /\ Push([k |-> "scope", pushed |-> curfn # None])
  /\ scope' = IF curfn = None THEN scope
              ELSE [scope EXCEPT ![curfn] = Append(@, EmptyScope)]
  /\ UNCHANGED <<mod, curfn, pos, home, nblk, genvars, loop, statics, uses,
                 precompiled_module, exited>>

ScopeKept(chain) == chain
Parent(chain)    == SubSeq(chain, 1, Len(chain) - 1)

EndScope ==
  /\ Closing("scope")
  /\ scope' = IF ~Top.pushed THEN scope
              ELSE [scope EXCEPT ![curfn] = Parent(@)]
  /\ Pop
  /\ UNCHANGED <<mod, curfn, pos, home, nblk, genvars, loop, statics, uses,
                 precompiled_module, exited>>

\* var.c, add_variable: an alloca where the builder stands, found first from
\* now on under its name in the innermost scope.
AddVariable(v) ==
  /\ Emits("var")
  /\ scope' = [scope EXCEPT ![curfn][Len(scope[curfn])][v] = pos]
  /\ UNCHANGED <<stack, mod, curfn, pos, home, nblk, genvars, loop, statics,
                 uses, precompiled_module, exited>>

\* fun.c, lookup_in_fun_scope: innermost scope first.
Declaring(f, v) == {i \in 1..Len(scope[f]) : scope[f][i][v] # NoBlock}
Visible(f, v)   == Declaring(f, v) # {}
LookupInFunScope(f, v) ==
  scope[f][CHOOSE i \in Declaring(f, v) : \A j \in Declaring(f, v) : j <= i][v]

-----------------------------------------------------------------------------
\* eval.c, funcall: the callee is looked up in, or declared in, the current
\* module before the arguments are evaluated, and called after.
Funcall ==
  /\ Emits("call")
  /\ Push([k |-> "call", fun |-> mod])
  /\ UNCHANGED <<mod, curfn, pos, home, nblk, genvars, scope, loop, statics,
                 uses, precompiled_module, exited>>

EndFuncall ==
  /\ Closing("call")
  /\ uses' = uses \cup {[by |-> "call", of |-> Top.fun, in |-> home[pos[1]]]}
  /\ Pop
  /\ UNCHANGED <<mod, curfn, pos, home, nblk, genvars, scope, loop, statics,
                 precompiled_module, exited>>

-----------------------------------------------------------------------------
\* def.dlr, while: three blocks, then the condition ...
While ==
  /\ Emits("while") /\ Room
  /\ AppendBlocks(3)
  /\ Terminate({NewBlock(1)})
  /\ pos' = NewBlock(1)
  /\ Push([k |-> "while", ph |-> "cond", cond |-> NewBlock(1),
           loop |-> NewBlock(2), after |-> NewBlock(3), last |-> loop])
  /\ UNCHANGED <<mod, curfn, home, phis, scope, loop, statics, uses,
                 precompiled_module, exited>>

\* ... then the loop globals are saved and set, and the body is evaluated ...
LoopNotSaved == NoLoop
SavedLoop    == loop

WhileBody ==
  /\ InPhase("while", "cond")
  /\ Terminate({Top.loop, Top.after})
  /\ pos' = Top.loop
  /\ Retop([Top EXCEPT !.ph = "body", !.last = SavedLoop])
  /\ loop' = [inLoop |-> TRUE, cond |-> Top.cond, after |-> Top.after]
  /\ UNCHANGED <<mod, curfn, home, nblk, phis, scope, statics, uses,
                 precompiled_module, exited>>

\* ... and then they are restored.
EndWhile ==
  /\ InPhase("while", "body")
  /\ loop' = Top.last
  /\ Terminate({Top.cond})
  /\ pos' = Top.after
  /\ Pop
  /\ UNCHANGED <<mod, curfn, home, nblk, phis, scope, statics, uses,
                 precompiled_module, exited>>

\* def.dlr, break and continue: code that follows goes to a block that
\* nothing reaches.
LoopUnchecked == TRUE
InLoop        == loop.inLoop
NoDeadBlock   == pos
DeadBlock     == NewBlock(1)

Jump(target) ==
  /\ Emits("while") /\ Room
  /\ IF InLoop
     THEN /\ AppendBlocks(1)
          /\ Terminate({target})
          /\ pos' = DeadBlock
          /\ UNCHANGED exited
     ELSE /\ exited' = TRUE
          /\ UNCHANGED <<nblk, term, edges, pos>>
  /\ UNCHANGED <<stack, mod, curfn, home, phis, scope, loop, statics, uses,
                 precompiled_module>>

Break    == Jump(loop.after)
Continue == Jump(loop.cond)

-----------------------------------------------------------------------------
\* def.dlr, if: three blocks, the condition, two branches, and a phi node.
If ==
  /\ Emits("if") /\ Room
  /\ AppendBlocks(3)
  /\ Push([k |-> "if", ph |-> "cond", ifblk |-> NewBlock(1),
           elseblk |-> NewBlock(2), afterif |-> NewBlock(3)])
  /\ UNCHANGED <<mod, curfn, pos, home, genvars, scope, loop, statics, uses,
                 precompiled_module, exited>>

IfThen ==
  /\ InPhase("if", "cond")
  /\ Terminate({Top.ifblk, Top.elseblk})
  /\ pos' = Top.ifblk
  /\ Retop([Top EXCEPT !.ph = "then"])
  /\ UNCHANGED <<mod, curfn, home, nblk, phis, scope, loop, statics, uses,
                 precompiled_module, exited>>

IfElse ==
  /\ InPhase("if", "then")
  /\ Terminate({Top.afterif})
  /\ pos' = Top.elseblk
  /\ Retop([Top EXCEPT !.ph = "else"])
  /\ UNCHANGED <<mod, curfn, home, nblk, phis, scope, loop, statics, uses,
                 precompiled_module, exited>>

EndIf ==
  /\ InPhase("if", "else")
  /\ Terminate({Top.afterif})
  /\ pos' = Top.afterif
  /\ phis' = phis \cup {[at |-> Top.afterif,
                         inc |-> {Top.ifblk, Top.elseblk}]}
  /\ Pop
  /\ UNCHANGED <<mod, curfn, home, nblk, scope, loop, statics, uses,
                 precompiled_module, exited>>

\* def.dlr, cond and lower-cond: the blocks are appended after the condition
\* has been evaluated.
Cond ==
  /\ Emits("cond") /\ Room
  /\ Push([k |-> "cond", ph |-> "test", block2 |-> NoBlock])
  /\ UNCHANGED <<mod, curfn, pos, home, nblk, genvars, scope, loop, statics,
                 uses, precompiled_module, exited>>

CondBody ==
  /\ InPhase("cond", "test")
  /\ AppendBlocks(2)
  /\ Terminate({NewBlock(1), NewBlock(2)})
  /\ pos' = NewBlock(1)
  /\ Retop([k |-> "cond", ph |-> "body", block2 |-> NewBlock(2)])
  /\ UNCHANGED <<mod, curfn, home, phis, scope, loop, statics, uses,
                 precompiled_module, exited>>

EndCond ==
  /\ InPhase("cond", "body")
  /\ Terminate({Top.block2})
  /\ pos' = Top.block2
  /\ Pop
  /\ UNCHANGED <<mod, curfn, home, nblk, phis, scope, loop, statics, uses,
                 precompiled_module, exited>>

-----------------------------------------------------------------------------
\* quote.c: setup_quote binds the static handles to the current module; the
\* traversal then calls through them for every element it meets ...
Quote(quasi) ==
  /\ Emits("quote")
  /\ statics' = mod
  /\ Push([k |-> "quote", quasi |-> quasi])
  /\ UNCHANGED <<mod, curfn, pos, home, nblk, genvars, scope, loop, uses,
                 precompiled_module, exited>>

LowerQuote ==
  /\ Closing("quote")
  /\ uses' = uses \cup {[by |-> "quote", of |-> statics,
                         in |-> home[pos[1]]]}
  /\ UNCHANGED <<stack, mod, curfn, pos, home, nblk, genvars, scope, loop,
                 statics, precompiled_module, exited>>

\* ... and evaluates the argument of a quasiunquote in between.
Quasiunquote ==
  /\ Closing("quote") /\ Top.quasi
  /\ Push([k |-> "unquote"])
  /\ UNCHANGED <<mod, curfn, pos, home, nblk, genvars, scope, loop, statics,
                 uses, precompiled_module, exited>>

EndQuasiquote(kind) ==
  /\ Closing(kind)
  /\ Pop
  /\ UNCHANGED <<mod, curfn, pos, home, nblk, genvars, scope, loop, statics,
                 uses, precompiled_module, exited>>

-----------------------------------------------------------------------------
\* include.c, lower_include_list: for a file of the command line or an
\* include form; so says that an up-to-date precompiled object was found.
Include(so) ==
  /\ Evaluates("include")
  /\ precompiled_module' = ~so
  /\ Push([k |-> "include", before |-> precompiled_module, so |-> so])
  /\ UNCHANGED <<mod, curfn, pos, home, nblk, genvars, scope, loop, statics,
                 uses, exited>>

PrecompiledKept == precompiled_module
PrecompiledBefore == Top.before

EndInclude ==
  /\ Closing("include")
  /\ precompiled_module' = PrecompiledBefore
  /\ Pop
  /\ UNCHANGED <<mod, curfn, pos, home, nblk, genvars, scope, loop, statics,
                 uses, exited>>

\* Any form may turn out to be malformed, a name unknown or a conversion
\* impossible: compiler_error prints a message and calls exit.
CompilerError ==
  /\ ~exited /\ stack # << >>
  /\ exited' = TRUE
  /\ UNCHANGED <<stack, mod, curfn, pos, home, nblk, genvars, scope, loop,
                 statics, uses, precompiled_module>>

\* The process is over, or main has evaluated its last file.
Stop == /\ exited \/ stack = << >>
        /\ UNCHANGED vars

-----------------------------------------------------------------------------
Next ==
  \/ \E f \in Fun : Define(f) \/ Lambda(f)
  \/ EndBody
  \/ Scope \/ EndScope
  \/ \E v \in Var : AddVariable(v)
  \/ Funcall \/ EndFuncall
  \/ While \/ WhileBody \/ EndWhile
  \/ Break \/ Continue
  \/ If \/ IfThen \/ IfElse \/ EndIf
  \/ Cond \/ CondBody \/ EndCond
  \/ \E quasi \in BOOLEAN : Quote(quasi)
  \/ LowerQuote \/ Quasiunquote
  \/ \E kind \in {"quote", "unquote"} : EndQuasiquote(kind)
  \/ \E so \in BOOLEAN : Include(so)
  \/ EndInclude
  \/ CompilerError
  \/ Stop

Spec == Init /\ [][Next]_vars
-----------------------------------------------------------------------------
\* The innermost function under compilation in the first n frames of s is f.
Innermost(s, n, f) ==
  \/ f = None /\ \A i \in 1..n : s[i].k # "body"
  \/ \E i \in 1..n : /\ s[i].k = "body" /\ s[i].f = f
                     /\ \A j \in (i+1)..n : s[j].k # "body"

\* b is a basic block of the function f, which has been started.
BlockOf(b, f) == f \in Fun /\ home[f] # None /\ b[1] = f /\ b[2] \in 1..nblk[f]

\* However compilations nest, the globals that say where code goes agree with
\* each other and with the innermost function on the C stack (funbody's
\* save and restore, fun.c:294-346): the builder stands in a block of curfn,
\* and curfn lives in the module that new declarations are added to.
ContextAgrees ==
  /\ Innermost(stack, Len(stack), curfn)
  /\ IF curfn = None THEN mod = None
     ELSE mod = home[curfn] /\ BlockOf(pos, curfn)

\* A name resolves to a variable of the function that is being compiled, never
\* to one of a function around it or inside it (fun.c:263-277, var.c:16-26).
LookupIsLocal ==
  \A f \in Fun, v \in Var : Visible(f, v) => LookupInFunScope(f, v)[1] = f

\* Code is never emitted behind a terminator: while a function is being
\* compiled, the builder's block is still open, also after break, continue,
\* nested functions and all the blocks the macros of def.dlr create.
BuilderBlockOpen == curfn # None => pos \notin term

UnderCompilation == {stack[i].f : i \in {j \in 1..Len(stack) :
                                         stack[j].k = "body"}}

\* Every basic block of a function that end_function hands to the JIT ends in
\* a terminator, as LLVM demands: no macro forgets a block it appended.
FinishedIsTerminated ==
  \A f \in Fun : home[f] # None /\ f \notin UnderCompilation =>
    \A i \in 1..nblk[f] : <<f, i>> \in term

OpenScopes(f) == {i \in 1..Len(stack) : /\ stack[i].k = "scope"
                                         /\ stack[i].pushed
                                         /\ Innermost(stack, i, f)}

\* The chain of every unfinished function has one scope for the body and one
\* for each of its blocks still open, whatever was compiled inside of them, so
\* that a name goes out of scope with its block (eval.c:118-122).
ScopesAreOpen ==
  \A f \in UnderCompilation : Len(scope[f]) = 1 + Cardinality(OpenScopes(f))

InBody == {i \in 1..Len(stack) : stack[i].k = "while" /\ stack[i].ph = "body"}

\* The loop globals of def.dlr always describe the innermost loop whose body
\* is being evaluated, and say so when there is none: whatever was compiled
\* in between, a break directly inside a loop leaves that loop.
LoopIsInnermost ==
  IF InBody = {} THEN loop = NoLoop
  ELSE LET w == CHOOSE i \in InBody : \A j \in InBody : j <= i
       IN loop = [inLoop |-> TRUE, cond |-> stack[w].cond,
                  after |-> stack[w].after]

\* A call's callee is declared in the module the call is emitted into, even
\* though funcall looks it up before it evaluates the arguments, which may
\* compile other functions in other modules (eval.c:181-195).
CalleeInModule == \A u \in uses : u.by = "call" => u.of = u.in

\* Function bodies are generated exactly while the innermost file being
\* evaluated is not one whose precompiled object was loaded (include.c:47-55,
\* 69); files nest in both ways and in the middle of functions.
PrecompiledFollowsFile ==
  LET files == {i \in 1..Len(stack) : stack[i].k = "include"}
  IN precompiled_module <=>
       \E i \in files : ~stack[i].so /\ \A j \in files : j <= i

-----------------------------------------------------------------------------
\* The abstract view: one activation for each function under compilation.
ActivationOf(f) ==
  [fn  |-> f, mod |-> home[f],
   env |-> [i \in 1..Len(scope[f]) |-> [v \in Var |-> scope[f][i][v][1]]]]

\* The functions under compilation, from the bottom of the stack.
Bodies     == {i \in 1..Len(stack) : stack[i].k = "body"}
Rank(S, i) == Cardinality({j \in S : j <= i})
Nth(S, n)  == CHOOSE i \in S : Rank(S, i) = n
Acts == [n \in 1..(Cardinality(Bodies) + 1) |->
           IF n = 1 THEN [fn |-> None, mod |-> None, env |-> << >>]
           ELSE ActivationOf(stack[Nth(Bodies, n-1)].f)]
Code == [f \in Fun |-> {i \in 1..nblk[f] : <<f, i>> \in term}]

\* The saved and restored globals implement nested activations: code, scopes
\* and declarations only ever reach the innermost one.
Lexical == INSTANCE Activation WITH acts <- Acts, code <- Code
ImplementsActivation == Lexical!Spec

-----------------------------------------------------------------------------
\* def.dlr:249 and 257 reject a break or continue "outside of loop"; a branch
\* they do emit should then stay inside the function being compiled.
BranchStaysInFunction == \A e \in edges : e[1][1] = e[2][1]

\* Each module is handed to LLVMVerifyModule (jit.c:75), for which a call
\* through a handle of another module is invalid: the calls that build a
\* quoted list should use the handles of their own module.
QuoteCalleeInModule == \A u \in uses : u.by = "quote" => u.of = u.in

\* LLVMVerifyModule (jit.c:75) also requires a phi node to name exactly the
\* predecessors of its block.
PhiNamesPredecessors ==
  \A p \in phis : p.inc = {b \in term : <<b, p.at>> \in edges}
=============================================================================
