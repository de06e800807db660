-------------------------- MODULE CodegenScopeProofs --------------------------
(***************************************************************************)
(* Proofs about the scope chains of Codegen: a name never resolves to a    *)
(* variable of another function, and a scope lives as long as its block.   *)
(*                                                                         *)
(* The second half shows that Codegen implements Activation.  The abstract *)
(* activations are read off the C stack: the n-th body frame, counted from *)
(* the bottom, is found by its rank.  A step changes the body frames only  *)
(* at the top, and the home and the chain of the current function only, so *)
(* all activations but the innermost stay as they are.                     *)
(***************************************************************************)
EXTENDS CodegenBlockProofs, WellFoundedInduction

\* The last member of a bounded set of numbers exists.
LEMMA LastOf ==
  ASSUME NEW n \in Nat, NEW S \in SUBSET (1..n), S # {}
  PROVE  \E i \in S : \A j \in S : j <= i
<1> DEFINE T == {n - i : i \in S}
<1>1. T \subseteq Nat /\ T # {}
  <2>1. \A i \in S : n - i \in Nat
    OBVIOUS
  <2>2. PICK i \in S : n - i \in T
    OBVIOUS
  <2> QED BY <2>1, <2>2
<1>2. PICK R : R = OpToRel(<, Nat)
  OBVIOUS
<1>3. \A a, b \in Nat : a < b => <<a, b>> \in R
  BY <1>2 DEF OpToRel
<1>4. IsWellFoundedOn(R, Nat)
  BY <1>2, NatLessThanWellFounded
<1>5. PICK m \in T : \A k \in T : <<k, m>> \notin R
  BY <1>1, <1>4, WFMin
<1>6. PICK i \in S : m = n - i
  OBVIOUS
<1>7. ASSUME NEW j \in S PROVE j <= i
  <2>1. n - j \in T /\ n - j \in Nat /\ m \in Nat
    BY <1>1
  <2>2. ~(n - j < m)
    BY <1>3, <1>5, <2>1
  <2> QED BY <1>6, <2>2
<1> QED BY <1>7

\* Every declaration in a function's chain stands in a block of the function.
Local == \A f \in Fun, v \in Var : \A i \in 1..Len(scope[f]) :
           scope[f][i][v] # NoBlock => scope[f][i][v][1] = f

LEMMA LocalLookup ==
  ASSUME TypeOK, Local
  PROVE  LookupIsLocal
<1> SUFFICES ASSUME NEW f \in Fun, NEW v \in Var, Visible(f, v)
             PROVE  LookupInFunScope(f, v)[1] = f
  BY DEF LookupIsLocal
<1>1. PICK n \in Nat : n = Len(scope[f])
  BY DEF TypeOK
<1>2. Declaring(f, v) \in SUBSET (1..n) /\ Declaring(f, v) # {}
  BY <1>1 DEF Declaring, Visible
<1>3. PICK i \in Declaring(f, v) :
        i = CHOOSE j \in Declaring(f, v) : \A k \in Declaring(f, v) : k <= j
  BY <1>2, LastOf
<1>4. LookupInFunScope(f, v) = scope[f][i][v]
  BY <1>3 DEF LookupInFunScope
<1> QED BY <1>4 DEF Local, Declaring

\* The chains change in four actions only.
LEMMA StepChains ==
  ASSUME [Next]_vars
  PROVE  \/ \E f \in Fun : Define(f) \/ Lambda(f)
         \/ ScopeStep
         \/ \E v \in Var : AddVariable(v)
         \/ scope' = scope
BY DEF Next, vars, EndBody, ScopeStep, Funcall, EndFuncall, While, WhileBody,
       EndWhile, Break, Continue, Jump, If, IfThen, IfElse, EndIf, Cond,
       CondBody, EndCond, Quote, LowerQuote, Quasiunquote, EndQuasiquote,
       Include, EndInclude, CompilerError, Stop

\* What AddVariable does to the innermost scope of a chain.
LEMMA AddFacts ==
  ASSUME NEW c \in Seq(FunScope), NEW v \in Var, NEW b \in Block, c # << >>
  PROVE  \E t : /\ t = [c EXCEPT ![Len(c)][v] = b]
                /\ Len(t) = Len(c)
                /\ \A i \in 1..Len(c), w \in Var :
                     t[i][w] = c[i][w] \/ (w = v /\ t[i][w] = b)
<1>1. PICK n \in Nat : n = Len(c) /\ n \in 1..n
  OBVIOUS
<1>2. PICK e \in FunScope : e = [c[n] EXCEPT ![v] = b]
  <2>1. c[n] \in FunScope
    BY <1>1
  <2> QED BY <2>1 DEF FunScope
<1>3. PICK t : t = [c EXCEPT ![n] = e]
  OBVIOUS
<1>4. Len(t) = n /\ t[n] = e /\ \A i \in 1..(n-1) : t[i] = c[i]
  BY <1>1, <1>3, RetopFacts
<1>5. \A w \in Var : e[w] = IF w = v THEN b ELSE c[n][w]
  <2>1. c[n] \in FunScope
    BY <1>1
  <2> QED BY <1>2, <2>1 DEF FunScope
<1>6. t = [c EXCEPT ![Len(c)][v] = b]
  BY <1>1, <1>2, <1>3
<1>7. \A i \in 1..n : i = n \/ i \in 1..(n-1)
  OBVIOUS
<1> QED BY <1>1, <1>4, <1>5, <1>6, <1>7

LEMMA ParentFacts ==
  ASSUME NEW S, NEW c \in Seq(S)
  PROVE  /\ c # << >> => Len(Parent(c)) = Len(c) - 1
         /\ Len(Parent(c)) <= Len(c)
         /\ \A i \in 1..Len(Parent(c)) : i \in 1..Len(c) /\ Parent(c)[i] = c[i]
<1>1. CASE c = << >>
  BY <1>1 DEF Parent
<1>2. CASE c # << >>
  BY <1>2, PopFacts DEF Parent
<1> QED BY <1>1, <1>2

LEMMA StepLocal == IInv /\ Local /\ [Next]_vars => Local'
<1> SUFFICES ASSUME IInv, Local, [Next]_vars,
                    NEW g \in Fun, NEW w \in Var, NEW i \in 1..Len(scope'[g]),
                    scope'[g][i][w] # NoBlock
             PROVE  scope'[g][i][w][1] = g
  BY DEF Local
<1>0. /\ scope \in [Fun -> Seq(FunScope)] /\ scope[g] \in Seq(FunScope)
      /\ \A j \in 1..Len(scope[g]) : scope[g][j][w] # NoBlock => scope[g][j][w][1] = g
      /\ EmptyScope[w] = NoBlock
  BY DEF IInv, TypeOK, Local, EmptyScope
<1>1. ASSUME NEW f \in Fun, Define(f) \/ Lambda(f)
      PROVE  scope'[g][i][w][1] = g
  <2>1. scope' = [scope EXCEPT ![f] = <<EmptyScope>>]
    BY <1>1 DEF Define, Lambda, FunBody
  <2>2. CASE g = f
    BY <1>0, <2>1, <2>2
  <2>3. CASE g # f
    BY <1>0, <2>1, <2>3
  <2> QED BY <2>2, <2>3
<1>2. CASE Scope
  <2>1. scope'[g] = scope[g] \/ scope'[g] = Append(scope[g], EmptyScope)
    BY <1>0, <1>2 DEF Scope
  <2>2. \A e : LET t == Append(scope[g], e)
               IN /\ Len(t) = Len(scope[g]) + 1 /\ t[Len(scope[g]) + 1] = e
                  /\ \A j \in 1..Len(scope[g]) : t[j] = scope[g][j]
    BY <1>0
  <2> QED BY <1>0, <2>1, <2>2
<1>3. CASE EndScope
  <2>1. scope'[g] = scope[g] \/ scope'[g] = Parent(scope[g])
    BY <1>0, <1>3 DEF EndScope
  <2> QED BY <1>0, <2>1, ParentFacts
<1>4. ASSUME NEW v \in Var, AddVariable(v)
      PROVE  scope'[g][i][w][1] = g
  <2>1. curfn \in Fun /\ pos[1] = curfn
    BY <1>4, CurrentFunction DEF AddVariable, Emits, IInv, ContextAgrees, BlockOf
  <2>2. scope' = [scope EXCEPT ![curfn] =
                    [scope[curfn] EXCEPT ![Len(scope[curfn])][v] = pos]]
    BY <1>0, <1>4, <2>1 DEF AddVariable
  <2>3. CASE g = curfn
    <3>1. scope'[g] = [scope[g] EXCEPT ![Len(scope[g])][v] = pos]
      BY <1>0, <2>2, <2>3
    <3>2. /\ Len(scope'[g]) = Len(scope[g])
          /\ \A j \in 1..Len(scope[g]), x \in Var :
               \/ scope'[g][j][x] = scope[g][j][x]
               \/ (x = v /\ scope'[g][j][x] = pos)
      <4>1. CASE scope[g] = << >>
        BY <1>0, <3>1, <4>1
      <4>2. CASE scope[g] # << >>
        BY <1>0, <3>1, <4>2, AddFacts DEF IInv, TypeOK
      <4> QED BY <4>1, <4>2
    <3> QED BY <1>0, <2>1, <2>3, <3>2
  <2>4. CASE g # curfn
    BY <1>0, <2>2, <2>4
  <2> QED BY <2>3, <2>4
<1>5. CASE scope' = scope
  BY <1>0, <1>5
<1> QED BY <1>1, <1>2, <1>3, <1>4, <1>5, StepChains DEF ScopeStep

\* A name resolves to a variable of the function under compilation, whatever
\* functions are compiled around it or inside it (fun.c:263-277, var.c:16-26).
THEOREM LookupLocal == Spec => []LookupIsLocal
<1>1. Init => Local
  BY DEF Init, Local
<1>2. IInv => TypeOK
  BY DEF IInv
<1> QED BY <1>1, <1>2, InitInv, StepInv, StepLocal, LocalLookup, PTL DEF Spec

-----------------------------------------------------------------------------
\* The open scopes of f among the first n frames.
IsOpen(s, i, f) == s[i].k = "scope" /\ s[i].pushed /\ Innermost(s, i, f)
OpenIn(s, n, f) == {i \in 1..n : IsOpen(s, i, f)}

LEMMA OpenFacts ==
  ASSUME NEW s, NEW n \in Nat, NEW f
  PROVE  /\ IsFiniteSet(OpenIn(s, n, f)) /\ n+1 \notin OpenIn(s, n, f)
         /\ Cardinality(OpenIn(s, n, f)) \in Nat
         /\ IsOpen(s, n+1, f) =>
              Cardinality(OpenIn(s, n+1, f)) = Cardinality(OpenIn(s, n, f)) + 1
         /\ ~IsOpen(s, n+1, f) => OpenIn(s, n+1, f) = OpenIn(s, n, f)
<1>1. IsFiniteSet(OpenIn(s, n, f)) /\ n+1 \notin OpenIn(s, n, f)
  <2>1. IsFiniteSet(1..n)
    BY FS_Interval
  <2>2. OpenIn(s, n, f) \in SUBSET (1..n) /\ n+1 \notin 1..n
    BY DEF OpenIn
  <2> QED BY <2>1, <2>2, FS_Subset
<1>2. \A i : i \in 1..(n+1) <=> i \in 1..n \/ i = n+1
  OBVIOUS
<1>3. IsOpen(s, n+1, f) => OpenIn(s, n+1, f) = OpenIn(s, n, f) \cup {n+1}
  BY <1>2 DEF OpenIn
<1>4. ~IsOpen(s, n+1, f) => OpenIn(s, n+1, f) = OpenIn(s, n, f)
  BY <1>2 DEF OpenIn
<1>5. Cardinality(OpenIn(s, n, f)) \in Nat
  BY <1>1, FS_CardinalityType
<1> QED BY <1>1, <1>3, <1>4, <1>5, FS_AddElement

LEMMA OpenPrefix ==
  ASSUME NEW s, NEW t, NEW n \in Nat, NEW f, \A i \in 1..n : t[i] = s[i]
  PROVE  OpenIn(t, n, f) = OpenIn(s, n, f)
<1>1. ASSUME NEW i \in 1..n PROVE Innermost(t, i, f) <=> Innermost(s, i, f)
  <2>1. i \in Nat /\ \A j \in 1..i : t[j] = s[j]
    OBVIOUS
  <2> QED BY <2>1, InnermostPrefix
<1> QED BY <1>1 DEF OpenIn, IsOpen

LEMMA UnderFacts ==
  ASSUME IInv, NEW f \in UnderCompilation
  PROVE  f \in Fun /\ home[f] # None
BY BodyStarted DEF UnderCompilation

\* A step that neither opens nor closes a scope nor starts a function.
LEMMA ScopesKept ==
  ASSUME IInv, ScopesAreOpen, NEW n, Shape(n),
         Len(stack) = n+1 => stack[n+1].k # "scope",
         Len(stack') = n+1 => stack'[n+1].k \notin {"scope", "body"},
         \A f \in Fun : Len(scope'[f]) = Len(scope[f])
  PROVE  ScopesAreOpen'
<1> SUFFICES ASSUME NEW f \in UnderCompilation'
             PROVE  (Len(scope[f]) = 1 + Cardinality(OpenScopes(f)))'
  BY DEF ScopesAreOpen
<1>1. n \in Nat /\ \A i \in 1..n : stack'[i] = stack[i]
  BY DEF Shape
<1>2. f \in UnderCompilation
  <2>1. PICK i \in 1..Len(stack') : stack'[i].k = "body" /\ f = stack'[i].f
    BY DEF UnderCompilation
  <2>2. i \in 1..n /\ i \in 1..Len(stack)
    BY <2>1 DEF Shape
  <2> QED BY <1>1, <2>1, <2>2 DEF UnderCompilation
<1>3. OpenIn(stack, Len(stack), f) = OpenIn(stack, n, f)
  BY <1>1, OpenFacts DEF Shape, IsOpen
<1>4. OpenIn(stack', Len(stack'), f) = OpenIn(stack', n, f)
  BY <1>1, OpenFacts DEF Shape, IsOpen
<1>5. OpenIn(stack', n, f) = OpenIn(stack, n, f)
  BY <1>1, OpenPrefix
<1>6. OpenScopes(f)' = OpenScopes(f)
  BY <1>3, <1>4, <1>5 DEF OpenScopes, OpenIn, IsOpen
<1>7. Len(scope[f]) = 1 + Cardinality(OpenScopes(f)) /\ Len(scope'[f]) = Len(scope[f])
  BY <1>2, UnderFacts DEF ScopesAreOpen
<1> QED BY <1>6, <1>7

\* A new function starts with one scope and none of its blocks open.
LEMMA BodyScopes ==
  ASSUME IInv, ScopesAreOpen, NEW g \in Fun, NEW same \in BOOLEAN, FunBody(g, same)
  PROVE  ScopesAreOpen'
<1>1. PICK fr : stack' = Append(stack, fr) /\ fr.k = "body" /\ fr.f = g
  BY DEF FunBody, Push
<1>2. PICK n \in Nat : /\ n = Len(stack) /\ Shape(n)
                       /\ Len(stack') = n+1 /\ stack'[n+1] = fr
  BY <1>1, PushShape DEF IInv
<1>3. \A f : OpenScopes(f)' = OpenScopes(f)
  <2> TAKE f
  <2>1. OpenIn(stack', n+1, f) = OpenIn(stack', n, f)
    BY <1>1, <1>2, OpenFacts DEF IsOpen
  <2>2. OpenIn(stack', n, f) = OpenIn(stack, n, f)
    BY <1>2, OpenPrefix DEF Shape
  <2> QED BY <1>2, <2>1, <2>2 DEF OpenScopes, OpenIn, IsOpen
<1>4. UnderCompilation' = UnderCompilation \cup {g} /\ g \notin UnderCompilation
  <2>1. \A i : i \in 1..(n+1) <=> i \in 1..n \/ i = n+1
    BY <1>2
  <2>2. UnderCompilation' = UnderCompilation \cup {g}
    BY <1>1, <1>2, <2>1 DEF UnderCompilation, Shape
  <2> QED BY <2>2, UnderFacts DEF FunBody
<1>5. scope' = [scope EXCEPT ![g] = <<EmptyScope>>] /\ scope \in [Fun -> Seq(FunScope)]
  BY DEF FunBody, IInv, TypeOK
<1>6. \A f \in UnderCompilation : scope'[f] = scope[f]
  BY <1>4, <1>5, UnderFacts
<1>7. OpenScopes(g) = {}
  <2>1. \A i \in 1..Len(stack) : ~Innermost(stack, i, g)
    <3> SUFFICES ASSUME NEW i \in 1..Len(stack), Innermost(stack, i, g) PROVE FALSE
      OBVIOUS
    <3>1. i \in 0..Len(stack) /\ g # None
      BY NoneAssumption
    <3> QED BY <1>4, <3>1, Compiling
  <2> QED BY <2>1 DEF OpenScopes
<1>8. Len(scope'[g]) = 1 /\ Cardinality(OpenScopes(g)) = 0
  BY <1>5, <1>7, FS_EmptySet
<1> SUFFICES ASSUME NEW f \in UnderCompilation'
             PROVE  Len(scope'[f]) = 1 + Cardinality(OpenScopes(f)')
  BY DEF ScopesAreOpen
<1>9. CASE f = g
  <2>1. OpenScopes(f)' = OpenScopes(g)
    BY <1>3, <1>9
  <2> QED BY <1>8, <1>9, <2>1
<1>10. CASE f # g
  <2>1. f \in UnderCompilation /\ scope'[f] = scope[f]
    BY <1>4, <1>6, <1>10
  <2>2. OpenScopes(f)' = OpenScopes(f)
    BY <1>3
  <2> QED BY <2>1, <2>2 DEF ScopesAreOpen
<1> QED BY <1>9, <1>10

\* A scope joins the chain of the innermost function and leaves it again.
LEMMA ScopeScopes == ASSUME IInv, ScopesAreOpen, Scope PROVE ScopesAreOpen'
<1>0. PICK b \in BOOLEAN : b = (curfn # None)
  OBVIOUS
<1>1. PICK fr : /\ stack' = Append(stack, fr) /\ fr.k = "scope"
                /\ fr.pushed = b
  <2>1. PICK fr : fr = [k |-> "scope", pushed |-> b]
    OBVIOUS
  <2>2. stack' = Append(stack, fr)
    BY <1>0, <2>1 DEF Scope, Push
  <2> QED BY <2>1, <2>2
<1>2. PICK n \in Nat : /\ n = Len(stack) /\ Shape(n)
                       /\ Len(stack') = n+1 /\ stack'[n+1] = fr
  BY <1>1, PushShape DEF IInv
<1> SUFFICES ASSUME NEW f \in UnderCompilation'
             PROVE  Len(scope'[f]) = 1 + Cardinality(OpenScopes(f)')
  BY DEF ScopesAreOpen
<1>3. f \in UnderCompilation /\ f \in Fun /\ f # None
  <2>1. PICK i \in 1..Len(stack') : stack'[i].k = "body" /\ f = stack'[i].f
    BY DEF UnderCompilation
  <2>2. i \in 1..n
    BY <1>1, <1>2, <2>1
  <2>3. f \in UnderCompilation
    BY <1>2, <2>1, <2>2 DEF UnderCompilation, Shape
  <2> QED BY <2>3, UnderFacts, NoneAssumption
<1>4. IsOpen(stack', n+1, f) <=> f = curfn
  <2>1. Innermost(stack', n+1, f) <=> Innermost(stack', n, f)
    <3>1. PICK m \in Nat \ {0} : m = n+1 /\ m-1 = n
      OBVIOUS
    <3>2. stack'[m].k # "body"
      BY <1>1, <1>2, <3>1
    <3>3. Innermost(stack', m, f) <=> Innermost(stack', m-1, f)
      BY <3>2, InnermostStep
    <3> QED BY <3>1, <3>3
  <2>2. Innermost(stack', n, f) <=> Innermost(stack, n, f)
    BY <1>2, InnermostPrefix DEF Shape
  <2>3. Innermost(stack, n, f) <=> f = curfn
    BY <1>2, CurrentFunction DEF IInv, ContextAgrees
  <2> QED BY <1>0, <1>1, <1>2, <1>3, <2>1, <2>2, <2>3 DEF IsOpen
<1>5. /\ OpenScopes(f) = OpenIn(stack, n, f)
      /\ OpenScopes(f)' = OpenIn(stack', n+1, f)
      /\ OpenIn(stack', n, f) = OpenIn(stack, n, f)
  <2>1. OpenScopes(f) = OpenIn(stack, n, f)
    BY <1>2 DEF OpenScopes, OpenIn, IsOpen
  <2>2. OpenScopes(f)' = OpenIn(stack', n+1, f)
    BY <1>2 DEF OpenScopes, OpenIn, IsOpen
  <2>3. OpenIn(stack', n, f) = OpenIn(stack, n, f)
    BY <1>2, OpenPrefix DEF Shape
  <2> QED BY <2>1, <2>2, <2>3
<1>6. Len(scope[f]) = 1 + Cardinality(OpenScopes(f))
  BY <1>3 DEF ScopesAreOpen
<1>7. scope \in [Fun -> Seq(FunScope)] /\ scope[f] \in Seq(FunScope)
  BY <1>3 DEF IInv, TypeOK
<1>8. CASE f = curfn
  <2>1. scope'[f] = Append(scope[f], EmptyScope)
    BY <1>3, <1>7, <1>8 DEF Scope
  <2>2. Len(scope'[f]) = Len(scope[f]) + 1
    BY <1>7, <2>1
  <2>3. Cardinality(OpenScopes(f)') = Cardinality(OpenScopes(f)) + 1
    BY <1>4, <1>5, <1>8, OpenFacts
  <2> QED BY <1>5, <1>6, <2>2, <2>3, OpenFacts
<1>9. CASE f # curfn
  <2>1. scope'[f] = scope[f]
    BY <1>3, <1>7, <1>9 DEF Scope
  <2>2. OpenScopes(f)' = OpenScopes(f)
    BY <1>4, <1>5, <1>9, OpenFacts
  <2> QED BY <1>6, <2>1, <2>2
<1> QED BY <1>8, <1>9

LEMMA EndScopeScopes == ASSUME IInv, ScopesAreOpen, EndScope PROVE ScopesAreOpen'
<1>1. stack # << >> /\ Pop /\ Top.k = "scope"
  BY DEF EndScope, Closing
<1>2. PICK n \in Nat : /\ Len(stack) = n+1 /\ Shape(n)
                       /\ Len(stack') = n /\ stack[n+1] = Top
  BY <1>1, PopShape DEF IInv
<1> SUFFICES ASSUME NEW f \in UnderCompilation'
             PROVE  Len(scope'[f]) = 1 + Cardinality(OpenScopes(f)')
  BY DEF ScopesAreOpen
<1>3. f \in UnderCompilation /\ f \in Fun /\ f # None
  <2>1. PICK i \in 1..Len(stack') : stack'[i].k = "body" /\ f = stack'[i].f
    BY DEF UnderCompilation
  <2>2. f \in UnderCompilation
    BY <1>2, <2>1 DEF UnderCompilation, Shape
  <2> QED BY <2>2, UnderFacts, NoneAssumption
<1>4. IsOpen(stack, n+1, f) <=> f = curfn /\ Top.pushed
  BY <1>1, <1>2, CurrentFunction DEF IsOpen, IInv, ContextAgrees
<1>5. /\ OpenScopes(f) = OpenIn(stack, n+1, f)
      /\ OpenScopes(f)' = OpenIn(stack', n, f)
      /\ OpenIn(stack', n, f) = OpenIn(stack, n, f)
  BY <1>2, OpenPrefix DEF OpenScopes, OpenIn, IsOpen, Shape
<1>6. Len(scope[f]) = 1 + Cardinality(OpenScopes(f))
  BY <1>3 DEF ScopesAreOpen
<1>7. scope \in [Fun -> Seq(FunScope)] /\ scope[f] \in Seq(FunScope)
  BY <1>3 DEF IInv, TypeOK
<1>8. CASE f = curfn /\ Top.pushed
  <2>1. scope'[f] = Parent(scope[f])
    BY <1>3, <1>7, <1>8 DEF EndScope
  <2>2. PICK m \in Nat : /\ m = Cardinality(OpenScopes(f)')
                         /\ Cardinality(OpenScopes(f)) = m + 1
    BY <1>4, <1>5, <1>8, OpenFacts
  <2>3. Len(scope[f]) = 1 + (m + 1) /\ scope[f] # << >>
    BY <1>6, <1>7, <2>2
  <2>4. Len(scope'[f]) = Len(scope[f]) - 1
    BY <1>7, <2>1, <2>3, ParentFacts
  <2> QED BY <2>2, <2>3, <2>4
<1>9. CASE ~(f = curfn /\ Top.pushed)
  <2>1. scope'[f] = scope[f]
    BY <1>3, <1>7, <1>9 DEF EndScope
  <2>2. OpenScopes(f)' = OpenScopes(f)
    BY <1>4, <1>5, <1>9, OpenFacts
  <2> QED BY <1>6, <2>1, <2>2
<1> QED BY <1>8, <1>9

LEMMA StepScopes == IInv /\ ScopesAreOpen /\ [Next]_vars => ScopesAreOpen'
<1> SUFFICES ASSUME IInv, ScopesAreOpen, [Next]_vars PROVE ScopesAreOpen'
  OBVIOUS
<1>0. TypeOK
  BY DEF IInv
<1>1. ASSUME NEW f \in Fun, Define(f) \/ Lambda(f) PROVE ScopesAreOpen'
  BY <1>1, BodyScopes DEF Define, Lambda
<1>2. CASE EndBody
  <2>1. stack # << >> /\ Pop /\ Top.k = "body" /\ scope' = scope
    BY <1>2 DEF EndBody, Closing
  <2>2. PICK n \in Nat : /\ Len(stack) = n+1 /\ Shape(n)
                         /\ Len(stack') = n /\ stack[n+1] = Top
    BY <1>0, <2>1, PopShape
  <2> QED BY <2>1, <2>2, ScopesKept
<1>3. CASE ScopeStep
  BY <1>3, ScopeScopes, EndScopeScopes DEF ScopeStep
<1>4. CASE ~ScopeStep /\ ~BodyStep
  <2>1. PICK n, kind : Alters(n, kind) /\ kind \notin {"scope", "body"}
    BY <1>4, OtherAlters
  <2>2. ASSUME NEW f \in Fun PROVE Len(scope'[f]) = Len(scope[f])
    <3>1. ASSUME NEW v \in Var, AddVariable(v)
          PROVE  Len(scope'[f]) = Len(scope[f])
      <4>1. curfn \in Fun /\ scope \in [Fun -> Seq(FunScope)] /\ pos \in Block
        BY <1>0, <3>1, CurrentFunction DEF AddVariable, Emits, TypeOK
      <4>2. PICK c \in Seq(FunScope) : c = scope[curfn]
        BY <4>1
      <4>3. scope' = [scope EXCEPT ![curfn] = [c EXCEPT ![Len(c)][v] = pos]]
        BY <3>1, <4>1, <4>2 DEF AddVariable
      <4>4. Len([c EXCEPT ![Len(c)][v] = pos]) = Len(c)
        <5>1. CASE c = << >>
          BY <5>1
        <5>2. CASE c # << >>
          BY <4>1, <5>2, AddFacts
        <5> QED BY <5>1, <5>2
      <4> QED BY <4>1, <4>2, <4>3, <4>4
    <3> QED BY <1>4, <3>1, StepChains DEF BodyStep
  <2> QED BY <2>1, <2>2, ScopesKept DEF Alters
<1> QED BY <1>1, <1>2, <1>3, <1>4 DEF BodyStep

\* A name goes out of scope with its block, whatever was compiled inside of it
\* (eval.c:118-122).
THEOREM ScopesCorrect == Spec => []ScopesAreOpen
<1>1. Init => ScopesAreOpen
  BY DEF Init, ScopesAreOpen, UnderCompilation
<1> QED BY <1>1, InitInv, StepInv, StepScopes, PTL DEF Spec

-----------------------------------------------------------------------------
\* Every rank has a member.
Ranked(S) == \A n \in 1..Cardinality(S) : \E i \in S : Rank(S, i) = n

\* Members of a finite set of numbers, counted from the lowest.
LEMMA RankFacts ==
  ASSUME NEW S \in SUBSET Nat, IsFiniteSet(S), NEW i \in S
  PROVE  /\ Cardinality(S) \in Nat
         /\ Rank(S, i) \in 1..Cardinality(S)
         /\ \A k \in S : i < k => Rank(S, i) < Rank(S, k)
         /\ (\A k \in S : k <= i) => Rank(S, i) = Cardinality(S)
<1> DEFINE Upto(k) == {j \in S : j <= k}
<1>1. ASSUME NEW k \in S
      PROVE  /\ IsFiniteSet(Upto(k)) /\ Rank(S, k) = Cardinality(Upto(k))
             /\ Rank(S, k) \in Nat /\ Rank(S, k) <= Cardinality(S)
             /\ Cardinality(S) \in Nat
  <2>1. Upto(k) \in SUBSET S
    OBVIOUS
  <2> QED BY <2>1, FS_Subset, FS_CardinalityType DEF Rank
<1>2. Rank(S, i) # 0
  <2>1. i \in Upto(i)
    OBVIOUS
  <2> QED BY <1>1, <2>1, FS_EmptySet
<1>3. ASSUME NEW k \in S, i < k PROVE Rank(S, i) < Rank(S, k)
  <2>0. \A j \in S : j <= i => j <= k /\ j # k
    <3>1. \A j \in S : j \in Nat /\ i \in Nat /\ k \in Nat
      OBVIOUS
    <3> QED BY <1>3, <3>1
  <2>1. Upto(i) \in SUBSET (Upto(k) \ {k})
    BY <2>0
  <2>2. k \in Upto(k)
    OBVIOUS
  <2>3. IsFiniteSet(Upto(k) \ {k}) /\ Cardinality(Upto(k) \ {k}) = Rank(S, k) - 1
    BY <1>1, <2>2, FS_RemoveElement
  <2>4. Rank(S, i) <= Rank(S, k) - 1
    BY <1>1, <2>1, <2>3, FS_Subset
  <2>5. Rank(S, i) \in Nat /\ Rank(S, k) \in Nat
    BY <1>1
  <2> HIDE DEF Upto
  <2> QED BY <2>4, <2>5
<1>4. (\A k \in S : k <= i) => Rank(S, i) = Cardinality(S)
  <2>1. (\A k \in S : k <= i) => Upto(i) = S
    OBVIOUS
  <2> QED BY <1>1, <2>1
<1>5. Rank(S, i) \in Nat /\ Cardinality(S) \in Nat /\ Rank(S, i) <= Cardinality(S)
  BY <1>1
<1> HIDE DEF Upto
<1>6. Rank(S, i) \in 1..Cardinality(S)
  BY <1>2, <1>5
<1> QED BY <1>3, <1>4, <1>5, <1>6

LEMMA NthFacts ==
  ASSUME NEW S \in SUBSET Nat, IsFiniteSet(S), Ranked(S)
  PROVE  \A n \in 1..Cardinality(S) :
           /\ Nth(S, n) \in S
           /\ \A i \in S : Rank(S, i) = n <=> i = Nth(S, n)
<1> TAKE n \in 1..Cardinality(S)
<1>1. Nth(S, n) \in S /\ Rank(S, Nth(S, n)) = n
  BY DEF Ranked, Nth
<1>2. ASSUME NEW i \in S, Rank(S, i) = n PROVE i = Nth(S, n)
  <2>1. PICK k \in S : k = Nth(S, n)
    BY <1>1
  <2>2. ~(i < k) /\ ~(k < i)
    BY <1>1, <1>2, <2>1, RankFacts
  <2>3. i \in Nat /\ k \in Nat
    OBVIOUS
  <2> QED BY <2>1, <2>2, <2>3
<1> QED BY <1>1, <1>2

\* A member behind all others gets the next rank.
LEMMA AddLast ==
  ASSUME NEW S \in SUBSET Nat, IsFiniteSet(S), NEW m \in Nat, \A i \in S : i < m
  PROVE  LET T == S \cup {m}
         IN /\ IsFiniteSet(T) /\ Cardinality(S) \in Nat
            /\ Cardinality(T) = Cardinality(S) + 1
            /\ Ranked(S) <=> Ranked(T)
            /\ Ranked(S) => /\ \A n \in 1..Cardinality(S) : Nth(T, n) = Nth(S, n)
                            /\ Nth(T, Cardinality(T)) = m
<1>1. PICK T \in SUBSET Nat : T = S \cup {m}
  OBVIOUS
<1>2. /\ IsFiniteSet(T) /\ Cardinality(S) \in Nat /\ m \notin S /\ m \in T
      /\ Cardinality(T) = Cardinality(S) + 1
  BY <1>1, FS_AddElement, FS_CardinalityType
<1>3. ASSUME NEW i \in S PROVE Rank(T, i) = Rank(S, i)
  <2>1. {j \in T : j <= i} = {j \in S : j <= i}
    BY <1>1
  <2> QED BY <2>1 DEF Rank
<1>4. Rank(T, m) = Cardinality(T)
  <2>1. \A k \in T : k <= m
    BY <1>1
  <2> QED BY <1>2, <2>1, RankFacts
<1>5. \A n : n \in 1..Cardinality(T) <=> n \in 1..Cardinality(S) \/ n = Cardinality(T)
  BY <1>2
<1>6. Ranked(S) => Ranked(T)
  BY <1>1, <1>2, <1>3, <1>4, <1>5 DEF Ranked
<1>7. ASSUME Ranked(T), NEW n \in 1..Cardinality(S)
      PROVE  \E i \in S : Rank(S, i) = n
  <2>1. PICK i \in T : Rank(T, i) = n
    BY <1>2, <1>5, <1>7 DEF Ranked
  <2>2. n # Cardinality(T)
    BY <1>2
  <2>3. i \in S
    BY <1>1, <1>4, <2>1, <2>2
  <2> QED BY <1>3, <2>1, <2>3
<1>8. ASSUME Ranked(S), NEW n \in 1..Cardinality(S) PROVE Nth(T, n) = Nth(S, n)
  <2>1. Nth(S, n) \in S /\ Rank(S, Nth(S, n)) = n
    BY <1>8, NthFacts
  <2>2. Nth(S, n) \in T /\ Rank(T, Nth(S, n)) = n /\ n \in 1..Cardinality(T)
    BY <1>1, <1>3, <1>5, <2>1
  <2> QED BY <1>2, <1>6, <1>8, <2>2, NthFacts
<1>9. Ranked(S) => Nth(T, Cardinality(T)) = m
  <2>1. Cardinality(T) \in 1..Cardinality(T)
    BY <1>2
  <2> QED BY <1>2, <1>4, <1>6, <2>1, NthFacts
<1>10. Ranked(T) => Ranked(S)
  BY <1>7 DEF Ranked
<1> QED BY <1>1, <1>2, <1>6, <1>8, <1>9, <1>10

-----------------------------------------------------------------------------
\* No function is being compiled twice at once.
Distinct == \A i, j \in Bodies : stack[i].f = stack[j].f => i = j
ActsOK   == Ranked(Bodies) /\ Distinct

LEMMA BodiesFinite ==
  ASSUME TypeOK
  PROVE  /\ Bodies \in SUBSET Nat /\ IsFiniteSet(Bodies)
         /\ Cardinality(Bodies) \in Nat
<1>1. IsFiniteSet(1..Len(stack)) /\ 1..Len(stack) \subseteq Nat
  BY FS_Interval DEF TypeOK
<1>2. Bodies \in SUBSET (1..Len(stack))
  BY DEF Bodies
<1> QED BY <1>1, <1>2, FS_Subset, FS_CardinalityType

\* A step keeps the body frames, or puts one more on top, or takes that off.
LEMMA BodySteps ==
  ASSUME IInv, [Next]_vars
  PROVE  \/ /\ ~BodyStep /\ Bodies' = Bodies
            /\ \A i \in Bodies : stack'[i] = stack[i]
         \/ \E f \in Fun, same \in BOOLEAN, m \in Nat :
              /\ FunBody(f, same) /\ (same => curfn # None)
              /\ Bodies' = Bodies \cup {m} /\ stack'[m].f = f
              /\ \A i \in Bodies : i < m /\ stack'[i] = stack[i]
         \/ /\ EndBody
            /\ \E m \in Nat : /\ Bodies = Bodies' \cup {m}
                              /\ \A i \in Bodies' : i < m /\ stack'[i] = stack[i]
<1>0. TypeOK
  BY DEF IInv
<1>1. CASE ~BodyStep
  <2>1. PICK n, kind : Alters(n, kind) /\ kind # "body"
    BY <1>1, OtherAlters
  <2>2. n \in Nat /\ \A i \in 1..n : stack'[i] = stack[i]
    BY <2>1 DEF Alters, Shape
  <2>3. \A i \in Bodies : i \in 1..n
    BY <2>1, <2>2 DEF Bodies, Alters, Shape
  <2>4. \A i \in Bodies' : i \in 1..n
    BY <2>1, <2>2 DEF Bodies, Alters, Shape
  <2>5. 1..n \subseteq 1..Len(stack) /\ 1..n \subseteq 1..Len(stack')
    BY <2>1, <2>2 DEF Alters, Shape
  <2>6. \A i \in 1..n : i \in Bodies <=> i \in Bodies'
    BY <2>2, <2>5 DEF Bodies
  <2> QED BY <1>1, <2>2, <2>3, <2>4, <2>6
<1>2. ASSUME NEW f \in Fun, Define(f) \/ Lambda(f)
      PROVE  \E same \in BOOLEAN, m \in Nat :
              /\ FunBody(f, same) /\ (same => curfn # None)
              /\ Bodies' = Bodies \cup {m} /\ stack'[m].f = f
              /\ \A i \in Bodies : i < m /\ stack'[i] = stack[i]
  <2>1. PICK same \in BOOLEAN : FunBody(f, same) /\ (same => curfn # None)
    BY <1>2 DEF Define, Lambda, Emits
  <2>2. PICK fr : stack' = Append(stack, fr) /\ fr.k = "body" /\ fr.f = f
    BY <2>1 DEF FunBody, Push
  <2>3. PICK n \in Nat : /\ n = Len(stack) /\ Shape(n)
                         /\ Len(stack') = n+1 /\ stack'[n+1] = fr
    BY <1>0, <2>2, PushShape
  <2>4. \A i : i \in 1..(n+1) <=> i \in 1..n \/ i = n+1
    BY <2>3
  <2>5. Bodies' = Bodies \cup {n+1}
    BY <2>2, <2>3, <2>4 DEF Bodies, Shape
  <2>6. \A i \in Bodies : i < n+1 /\ stack'[i] = stack[i]
    BY <2>3 DEF Bodies, Shape
  <2>7. n+1 \in Nat
    BY <2>3
  <2> QED BY <2>1, <2>2, <2>3, <2>5, <2>6, <2>7
<1>3. ASSUME EndBody
      PROVE  \E m \in Nat : /\ Bodies = Bodies' \cup {m}
                            /\ \A i \in Bodies' : i < m /\ stack'[i] = stack[i]
  <2>1. stack # << >> /\ Pop /\ Top.k = "body"
    BY <1>3 DEF EndBody, Closing
  <2>2. PICK n \in Nat : /\ Len(stack) = n+1 /\ Shape(n)
                         /\ Len(stack') = n /\ stack[n+1] = Top
    BY <1>0, <2>1, PopShape
  <2>3. \A i : i \in 1..(n+1) <=> i \in 1..n \/ i = n+1
    BY <2>2
  <2>4. Bodies = Bodies' \cup {n+1}
    BY <2>1, <2>2, <2>3 DEF Bodies, Shape
  <2>5. \A i \in Bodies' : i < n+1 /\ stack'[i] = stack[i]
    BY <2>2 DEF Bodies, Shape
  <2>6. n+1 \in Nat
    BY <2>2
  <2> QED BY <2>4, <2>5, <2>6
<1> QED BY <1>1, <1>2, <1>3 DEF BodyStep

LEMMA InitActs == Init => ActsOK
<1> SUFFICES ASSUME Init PROVE ActsOK
  OBVIOUS
<1>1. Bodies = {}
  BY DEF Init, Bodies
<1>2. Cardinality(Bodies) = 0
  BY <1>1, FS_EmptySet
<1> QED BY <1>1, <1>2 DEF ActsOK, Ranked, Distinct

LEMMA StepActs == IInv /\ ActsOK /\ [Next]_vars => ActsOK'
<1> SUFFICES ASSUME IInv, ActsOK, [Next]_vars PROVE ActsOK'
  OBVIOUS
<1>0. Bodies \in SUBSET Nat /\ IsFiniteSet(Bodies) /\ TypeOK
  BY BodiesFinite DEF IInv
<1>1. CASE Bodies' = Bodies /\ \A i \in Bodies : stack'[i] = stack[i]
  <2>1. Ranked(Bodies') /\ Distinct'
    BY <1>1 DEF ActsOK, Distinct
  <2>2. Ranked(Bodies)' 
    BY <1>1, <2>1 DEF Ranked, Rank
  <2> QED BY <2>1, <2>2 DEF ActsOK
<1>2. ASSUME NEW f \in Fun, NEW same \in BOOLEAN, NEW m \in Nat, FunBody(f, same),
             Bodies' = Bodies \cup {m}, stack'[m].f = f,
             \A i \in Bodies : i < m /\ stack'[i] = stack[i]
      PROVE  ActsOK'
  <2>1. Ranked(Bodies \cup {m})
    BY <1>0, <1>2, AddLast DEF ActsOK
  <2>2. Ranked(Bodies)'
    BY <1>2, <2>1 DEF Ranked, Rank
  <2>3. \A i \in Bodies : stack[i].f # f
    <3>1. home[f] = None
      BY <1>2 DEF FunBody
    <3> QED BY <3>1, BodyStarted DEF Bodies
  <2>4. Distinct'
    BY <1>2, <2>3 DEF ActsOK, Distinct
  <2> QED BY <2>2, <2>4 DEF ActsOK
<1>3. ASSUME NEW m \in Nat, Bodies = Bodies' \cup {m},
             \A i \in Bodies' : i < m /\ stack'[i] = stack[i]
      PROVE  ActsOK'
  <2>1. PICK S \in SUBSET Nat : S = Bodies' /\ IsFiniteSet(S)
    BY <1>0, <1>3, FS_Subset
  <2>2. Ranked(S)
    BY <1>3, <2>1, AddLast DEF ActsOK
  <2>3. Ranked(Bodies)'
    BY <2>1, <2>2 DEF Ranked, Rank
  <2>4. Distinct'
    BY <1>3 DEF ActsOK, Distinct
  <2> QED BY <2>3, <2>4 DEF ActsOK
<1> QED BY <1>1, <1>2, <1>3, BodySteps

-----------------------------------------------------------------------------
\* The activations: the top level, and a function for each body frame.
FnAt(n) == stack[Nth(Bodies, n)].f
Acting  == Cardinality(Bodies)

LEMMA ActsFacts ==
  ASSUME IInv, ActsOK
  PROVE  /\ Acting \in Nat /\ Len(Acts) = Acting + 1 /\ DOMAIN Acts = 1..(Acting + 1)
         /\ Acts[1] = [fn |-> None, mod |-> None, env |-> << >>]
         /\ \A n \in 1..Acting : /\ Acts[n+1] = ActivationOf(FnAt(n))
                                 /\ FnAt(n) \in UnderCompilation
                                 /\ \A m \in 1..Acting : FnAt(m) = FnAt(n) => m = n
         /\ curfn = None => Acting = 0
         /\ curfn # None => Acting # 0 /\ FnAt(Acting) = curfn
<1>1. /\ Acting \in Nat /\ Acting = Cardinality(Bodies)
      /\ Bodies \in SUBSET Nat /\ IsFiniteSet(Bodies) /\ TypeOK
  BY BodiesFinite DEF IInv, Acting
<1>2. /\ DOMAIN Acts = 1..(Acting + 1)
      /\ Acts[1] = [fn |-> None, mod |-> None, env |-> << >>]
      /\ \A n \in 1..Acting : Acts[n+1] = ActivationOf(FnAt(n))
  <2>1. \A n \in 1..(Acting + 1) : Acts[n] =
          IF n = 1 THEN [fn |-> None, mod |-> None, env |-> << >>]
          ELSE ActivationOf(stack[Nth(Bodies, n-1)].f)
    BY <1>1 DEF Acts
  <2>2. DOMAIN Acts = 1..(Acting + 1)
    BY <1>1 DEF Acts
  <2>3. \A n \in 1..Acting : n+1 \in 1..(Acting + 1) /\ n+1 # 1 /\ (n+1)-1 = n
    BY <1>1
  <2>4. 1 \in 1..(Acting + 1)
    BY <1>1
  <2> QED BY <2>1, <2>2, <2>3, <2>4 DEF FnAt
<1>3. Len(Acts) = Acting + 1
  BY <1>1, <1>2
<1>4. \A n \in 1..Acting : Nth(Bodies, n) \in Bodies
                           /\ \A i \in Bodies : Rank(Bodies, i) = n <=> i = Nth(Bodies, n)
  BY <1>1, NthFacts DEF ActsOK
<1>5. \A n \in 1..Acting : /\ FnAt(n) \in UnderCompilation
                           /\ \A m \in 1..Acting : FnAt(m) = FnAt(n) => m = n
  <2> TAKE n \in 1..Acting
  <2>1. FnAt(n) \in UnderCompilation
    BY <1>4 DEF FnAt, UnderCompilation, Bodies
  <2>2. ASSUME NEW m \in 1..Acting, FnAt(m) = FnAt(n) PROVE m = n
    <3>1. Nth(Bodies, m) = Nth(Bodies, n)
      BY <1>4, <2>2 DEF FnAt, ActsOK, Distinct
    <3> QED BY <1>4, <3>1
  <2> QED BY <2>1, <2>2
<1>6. curfn = None => Acting = 0
  <2>1. curfn = None => Bodies = {}
    <3>1. ASSUME curfn = None, NEW i \in Bodies PROVE FALSE
      <4>1. i \in 1..Len(stack) /\ stack[i].k = "body" 
        BY <3>1 DEF Bodies
      <4>2. PICK j \in 1..Len(stack) : stack[j].k = "body" /\ stack[j].f = None
        BY <3>1, <4>1 DEF IInv, ContextAgrees, Innermost
      <4> QED BY <4>2, BodyStarted, NoneAssumption
    <3> QED BY <3>1
  <2> QED BY <1>1, <2>1, FS_EmptySet
<1>7. curfn # None => Acting # 0 /\ FnAt(Acting) = curfn
  <2> SUFFICES ASSUME curfn # None PROVE Acting # 0 /\ FnAt(Acting) = curfn
    OBVIOUS
  <2>1. PICK i \in 1..Len(stack) : /\ stack[i].k = "body" /\ stack[i].f = curfn
                                   /\ \A j \in (i+1)..Len(stack) : stack[j].k # "body"
    BY DEF IInv, ContextAgrees, Innermost
  <2>2. i \in Bodies /\ \A j \in Bodies : j <= i
    BY <1>1, <2>1 DEF Bodies, TypeOK
  <2>3. Rank(Bodies, i) = Acting /\ Acting \in 1..Acting
    BY <1>1, <2>2, RankFacts
  <2>4. i = Nth(Bodies, Acting)
    BY <1>4, <2>2, <2>3
  <2> QED BY <1>1, <2>1, <2>3, <2>4 DEF FnAt
<1> QED BY <1>1, <1>2, <1>3, <1>5, <1>6, <1>7

-----------------------------------------------------------------------------
LEMMA ActsAre ==
  ASSUME Acting \in Nat
  PROVE  /\ Len(Acts) = Acting + 1 /\ DOMAIN Acts = 1..(Acting + 1)
         /\ Acts = [n \in DOMAIN Acts |-> Acts[n]]
         /\ Acts[1] = [fn |-> None, mod |-> None, env |-> << >>]
         /\ \A n \in 1..Acting : Acts[n+1] = ActivationOf(FnAt(n))
<1>1. \A n \in 1..(Acting + 1) : Acts[n] =
        IF n = 1 THEN [fn |-> None, mod |-> None, env |-> << >>]
        ELSE ActivationOf(stack[Nth(Bodies, n-1)].f)
  BY DEF Acts, Acting
<1>2. DOMAIN Acts = 1..(Acting + 1) /\ Acts = [n \in DOMAIN Acts |-> Acts[n]]
  BY DEF Acts, Acting
<1>3. /\ 1 \in 1..(Acting + 1)
      /\ \A n \in 1..Acting : n+1 \in 1..(Acting + 1) /\ n+1 # 1 /\ (n+1)-1 = n
  OBVIOUS
<1>4. Len(Acts) = Acting + 1
  BY <1>2
<1> QED BY <1>1, <1>2, <1>3, <1>4 DEF FnAt

LEMMA ActsAreNext ==
  ASSUME Acting' \in Nat
  PROVE  /\ Len(Acts') = Acting' + 1 /\ DOMAIN Acts' = 1..(Acting' + 1)
         /\ Acts' = [n \in DOMAIN Acts' |-> Acts'[n]]
         /\ Acts'[1] = [fn |-> None, mod |-> None, env |-> << >>]
         /\ \A n \in 1..(Acting') : Acts'[n+1] = ActivationOf(FnAt(n))'
<1>1. \A n \in 1..(Acting' + 1) : Acts'[n] =
        IF n = 1 THEN [fn |-> None, mod |-> None, env |-> << >>]
        ELSE ActivationOf(stack[Nth(Bodies, n-1)].f)'
  BY DEF Acts, Acting
<1>2. DOMAIN Acts' = 1..(Acting' + 1) /\ Acts' = [n \in DOMAIN Acts' |-> Acts'[n]]
  BY DEF Acts, Acting
<1>3. /\ 1 \in 1..(Acting' + 1)
      /\ \A n \in 1..(Acting') : n+1 \in 1..(Acting' + 1) /\ n+1 # 1 /\ (n+1)-1 = n
  <2>1. PICK c \in Nat : c = Acting'
    OBVIOUS
  <2>2. /\ 1 \in 1..(c + 1)
        /\ \A n \in 1..c : n+1 \in 1..(c + 1) /\ n+1 # 1 /\ (n+1)-1 = n
    OBVIOUS
  <2> QED BY <2>1, <2>2
<1>4. Len(Acts') = Acting' + 1
  BY <1>2
<1> QED BY <1>1, <1>2, <1>3, <1>4 DEF FnAt

\* What a step does to the functions of the activations.
Keeps(n) == \A i \in 1..n : FnAt(i)' = FnAt(i)

LEMMA FnSteps ==
  ASSUME IInv, ActsOK, [Next]_vars
  PROVE  \/ ~BodyStep /\ Acting' = Acting /\ Keeps(Acting)
         \/ \E f \in Fun, same \in BOOLEAN, n \in Nat :
              /\ FunBody(f, same) /\ (same => curfn # None)
              /\ Acting = n /\ Acting' = n+1 /\ Keeps(n) /\ FnAt(n+1)' = f
         \/ EndBody /\ \E n \in Nat : Acting' = n /\ Acting = n+1 /\ Keeps(n)
<1>0. /\ Bodies \in SUBSET Nat /\ IsFiniteSet(Bodies) /\ Acting \in Nat
      /\ Acting = Cardinality(Bodies) /\ Ranked(Bodies)
      /\ \A n \in 1..Acting : Nth(Bodies, n) \in Bodies
  BY BodiesFinite, NthFacts DEF IInv, Acting, ActsOK
<1>1. CASE /\ ~BodyStep /\ Bodies' = Bodies
           /\ \A i \in Bodies : stack'[i] = stack[i]
  BY <1>0, <1>1 DEF Acting, Keeps, FnAt, Nth, Rank
<1>2. ASSUME NEW f \in Fun, NEW same \in BOOLEAN, NEW m \in Nat,
             FunBody(f, same), same => curfn # None,
             Bodies' = Bodies \cup {m}, stack'[m].f = f,
             \A i \in Bodies : i < m /\ stack'[i] = stack[i]
      PROVE  \E n \in Nat : /\ Acting = n /\ Acting' = n+1
                            /\ Keeps(n) /\ FnAt(n+1)' = f
  <2>1. PICK n, T : n \in Nat /\ n = Acting /\ T = Bodies \cup {m}
    BY <1>0
  <2>2. /\ Cardinality(T) = n+1
        /\ \A i \in 1..n : Nth(T, i) = Nth(Bodies, i)
        /\ Nth(T, n+1) = m
    <3>1. \A i \in Bodies : i < m
      BY <1>2
    <3>2. /\ Cardinality(T) = Cardinality(Bodies) + 1
          /\ \A i \in 1..Cardinality(Bodies) : Nth(T, i) = Nth(Bodies, i)
          /\ Nth(T, Cardinality(T)) = m
      BY <1>0, <2>1, <3>1, AddLast
    <3> QED BY <1>0, <2>1, <3>2
  <2>3. Acting' = n+1
    BY <1>2, <2>1, <2>2 DEF Acting
  <2>4. \A i : FnAt(i)' = stack'[Nth(T, i)].f
    BY <1>2, <2>1 DEF FnAt, Nth, Rank
  <2>5. Keeps(n)
    BY <1>0, <1>2, <2>1, <2>2, <2>4 DEF Keeps, FnAt
  <2> QED BY <1>2, <2>1, <2>2, <2>3, <2>4, <2>5
<1>3. ASSUME NEW m \in Nat, Bodies = Bodies' \cup {m},
             \A i \in Bodies' : i < m /\ stack'[i] = stack[i]
      PROVE  \E n \in Nat : Acting' = n /\ Acting = n+1 /\ Keeps(n)
  <2>1. PICK S \in SUBSET Nat : S = Bodies' /\ IsFiniteSet(S)
    BY <1>0, <1>3, FS_Subset
  <2>2. PICK n \in Nat : n = Cardinality(S)
    BY <2>1, FS_CardinalityType
  <2>3. /\ Acting = n+1 /\ Ranked(S)
        /\ \A i \in 1..n : Nth(Bodies, i) = Nth(S, i)
    BY <1>0, <1>3, <2>1, <2>2, AddLast
  <2>4. \A i : FnAt(i)' = stack'[Nth(S, i)].f
    BY <2>1 DEF FnAt, Nth, Rank
  <2>5. Keeps(n)
    <3>1. \A i \in 1..n : Nth(S, i) \in S
      BY <2>1, <2>2, <2>3, NthFacts
    <3> QED BY <1>3, <2>1, <2>3, <2>4, <3>1 DEF Keeps, FnAt
  <2>6. Acting' = n
    BY <2>1, <2>2 DEF Acting
  <2> QED BY <2>3, <2>5, <2>6
<1> QED BY <1>1, <1>2, <1>3, BodySteps

-----------------------------------------------------------------------------
\* Activations whose function keeps its module and its chain stay as they are.
LEMMA ActivationKept ==
  ASSUME NEW f, home'[f] = home[f], scope'[f] = scope[f]
  PROVE  ActivationOf(f)' = ActivationOf(f)
BY DEF ActivationOf

LEMMA ActsKept ==
  ASSUME IInv, ActsOK, Acting' = Acting, Keeps(Acting), home' = home, scope' = scope
  PROVE  Acts' = Acts
<1>1. Acting \in Nat /\ Acting' \in Nat
  BY ActsFacts
<1>2. /\ DOMAIN Acts' = DOMAIN Acts /\ DOMAIN Acts = 1..(Acting + 1)
      /\ Acts = [n \in DOMAIN Acts |-> Acts[n]]
      /\ Acts' = [n \in DOMAIN Acts' |-> Acts'[n]]
  BY <1>1, ActsAre, ActsAreNext
<1>3. ASSUME NEW n \in 1..(Acting + 1) PROVE Acts'[n] = Acts[n]
  <2>1. CASE n = 1
    BY <1>1, <2>1, ActsAre, ActsAreNext
  <2>2. CASE n # 1
    <3>1. PICK i \in 1..Acting : n = i+1
      BY <1>1, <2>2
    <3>2. Acts[n] = ActivationOf(FnAt(i)) /\ Acts'[n] = ActivationOf(FnAt(i))'
      BY <1>1, <3>1, ActsAre, ActsAreNext
    <3>3. FnAt(i)' = FnAt(i)
      BY DEF Keeps
    <3> QED BY <3>2, <3>3 DEF ActivationOf
  <2> QED BY <2>1, <2>2
<1> QED BY <1>2, <1>3

-----------------------------------------------------------------------------
\* In which function's frame the variables of a chain live.
NamesOf(s) == [v \in Var |-> s[v][1]]
Env(c)     == [i \in 1..Len(c) |-> NamesOf(c[i])]
Names      == [Var -> Module]

LEMMA SeqEqual ==
  ASSUME NEW S, NEW s \in Seq(S), NEW t \in Seq(S), Len(s) = Len(t),
         \A i \in 1..Len(s) : s[i] = t[i]
  PROVE  s = t
OBVIOUS

LEMMA EnvFacts ==
  ASSUME NEW c \in Seq(FunScope)
  PROVE  /\ Env(c) \in Seq(Names) /\ Len(Env(c)) = Len(c)
         /\ \A i \in 1..Len(c) : Env(c)[i] = NamesOf(c[i])
<1>1. \A b \in Block : b[1] \in Module
  BY DEF Block, FunBlock, NoBlock, Module
<1>2. \A i \in 1..Len(c) : NamesOf(c[i]) \in Names
  <2> TAKE i \in 1..Len(c)
  <2>1. c[i] \in [Var -> Block]
    BY DEF FunScope
  <2>2. \A v \in Var : c[i][v] \in Block
    BY <2>1
  <2> QED BY <1>1, <2>2 DEF Names, NamesOf
<1>3. Len(c) \in Nat
  OBVIOUS
<1> QED BY <1>2, <1>3 DEF Env

LEMMA EnvOpens ==
  ASSUME NEW c \in Seq(FunScope)
  PROVE  Env(Append(c, EmptyScope)) = Append(Env(c), [v \in Var |-> None])
<1>1. EmptyScope \in FunScope
  BY DEF EmptyScope, FunScope, Block, NoBlock
<1>2. PICK x : x = [v \in Var |-> None]
  OBVIOUS
<1>3. x = NamesOf(EmptyScope) /\ x \in Names
  BY <1>2 DEF EmptyScope, NamesOf, NoBlock, Names, Module
<1>4. PICK d : d = Append(c, EmptyScope)
  OBVIOUS
<1>5. PICK n \in Nat : n = Len(c)
  OBVIOUS
<1>6. d \in Seq(FunScope) /\ Len(d) = n+1
  BY <1>1, <1>4, <1>5
<1>7. d[n+1] = EmptyScope /\ \A i \in 1..n : d[i] = c[i]
  BY <1>1, <1>4, <1>5
<1>8. PICK e : e = Env(c)
  OBVIOUS
<1>9. e \in Seq(Names) /\ Len(e) = n /\ \A i \in 1..n : e[i] = NamesOf(c[i])
  BY <1>5, <1>8, EnvFacts
<1>10. PICK p : p = Append(e, x)
  OBVIOUS
<1>11. p \in Seq(Names) /\ Len(p) = n+1
  BY <1>3, <1>9, <1>10
<1>12. p[n+1] = x /\ \A i \in 1..n : p[i] = e[i]
  BY <1>3, <1>9, <1>10
<1>13. /\ Env(d) \in Seq(Names) /\ Len(Env(d)) = n+1
       /\ \A i \in 1..(n+1) : Env(d)[i] = NamesOf(d[i])
  BY <1>6, EnvFacts
<1>14. ASSUME NEW i \in 1..(n+1) PROVE Env(d)[i] = p[i]
  <2>1. CASE i = n+1
    BY <1>3, <1>7, <1>12, <1>13, <2>1
  <2>2. CASE i # n+1
    <3>1. i \in 1..n
      BY <2>2
    <3> QED BY <1>7, <1>9, <1>12, <1>13, <3>1
  <2> QED BY <2>1, <2>2
<1>15. Env(d) = p
  BY <1>11, <1>13, <1>14, SeqEqual
<1> QED BY <1>2, <1>4, <1>8, <1>10, <1>15

LEMMA EnvCloses ==
  ASSUME NEW c \in Seq(FunScope), c # << >>
  PROVE  Env(Parent(c)) = SubSeq(Env(c), 1, Len(Env(c)) - 1)
<1>1. PICK n \in Nat : n = Len(c) - 1
  OBVIOUS
<1>2. Len(c) = n+1
  BY <1>1
<1>3. PICK d : d = SubSeq(c, 1, n)
  OBVIOUS
<1>4. d = Parent(c)
  BY <1>1, <1>3 DEF Parent
<1>5. \A i \in 1..n : c[i] \in FunScope /\ i \in 1..(n+1)
  BY <1>2
<1>6. d \in Seq(FunScope) /\ Len(d) = n /\ \A i \in 1..n : d[i] = c[i]
  BY <1>3, <1>5
<1>7. PICK e : e = Env(c)
  OBVIOUS
<1>8. e \in Seq(Names) /\ Len(e) = n+1 /\ \A i \in 1..(n+1) : e[i] = NamesOf(c[i])
  BY <1>2, <1>7, EnvFacts
<1>9. Len(e) - 1 = n /\ \A i \in 1..n : e[i] \in Names
  BY <1>5, <1>8
<1>10. PICK p : p = SubSeq(e, 1, n)
  OBVIOUS
<1>11. p \in Seq(Names) /\ Len(p) = n /\ \A i \in 1..n : p[i] = e[i]
  BY <1>9, <1>10
<1>12. /\ Env(d) \in Seq(Names) /\ Len(Env(d)) = n
       /\ \A i \in 1..n : Env(d)[i] = NamesOf(d[i])
  BY <1>6, EnvFacts
<1>13. \A i \in 1..n : Env(d)[i] = p[i]
  BY <1>5, <1>6, <1>8, <1>11, <1>12
<1>14. Env(d) = p
  BY <1>11, <1>12, <1>13, SeqEqual
<1> QED BY <1>4, <1>7, <1>9, <1>10, <1>14

LEMMA EnvDeclares ==
  ASSUME NEW c \in Seq(FunScope), c # << >>, NEW v \in Var, NEW b \in Block
  PROVE  Env([c EXCEPT ![Len(c)][v] = b]) = [Env(c) EXCEPT ![Len(Env(c))][v] = b[1]]
<1>1. PICK n \in Nat \ {0} : n = Len(c)
  OBVIOUS
<1>2. c[n] \in [Var -> Block]
  BY <1>1 DEF FunScope
<1>3. PICK s : s = [c[n] EXCEPT ![v] = b]
  OBVIOUS
<1>4. s \in FunScope /\ \A w \in Var : s[w] = IF w = v THEN b ELSE c[n][w]
  BY <1>2, <1>3 DEF FunScope
<1>5. PICK d : d = [c EXCEPT ![n] = s]
  OBVIOUS
<1>6. d \in Seq(FunScope) /\ Len(d) = n /\ \A i \in 1..n : d[i] = IF i = n THEN s ELSE c[i]
  BY <1>1, <1>4, <1>5
<1>7. d = [c EXCEPT ![Len(c)][v] = b]
  BY <1>1, <1>3, <1>5
<1>8. PICK e : e = Env(c)
  OBVIOUS
<1>9. e \in Seq(Names) /\ Len(e) = n /\ \A i \in 1..n : e[i] = NamesOf(c[i])
  BY <1>1, <1>8, EnvFacts
<1>10. PICK x : x = [e[n] EXCEPT ![v] = b[1]]
  OBVIOUS
<1>11. x = NamesOf(s) /\ x \in Names
  <2>1. n \in 1..n /\ b[1] \in Module
    BY DEF Block, FunBlock, NoBlock, Module
  <2>2. e[n] = [w \in Var |-> c[n][w][1]] /\ e[n] \in Names
    BY <1>9, <2>1 DEF NamesOf
  <2>3. x \in Names
    BY <1>10, <2>1, <2>2 DEF Names
  <2>4. x = [w \in Var |-> IF w = v THEN b[1] ELSE c[n][w][1]]
    BY <1>10, <2>2
  <2>5. \A w \in Var : s[w][1] = IF w = v THEN b[1] ELSE c[n][w][1]
    BY <1>4
  <2> QED BY <2>3, <2>4, <2>5 DEF NamesOf
<1>12. PICK p : p = [e EXCEPT ![n] = x]
  OBVIOUS
<1>13. p \in Seq(Names) /\ Len(p) = n /\ \A i \in 1..n : p[i] = IF i = n THEN x ELSE e[i]
  BY <1>9, <1>11, <1>12
<1>14. p = [e EXCEPT ![Len(e)][v] = b[1]]
  BY <1>9, <1>10, <1>12
<1>15. /\ Env(d) \in Seq(Names) /\ Len(Env(d)) = n
       /\ \A i \in 1..n : Env(d)[i] = NamesOf(d[i])
  BY <1>6, EnvFacts
<1>16. \A i \in 1..n : Env(d)[i] = p[i]
  BY <1>6, <1>9, <1>11, <1>13, <1>15
<1>17. Env(d) = p
  BY <1>13, <1>15, <1>16, SeqEqual
<1> QED BY <1>7, <1>8, <1>14, <1>17

-----------------------------------------------------------------------------
\* Apart from starting and ending functions, a step adds blocks to the
\* current function only, and completes only the block of the builder.
LEMMA CodeSteps ==
  ASSUME IInv, [Next]_vars, ~BodyStep
  PROVE  /\ home' = home
         /\ \/ nblk' = nblk /\ term' = term
            \/ /\ curfn # None
               /\ nblk' = nblk \/ \E k \in Nat : AppendBlocks(k)
               /\ term' = term \/ term' = term \cup {pos}
<1>1. CASE While \/ Break \/ Continue \/ If
  <2>1. \E k \in {1, 3} : nblk' = nblk \/ AppendBlocks(k)
    BY <1>1 DEF While, Break, Continue, Jump, If
  <2>2. \E k \in Nat : nblk' = nblk \/ AppendBlocks(k)
    BY <2>1
  <2> QED
    BY <1>1, <2>2 DEF While, Break, Continue, Jump, If, Emits, Terminate, genvars
<1>2. CASE WhileBody \/ EndWhile \/ IfThen \/ IfElse \/ EndIf \/ CondBody \/ EndCond
  <2>1. stack # << >> /\ Top.k \in InFunction
    BY <1>2 DEF WhileBody, EndWhile, IfThen, IfElse, EndIf, CondBody, EndCond,
                InPhase, Closing, InFunction
  <2>2. curfn # None
    BY <2>1, TopLocals, NoneAssumption
  <2>3. home' = home /\ term' = term \cup {pos} /\ (nblk' = nblk \/ AppendBlocks(2))
    BY <1>2 DEF WhileBody, EndWhile, IfThen, IfElse, EndIf, CondBody, EndCond, Terminate
  <2> QED BY <2>2, <2>3
<1>3. CASE ~(\/ While \/ Break \/ Continue \/ If \/ WhileBody \/ EndWhile
             \/ IfThen \/ IfElse \/ EndIf \/ CondBody \/ EndCond)
  <2>1. home' = home /\ nblk' = nblk /\ term' = term
    BY <1>3 DEF Next, vars, genvars, BodyStep, Scope, EndScope, AddVariable,
                Funcall, EndFuncall, Cond, Quote, LowerQuote, Quasiunquote,
                EndQuasiquote, Include, EndInclude, CompilerError, Stop
  <2> QED BY <2>1
<1> QED BY <1>1, <1>2, <1>3

\* Such a step is one of the innermost activation.
LEMMA CodeOfCurrent ==
  ASSUME IInv, NEW f \in Fun, f = curfn,
         nblk' = nblk \/ \E k \in Nat : AppendBlocks(k),
         term' = term \/ term' = term \cup {pos}
  PROVE  Lexical!CodeOf(f) /\ Lexical!Grows(f)
<1>1. pos[1] = f /\ nblk \in [Fun -> Nat]
  BY NoneAssumption DEF IInv, TypeOK, ContextAgrees, BlockOf
<1>2. /\ \A g \in Fun : g # f => nblk'[g] = nblk[g]
      /\ nblk'[f] \in Nat /\ nblk[f] <= nblk'[f]
  BY <1>1 DEF AppendBlocks
<1>3. /\ \A g, i : <<g, i>> \in term => <<g, i>> \in term'
      /\ \A g, i : g # f => (<<g, i>> \in term' <=> <<g, i>> \in term)
  BY <1>1
<1>4. \A g \in Fun \ {f} : Code'[g] = Code[g]
  BY <1>2, <1>3 DEF Code
<1>5. Code[f] \subseteq Code'[f]
  <2>1. nblk[f] \in Nat
    BY <1>1
  <2>2. \A i \in 1..nblk[f] : i \in 1..(nblk'[f])
    BY <1>2, <2>1
  <2> QED BY <1>3, <2>2 DEF Code
<1> QED BY <1>4, <1>5 DEF Lexical!CodeOf, Lexical!Grows

-----------------------------------------------------------------------------
\* Sequences that differ in the last place.
LEMMA AppendIs ==
  ASSUME NEW n \in Nat, NEW s, NEW t, NEW e,
         s = [i \in 1..n |-> s[i]], t = [i \in 1..(n+1) |-> t[i]],
         \A i \in 1..n : t[i] = s[i], t[n+1] = e
  PROVE  t = Append(s, e)
<1>1. PICK S : S = {s[i] : i \in 1..n} \cup {e}
  OBVIOUS
<1>2. s \in Seq(S) /\ Len(s) = n /\ e \in S
  BY <1>1
<1>3. \A i \in 1..(n+1) : t[i] \in S
  <2> TAKE i \in 1..(n+1)
  <2>1. CASE i = n+1
    BY <1>2, <2>1
  <2>2. CASE i # n+1
    <3>1. i \in 1..n
      BY <2>2
    <3> QED BY <1>1, <3>1
  <2> QED BY <2>1, <2>2
<1>4. t \in Seq(S) /\ Len(t) = n+1
  BY <1>3
<1>5. PICK u : u = Append(s, e)
  OBVIOUS
<1>6. u \in Seq(S) /\ Len(u) = n+1 /\ u[n+1] = e /\ \A i \in 1..n : u[i] = s[i]
  BY <1>2, <1>5
<1>7. \A i \in 1..(n+1) : i = n+1 \/ i \in 1..n
  OBVIOUS
<1>8. t = u
  BY <1>4, <1>6, <1>7, SeqEqual
<1> QED BY <1>5, <1>8

LEMMA CutIs ==
  ASSUME NEW n \in Nat, NEW s, NEW t,
         s = [i \in 1..(n+1) |-> s[i]], t = [i \in 1..n |-> t[i]],
         \A i \in 1..n : t[i] = s[i]
  PROVE  Len(s) = n+1 /\ t = SubSeq(s, 1, Len(s) - 1)
<1>1. PICK S : S = {s[i] : i \in 1..(n+1)}
  OBVIOUS
<1>2. s \in Seq(S) /\ Len(s) = n+1
  BY <1>1
<1>3. \A i \in 1..n : s[i] \in S /\ i \in 1..(n+1)
  BY <1>1
<1>4. t \in Seq(S) /\ Len(t) = n
  <2>1. \A i \in 1..n : t[i] \in S
    BY <1>3
  <2> QED BY <2>1
<1>5. PICK u : u = SubSeq(s, 1, n)
  OBVIOUS
<1>6. u \in Seq(S) /\ Len(u) = n /\ \A i \in 1..n : u[i] = s[i]
  BY <1>2, <1>3, <1>5
<1>7. t = u
  BY <1>4, <1>6, SeqEqual
<1>8. Len(s) - 1 = n
  BY <1>2
<1> QED BY <1>2, <1>5, <1>7, <1>8

LEMMA LastActivation ==
  ASSUME IInv, ActsOK, NEW f \in Fun, f = curfn
  PROVE  Acts[Len(Acts)] = ActivationOf(f) /\ Acting \in Nat \ {0}
<1>1. /\ Acting \in Nat \ {0} /\ FnAt(Acting) = f /\ Len(Acts) = Acting + 1
      /\ \A n \in 1..Acting : Acts[n+1] = ActivationOf(FnAt(n))
  BY ActsFacts, NoneAssumption
<1>2. Acting \in 1..Acting
  BY <1>1
<1> QED BY <1>1, <1>2

\* Only the chain of the current function changes.
LEMMA TopChanged ==
  ASSUME IInv, ActsOK, NEW f \in Fun, f = curfn, Acting' = Acting, Keeps(Acting),
         home' = home, \A g \in Fun : g # f => scope'[g] = scope[g]
  PROVE  Acts' = [Acts EXCEPT ![Len(Acts)] = ActivationOf(f)']
<1>1. Acting \in Nat \ {0} /\ FnAt(Acting) = f /\ Acting' \in Nat
  BY ActsFacts, NoneAssumption
<1>2. /\ DOMAIN Acts' = DOMAIN Acts /\ DOMAIN Acts = 1..(Acting + 1)
      /\ Acts = [n \in DOMAIN Acts |-> Acts[n]] /\ Len(Acts) = Acting + 1
      /\ Acts' = [n \in DOMAIN Acts' |-> Acts'[n]]
  BY <1>1, ActsAre, ActsAreNext
<1>3. ASSUME NEW n \in 1..(Acting + 1)
      PROVE  Acts'[n] = IF n = Acting + 1 THEN ActivationOf(f)' ELSE Acts[n]
  <2>1. CASE n = 1
    <3>1. n # Acting + 1
      BY <1>1, <2>1
    <3> QED BY <1>1, <2>1, <3>1, ActsAre, ActsAreNext
  <2>2. CASE n # 1
    <3>1. PICK i \in 1..Acting : n = i+1
      BY <1>1, <2>2
    <3>2. Acts[n] = ActivationOf(FnAt(i)) /\ Acts'[n] = ActivationOf(FnAt(i))'
      BY <1>1, <3>1, ActsAre, ActsAreNext
    <3>3. PICK g : g = FnAt(i) /\ FnAt(i)' = g
      BY DEF Keeps
    <3>4. Acts[n] = ActivationOf(g) /\ Acts'[n] = ActivationOf(g)'
      BY <3>2, <3>3 DEF ActivationOf
    <3>5. CASE i = Acting
      BY <1>1, <3>1, <3>3, <3>4, <3>5
    <3>6. CASE i # Acting
      <4>1. Acting \in 1..Acting
        BY <1>1
      <4>2. g # f /\ g \in Fun
        BY <1>1, <3>3, <3>6, <4>1, ActsFacts, UnderFacts
      <4>3. ActivationOf(g)' = ActivationOf(g)
        BY <4>2 DEF ActivationOf
      <4>4. n # Acting + 1
        BY <1>1, <3>1, <3>6
      <4> QED BY <3>4, <4>3, <4>4
    <3> QED BY <3>5, <3>6
  <2> QED BY <2>1, <2>2
<1>4. [Acts EXCEPT ![Len(Acts)] = ActivationOf(f)'] =
        [n \in 1..(Acting + 1) |-> IF n = Acting + 1 THEN ActivationOf(f)' ELSE Acts[n]]
  BY <1>2
<1> QED BY <1>2, <1>3, <1>4

-----------------------------------------------------------------------------
\* The environment of an activation is the chain of its function.
LEMMA ActivationIs ==
  ASSUME NEW f
  PROVE  /\ ActivationOf(f) = [fn |-> f, mod |-> home[f], env |-> Env(scope[f])]
         /\ ActivationOf(f)' = [fn |-> f, mod |-> home'[f], env |-> Env(scope'[f])]
BY DEF ActivationOf, Env, NamesOf

\* Starting a function puts an activation of its own on top.
LEMMA BodyStarts ==
  ASSUME IInv, ActsOK, BlocksOK, NEW f \in Fun, NEW same \in BOOLEAN,
         FunBody(f, same), same => curfn # None,
         NEW n \in Nat, Acting = n, Acting' = n+1, Keeps(n), FnAt(n+1)' = f
  PROVE  \E m \in Fun : Lexical!Start(f, m)
<1>1. /\ home[f] = None /\ home' = [home EXCEPT ![f] = mod']
      /\ nblk' = [nblk EXCEPT ![f] = 1] /\ term' = term
      /\ scope' = [scope EXCEPT ![f] = <<EmptyScope>>]
      /\ mod' = IF same THEN mod ELSE f
  BY DEF FunBody, genvars
<1>2. home \in [Fun -> Module] /\ scope \in [Fun -> Seq(FunScope)] /\ nblk \in [Fun -> Nat]
  BY DEF IInv, TypeOK
<1>3. mod' \in {f, Acts[Len(Acts)].mod} \ {None} /\ mod' \in Fun
  <2>1. CASE same
    <3>1. curfn \in Fun /\ mod \in Fun /\ mod = home[curfn]
      BY <2>1, CurrentFunction
    <3>2. Acts[Len(Acts)] = ActivationOf(curfn)
      BY <3>1, LastActivation
    <3> QED BY <1>1, <2>1, <3>1, <3>2, NoneAssumption, ActivationIs
  <2>2. CASE ~same
    BY <1>1, <2>2, NoneAssumption
  <2> QED BY <2>1, <2>2
<1>4. /\ Len(Acts) = n+1 /\ DOMAIN Acts = 1..(n+1) /\ Acts = [i \in 1..(n+1) |-> Acts[i]]
      /\ Acts[1] = [fn |-> None, mod |-> None, env |-> << >>]
      /\ \A i \in 1..n : Acts[i+1] = ActivationOf(FnAt(i))
  BY ActsAre
<1>5. /\ Acts' = [i \in 1..((n+1)+1) |-> Acts'[i]]
      /\ Acts'[1] = [fn |-> None, mod |-> None, env |-> << >>]
      /\ \A i \in 1..(n+1) : Acts'[i+1] = ActivationOf(FnAt(i))'
  BY ActsAreNext
<1>6. \A i \in 1..n : /\ FnAt(i) \in Fun /\ FnAt(i) # f /\ FnAt(i)' = FnAt(i)
                      /\ i \in 1..(n+1)
  BY <1>1, ActsFacts, UnderFacts DEF Keeps
<1>7. \A i \in 1..n : ActivationOf(FnAt(i))' = ActivationOf(FnAt(i))
  <2> TAKE i \in 1..n
  <2>1. PICK g \in Fun : g # f /\ FnAt(i) = g /\ FnAt(i)' = g
    BY <1>6
  <2>2. home'[g] = home[g] /\ scope'[g] = scope[g]
    BY <1>1, <1>2, <2>1
  <2> QED BY <2>1, <2>2 DEF ActivationOf
<1>8. \A i \in 1..(n+1) : Acts'[i] = Acts[i]
  <2> TAKE i \in 1..(n+1)
  <2>1. i = 1 \/ \E j \in 1..n : i = j+1
    <3>1. i # 1 => i-1 \in 1..n /\ i = (i-1)+1
      OBVIOUS
    <3> QED BY <3>1
  <2> QED BY <1>4, <1>5, <1>6, <1>7, <2>1
<1>9. Acts'[(n+1)+1] = [fn |-> f, mod |-> mod', env |-> <<Lexical!Nothing>>]
  <2>1. Acts'[(n+1)+1] = ActivationOf(FnAt(n+1))'
    BY <1>5
  <2>2. ActivationOf(FnAt(n+1))' = ActivationOf(f)'
    BY DEF ActivationOf
  <2>3. home'[f] = mod' /\ scope'[f] = <<EmptyScope>>
    BY <1>1, <1>2
  <2>4. Env(<<EmptyScope>>) = <<Lexical!Nothing>>
    <3>1. NamesOf(EmptyScope) = Lexical!Nothing
      BY DEF NamesOf, EmptyScope, NoBlock, Lexical!Nothing
    <3> QED BY <3>1 DEF Env
  <2> QED BY <2>1, <2>2, <2>3, <2>4, ActivationIs
<1>10. Acts' = Append(Acts, [fn |-> f, mod |-> mod', env |-> <<Lexical!Nothing>>])
  BY <1>4, <1>5, <1>8, <1>9, AppendIs
<1>11. \A i \in DOMAIN Acts : Acts[i].fn # f
  <2> TAKE i \in DOMAIN Acts
  <2>1. i = 1 \/ \E j \in 1..n : i = j+1
    <3>1. i \in 1..(n+1)
      BY <1>4
    <3>2. i # 1 => i-1 \in 1..n /\ i = (i-1)+1
      BY <3>1
    <3> QED BY <3>2
  <2>2. CASE i = 1
    BY <1>4, <2>2, NoneAssumption
  <2>3. ASSUME NEW j \in 1..n, i = j+1 PROVE Acts[i].fn # f
    <3>1. Acts[i] = ActivationOf(FnAt(j)) /\ FnAt(j) # f
      BY <1>4, <1>6, <2>3
    <3> QED BY <3>1 DEF ActivationOf
  <2> QED BY <2>1, <2>2, <2>3
<1>12. \A i : <<f, i>> \notin term
  <2>1. \A b : b \in term => home[b[1]] # None
    BY DEF BlocksOK, Blocks
  <2> QED BY <1>1, <2>1
<1>13. Code[f] = {} /\ Code' = Code
  <2>1. Code[f] = {} /\ Code'[f] = {}
    BY <1>1, <1>12 DEF Code
  <2>2. \A g \in Fun : g # f => nblk'[g] = nblk[g]
    BY <1>1, <1>2
  <2>3. \A g \in Fun : Code'[g] = Code[g]
    BY <1>1, <2>1, <2>2 DEF Code
  <2> QED BY <2>1, <2>3 DEF Code
<1> QED BY <1>3, <1>10, <1>11, <1>13 DEF Lexical!Start, Lexical!Last

\* Ending one uncovers the activation below.
LEMMA BodyEnds ==
  ASSUME IInv, ActsOK, EndBody, NEW n \in Nat, Acting' = n, Acting = n+1, Keeps(n)
  PROVE  Lexical!Finish
<1>1. home' = home /\ scope' = scope /\ nblk' = nblk /\ term' = term \cup {pos}
  BY DEF EndBody, Terminate
<1>2. /\ Len(Acts) = (n+1)+1 /\ Acts = [i \in 1..((n+1)+1) |-> Acts[i]]
      /\ Acts[1] = [fn |-> None, mod |-> None, env |-> << >>]
      /\ \A i \in 1..(n+1) : Acts[i+1] = ActivationOf(FnAt(i))
  BY ActsAre
<1>3. /\ Acts' = [i \in 1..(n+1) |-> Acts'[i]]
      /\ Acts'[1] = [fn |-> None, mod |-> None, env |-> << >>]
      /\ \A i \in 1..n : Acts'[i+1] = ActivationOf(FnAt(i))'
  BY ActsAreNext
<1>4. \A i \in 1..n : i \in 1..(n+1) /\ ActivationOf(FnAt(i))' = ActivationOf(FnAt(i))
  BY <1>1 DEF Keeps, ActivationOf
<1>5. \A i \in 1..(n+1) : Acts'[i] = Acts[i]
  <2> TAKE i \in 1..(n+1)
  <2>1. i = 1 \/ \E j \in 1..n : i = j+1
    <3>1. i # 1 => i-1 \in 1..n /\ i = (i-1)+1
      OBVIOUS
    <3> QED BY <3>1
  <2> QED BY <1>2, <1>3, <1>4, <2>1
<1>6. Acts' = SubSeq(Acts, 1, Len(Acts) - 1) /\ Len(Acts) > 1
  <2>1. PICK k \in Nat : k = n+1
    OBVIOUS
  <2>2. Acts' = SubSeq(Acts, 1, Len(Acts) - 1)
    BY <1>2, <1>3, <1>5, <2>1, CutIs
  <2> QED BY <1>2, <2>2
<1>7. PICK f \in Fun : f = curfn
  <2>1. curfn # None
    BY ActsFacts
  <2> QED BY <2>1, CurrentFunction
<1>8. Lexical!CodeOf(f) /\ Lexical!Grows(f)
  BY <1>1, <1>7, CodeOfCurrent
<1>9. Lexical!Last.fn = f
  BY <1>7, LastActivation, ActivationIs DEF Lexical!Last
<1> QED BY <1>6, <1>8, <1>9 DEF Lexical!Finish

-----------------------------------------------------------------------------
LEMMA CodeKept ==
  ASSUME nblk' = nblk, term' = term
  PROVE  Code' = Code
BY DEF Code

LEMMA WithEnv ==
  ASSUME NEW a, NEW b, NEW f, NEW m, NEW e, NEW t,
         a = [fn |-> f, mod |-> m, env |-> e], b = [fn |-> f, mod |-> m, env |-> t]
  PROVE  a.env = e /\ b = [a EXCEPT !.env = t]
OBVIOUS

\* The environment of the innermost activation follows its chain.
LEMMA ScopeOpens ==
  ASSUME IInv, ActsOK, Scope, Acting' = Acting, Keeps(Acting)
  PROVE  Lexical!Next \/ UNCHANGED <<Acts, Code>>
<1>1. /\ home' = home /\ Code' = Code
      /\ scope' = IF curfn = None THEN scope
                  ELSE [scope EXCEPT ![curfn] = Append(@, EmptyScope)]
  BY CodeKept DEF Scope, genvars
<1>2. CASE curfn = None
  BY <1>1, <1>2, ActsKept
<1>3. CASE curfn # None
  <2>1. PICK f \in Fun : f = curfn
    BY <1>3, CurrentFunction
  <2>2. PICK c \in Seq(FunScope) : c = scope[f]
    BY DEF IInv, TypeOK
  <2>3. scope'[f] = Append(c, EmptyScope) /\ \A g \in Fun : g # f => scope'[g] = scope[g]
    BY <1>1, <1>3, <2>1, <2>2 DEF IInv, TypeOK
  <2>4. Env(scope'[f]) = Append(Env(scope[f]), Lexical!Nothing)
    BY <2>2, <2>3, EnvOpens DEF Lexical!Nothing
  <2>5. /\ Acts' = [Acts EXCEPT ![Len(Acts)] = ActivationOf(f)']
        /\ Acts[Len(Acts)] = ActivationOf(f)
    BY <1>1, <2>1, <2>3, TopChanged, LastActivation
  <2>6. ActivationOf(f)' = [ActivationOf(f) EXCEPT !.env = Append(@, Lexical!Nothing)]
    <3>1. PICK m, e, x, t : /\ m = home[f] /\ e = Env(scope[f]) /\ x = Lexical!Nothing
                          /\ t = Append(e, x)
      OBVIOUS
    <3>2. /\ ActivationOf(f) = [fn |-> f, mod |-> m, env |-> e]
          /\ ActivationOf(f)' = [fn |-> f, mod |-> m, env |-> t]
      BY <1>1, <2>4, <3>1, ActivationIs
    <3>3. PICK a : a = ActivationOf(f)
      OBVIOUS
    <3>4. a.env = e /\ ActivationOf(f)' = [a EXCEPT !.env = t]
      BY <3>2, <3>3, WithEnv
    <3>5. ActivationOf(f)' = [a EXCEPT !.env = Append(a.env, x)]
      BY <3>1, <3>3, <3>4
    <3> QED BY <3>1, <3>3, <3>5
  <2>7. ActivationOf(f).fn # None
    BY ActivationIs, NoneAssumption
  <2>8. Lexical!OpenScope
    BY <1>1, <2>5, <2>6, <2>7 DEF Lexical!OpenScope, Lexical!SetLast, Lexical!Last
  <2> QED BY <2>8 DEF Lexical!Next
<1> QED BY <1>2, <1>3

LEMMA ScopeCloses ==
  ASSUME IInv, ActsOK, ScopesAreOpen, EndScope, Acting' = Acting, Keeps(Acting)
  PROVE  Lexical!Next \/ UNCHANGED <<Acts, Code>>
<1>1. /\ home' = home /\ Code' = Code
      /\ scope' = IF ~Top.pushed THEN scope
                  ELSE [scope EXCEPT ![curfn] = Parent(@)]
  BY CodeKept DEF EndScope, genvars
<1>2. CASE ~Top.pushed
  BY <1>1, <1>2, ActsKept
<1>3. CASE Top.pushed /\ curfn = None
  <2>1. scope \in [Fun -> Seq(FunScope)]
    BY DEF IInv, TypeOK
  <2>2. scope' = scope
    BY <1>1, <1>3, <2>1, NoneAssumption
  <2> QED BY <1>1, <2>2, ActsKept
<1>4. CASE Top.pushed /\ curfn # None
  <2>1. PICK f \in Fun : f = curfn
    BY <1>4, CurrentFunction
  <2>2. PICK c \in Seq(FunScope) : c = scope[f]
    BY DEF IInv, TypeOK
  <2>3. Len(c) > 1
    <3>1. PICK n \in Nat : n+1 = Len(stack) /\ stack[n+1] = Top
      <4>1. stack # << >> /\ stack \in Seq(Frame)
        BY DEF EndScope, Closing, IInv, TypeOK
      <4>2. Len(stack) - 1 \in Nat
        BY <4>1
      <4> QED BY <4>2 DEF Top
    <3>2. Innermost(stack, n+1, f)
      BY <2>1, <3>1 DEF IInv, ContextAgrees
    <3>3. IsOpen(stack, n+1, f)
      BY <1>4, <3>1, <3>2 DEF IsOpen, EndScope, Closing
    <3>4. OpenScopes(f) = OpenIn(stack, n+1, f)
      BY <3>1 DEF OpenScopes, OpenIn, IsOpen
    <3>5. Cardinality(OpenScopes(f)) \in Nat \ {0}
      BY <3>3, <3>4, OpenFacts
    <3>6. f \in UnderCompilation
      <4>1. n+1 \in 0..Len(stack)
        BY <3>1
      <4> QED BY <3>2, <4>1, Compiling, NoneAssumption
    <3> QED BY <2>2, <3>5, <3>6 DEF ScopesAreOpen
  <2>4. scope'[f] = Parent(c) /\ \A g \in Fun : g # f => scope'[g] = scope[g]
    BY <1>1, <1>4, <2>1, <2>2 DEF IInv, TypeOK
  <2>5. /\ Env(scope'[f]) = SubSeq(Env(scope[f]), 1, Len(Env(scope[f])) - 1)
        /\ Len(Env(scope[f])) > 1
    BY <2>2, <2>3, <2>4, EnvCloses, EnvFacts
  <2>6. /\ Acts' = [Acts EXCEPT ![Len(Acts)] = ActivationOf(f)']
        /\ Acts[Len(Acts)] = ActivationOf(f)
    BY <1>1, <2>1, <2>4, TopChanged, LastActivation
  <2>7. /\ ActivationOf(f)' = [ActivationOf(f) EXCEPT !.env = SubSeq(@, 1, Len(@) - 1)]
        /\ Len(ActivationOf(f).env) > 1
    <3>1. PICK m, e, t : /\ m = home[f] /\ e = Env(scope[f])
                          /\ t = SubSeq(e, 1, Len(e) - 1)
      OBVIOUS
    <3>2. /\ ActivationOf(f) = [fn |-> f, mod |-> m, env |-> e]
          /\ ActivationOf(f)' = [fn |-> f, mod |-> m, env |-> t]
      BY <1>1, <2>5, <3>1, ActivationIs
    <3>3. PICK a : a = ActivationOf(f)
      OBVIOUS
    <3>4. a.env = e /\ ActivationOf(f)' = [a EXCEPT !.env = t]
      BY <3>2, <3>3, WithEnv
    <3>5. ActivationOf(f)' = [a EXCEPT !.env = SubSeq(a.env, 1, Len(a.env) - 1)] /\ Len(a.env) > 1
      BY <2>5, <3>1, <3>3, <3>4
    <3> QED BY <3>1, <3>3, <3>5
  <2>8. Lexical!CloseScope
    BY <1>1, <2>6, <2>7 DEF Lexical!CloseScope, Lexical!SetLast, Lexical!Last
  <2> QED BY <2>8 DEF Lexical!Next
<1> QED BY <1>2, <1>3, <1>4

LEMMA VariableDeclared ==
  ASSUME IInv, ActsOK, ScopesAreOpen, NEW v \in Var, AddVariable(v),
         Acting' = Acting, Keeps(Acting)
  PROVE  Lexical!Next
<1>1. /\ home' = home /\ Code' = Code /\ curfn # None
      /\ scope' = [scope EXCEPT ![curfn][Len(scope[curfn])][v] = pos]
  BY CodeKept DEF AddVariable, Emits, genvars
<1>2. PICK f \in Fun : f = curfn /\ pos[1] = f /\ pos \in Block
  BY <1>1, CurrentFunction DEF IInv, ContextAgrees, BlockOf, TypeOK
<1>3. PICK c \in Seq(FunScope) : c = scope[f]
  BY DEF IInv, TypeOK
<1>4. c # << >>
  <2>1. f \in UnderCompilation
    <3>1. Len(stack) \in Nat /\ Innermost(stack, Len(stack), f)
      BY <1>2 DEF IInv, TypeOK, ContextAgrees
    <3>2. Len(stack) \in 0..Len(stack)
      BY <3>1
    <3> QED BY <3>1, <3>2, Compiling, NoneAssumption
  <2>2. Cardinality(OpenScopes(f)) \in Nat
    <3>1. PICK n \in Nat : n = Len(stack)
      BY DEF IInv, TypeOK
    <3>2. OpenScopes(f) = OpenIn(stack, n, f)
      BY <3>1 DEF OpenScopes, OpenIn, IsOpen
    <3> QED BY <3>2, OpenFacts
  <2>3. Len(c) # 0
    BY <1>3, <2>1, <2>2 DEF ScopesAreOpen
  <2> QED BY <2>3
<1>5. /\ scope'[f] = [c EXCEPT ![Len(c)][v] = pos]
      /\ \A g \in Fun : g # f => scope'[g] = scope[g]
  BY <1>1, <1>2, <1>3 DEF IInv, TypeOK
<1>6. /\ Env(scope'[f]) = [Env(scope[f]) EXCEPT ![Len(Env(scope[f]))][v] = f]
      /\ Env(scope[f]) # << >>
  BY <1>2, <1>3, <1>4, <1>5, EnvDeclares, EnvFacts
<1>7. /\ Acts' = [Acts EXCEPT ![Len(Acts)] = ActivationOf(f)']
      /\ Acts[Len(Acts)] = ActivationOf(f)
  BY <1>1, <1>2, <1>5, TopChanged, LastActivation
<1>8. PICK a : a = ActivationOf(f)
  OBVIOUS
<1>9. /\ a = [fn |-> f, mod |-> home[f], env |-> Env(scope[f])]
      /\ ActivationOf(f)' = [fn |-> f, mod |-> home[f],
                             env |-> [Env(scope[f]) EXCEPT ![Len(Env(scope[f]))][v] = f]]
  BY <1>1, <1>6, <1>8, ActivationIs
<1>10. ActivationOf(f)' = [a EXCEPT !.env[Len(a.env)][v] = a.fn]
  BY <1>9
<1>11. Lexical!Last = a /\ a.env # << >>
  BY <1>6, <1>7, <1>8, <1>9 DEF Lexical!Last
<1>12. Lexical!SetLast([a EXCEPT !.env[Len(a.env)][v] = a.fn])
  BY <1>7, <1>10 DEF Lexical!SetLast
<1>13. Lexical!Declare(v)
  BY <1>1, <1>11, <1>12 DEF Lexical!Declare
<1> QED BY <1>13 DEF Lexical!Next

\* All other steps only emit code.
LEMMA OthersEmit ==
  ASSUME IInv, ActsOK, [Next]_vars, ~BodyStep, scope' = scope,
         Acting' = Acting, Keeps(Acting)
  PROVE  Lexical!Next \/ UNCHANGED <<Acts, Code>>
<1>1. /\ home' = home
      /\ \/ nblk' = nblk /\ term' = term
         \/ /\ curfn # None
            /\ nblk' = nblk \/ \E k \in Nat : AppendBlocks(k)
            /\ term' = term \/ term' = term \cup {pos}
  BY CodeSteps
<1>2. Acts' = Acts
  BY <1>1, ActsKept
<1>3. CASE nblk' = nblk /\ term' = term
  BY <1>2, <1>3, CodeKept
<1>4. CASE /\ curfn # None
           /\ nblk' = nblk \/ \E k \in Nat : AppendBlocks(k)
           /\ term' = term \/ term' = term \cup {pos}
  <2>1. PICK f \in Fun : f = curfn
    BY <1>4, CurrentFunction
  <2>2. Lexical!CodeOf(f) /\ Lexical!Grows(f)
    BY <1>4, <2>1, CodeOfCurrent
  <2>3. Lexical!Last.fn = f
    BY <2>1, LastActivation, ActivationIs DEF Lexical!Last
  <2>4. Lexical!Emit
    BY <1>2, <2>2, <2>3, NoneAssumption DEF Lexical!Emit
  <2> QED BY <2>4 DEF Lexical!Next
<1> QED BY <1>1, <1>3, <1>4

LEMMA StepImplements ==
  ASSUME IInv, ActsOK, BlocksOK, ScopesAreOpen, [Next]_vars
  PROVE  Lexical!Next \/ UNCHANGED <<Acts, Code>>
<1>1. CASE ~BodyStep /\ Acting' = Acting /\ Keeps(Acting)
  <2>1. CASE Scope
    BY <1>1, <2>1, ScopeOpens
  <2>2. CASE EndScope
    BY <1>1, <2>2, ScopeCloses
  <2>3. ASSUME NEW v \in Var, AddVariable(v) PROVE Lexical!Next
    BY <1>1, <2>3, VariableDeclared
  <2>4. CASE scope' = scope
    BY <1>1, <2>4, OthersEmit
  <2> QED BY <1>1, <2>1, <2>2, <2>3, <2>4, StepChains DEF ScopeStep, BodyStep
<1>2. ASSUME NEW f \in Fun, NEW same \in BOOLEAN, NEW n \in Nat,
             FunBody(f, same), same => curfn # None,
             Acting = n, Acting' = n+1, Keeps(n), FnAt(n+1)' = f
      PROVE  Lexical!Next
  BY <1>2, BodyStarts DEF Lexical!Next
<1>3. ASSUME EndBody, NEW n \in Nat, Acting' = n, Acting = n+1, Keeps(n)
      PROVE  Lexical!Next
  BY <1>3, BodyEnds DEF Lexical!Next
<1> QED BY <1>1, <1>2, <1>3, FnSteps

LEMMA InitImplements == Init => Lexical!Init
<1> SUFFICES ASSUME Init PROVE Lexical!Init
  OBVIOUS
<1>1. Bodies = {}
  BY DEF Init, Bodies
<1>2. Acting = 0
  BY <1>1, FS_EmptySet DEF Acting
<1>3. /\ Acts = [n \in DOMAIN Acts |-> Acts[n]] /\ DOMAIN Acts = 1..1
      /\ Acts[1] = Lexical!TopLevel
  BY <1>2, ActsAre DEF Lexical!TopLevel
<1>4. Acts = <<Lexical!TopLevel>>
  <2>1. \A n : n \in 1..1 <=> n = 1
    OBVIOUS
  <2> QED BY <1>3, <2>1
<1>5. Code = [f \in Fun |-> {}]
  BY DEF Init, Code
<1> QED BY <1>4, <1>5 DEF Lexical!Init

\* However compilations nest, the globals that funbody saves and restores, the
\* one builder and the scope chains behave as activations that know nothing of
\* each other: code, scopes and variables only reach the innermost function,
\* and ending it uncovers the one around it as it was left (fun.c:294-346).
THEOREM ActivationImplemented == Spec => ImplementsActivation
<1>1. Init => Lexical!Init /\ IInv /\ BlocksOK /\ ScopesAreOpen /\ ActsOK
  <2>1. Init => ScopesAreOpen
    BY DEF Init, ScopesAreOpen, UnderCompilation
  <2> QED BY <2>1, InitImplements, InitInv, InitBlocks, InitActs
<1>2. IInv /\ BlocksOK /\ ScopesAreOpen /\ ActsOK /\ [Next]_vars =>
        IInv' /\ BlocksOK' /\ ScopesAreOpen' /\ ActsOK'
  BY StepInv, StepBlocks, StepScopes, StepActs
<1>3. IInv /\ BlocksOK /\ ScopesAreOpen /\ ActsOK /\ [Next]_vars =>
        [Lexical!Next]_<<Acts, Code>>
  BY StepImplements
<1> QED BY <1>1, <1>2, <1>3, PTL
        DEF Spec, ImplementsActivation, Lexical!Spec, Lexical!avars
=============================================================================
