---------------------------- MODULE CodegenProofs ----------------------------
(***************************************************************************)
(* Proofs about Codegen for every set of functions, every program and      *)
(* every bound.  The invariant says of each frame on the C stack that the  *)
(* locals it will restore describe the context its form was entered in.    *)
(***************************************************************************)
EXTENDS Codegen, TLAPS

InFunction == {"call", "while", "if", "cond", "quote", "unquote"}

\* The locals of a frame that name blocks or modules belong to g.
LocalsOf(fr, g) ==
  /\ fr.k = "call"  => fr.fun = home[g]
  /\ fr.k = "while" => /\ BlockOf(fr.cond, g) /\ BlockOf(fr.loop, g)
                       /\ BlockOf(fr.after, g)
  /\ fr.k = "if"    => /\ BlockOf(fr.ifblk, g) /\ BlockOf(fr.elseblk, g)
                       /\ BlockOf(fr.afterif, g)
  /\ fr.k = "cond" /\ fr.ph = "body" => BlockOf(fr.block2, g)

\* A body frame saves the context of the function around it.
SavesContext(fr) ==
  /\ home[fr.f] = IF fr.same_mod THEN fr.old ELSE fr.f
  /\ IF fr.prev = None THEN ~fr.same_mod /\ fr.old = None
     ELSE fr.old = home[fr.prev] /\ BlockOf(fr.prev3, fr.prev)

FrameOK(s, i) ==
  /\ s[i].k = "body" => Innermost(s, i-1, s[i].prev) /\ SavesContext(s[i])
  /\ s[i].k \in InFunction =>
       \E g \in Fun : /\ Innermost(s, i-1, g) /\ home[g] # None
                      /\ LocalsOf(s[i], g)

FramesOK == \A i \in 1..Len(stack) : FrameOK(stack, i)

IInv == TypeOK /\ ContextAgrees /\ FramesOK

-----------------------------------------------------------------------------
\* Taking the last frame off the stack, and exchanging it.
LEMMA PopFacts ==
  ASSUME NEW S, NEW s \in Seq(S), s # << >>
  PROVE  LET t == SubSeq(s, 1, Len(s) - 1)
         IN /\ Len(s) \in Nat \ {0} /\ s[Len(s)] \in S
            /\ t \in Seq(S) /\ Len(t) = Len(s) - 1
            /\ \A i \in 1..(Len(s) - 1) : t[i] = s[i]
<1>1. Len(s) \in Nat \ {0} /\ s[Len(s)] \in S
  OBVIOUS
<1>2. PICK n \in Nat : n = Len(s) - 1
  BY <1>1
<1>3. \A i \in 1..n : s[i] \in S
  BY <1>2
<1>4. /\ SubSeq(s, 1, n) \in Seq(S) /\ Len(SubSeq(s, 1, n)) = n
      /\ \A i \in 1..n : SubSeq(s, 1, n)[i] = s[i]
  BY <1>2, <1>3
<1> QED BY <1>1, <1>2, <1>4

LEMMA RetopFacts ==
  ASSUME NEW S, NEW s \in Seq(S), s # << >>, NEW e \in S
  PROVE  LET t == [s EXCEPT ![Len(s)] = e]
         IN /\ t \in Seq(S) /\ Len(t) = Len(s) /\ t[Len(s)] = e
            /\ \A i \in 1..(Len(s) - 1) : t[i] = s[i]
OBVIOUS

\* Only the body frames of a prefix decide which function is innermost.
LEMMA InnermostPrefix ==
  ASSUME NEW s, NEW t, NEW n \in Nat, NEW f,
         \A i \in 1..n : /\ t[i].k = "body" <=> s[i].k = "body"
                         /\ s[i].k = "body" => t[i].f = s[i].f,
         Innermost(s, n, f)
  PROVE  Innermost(t, n, f)
BY DEF Innermost

\* A frame that is no function body leaves the innermost function alone.
LEMMA InnermostStep ==
  ASSUME NEW s, NEW n \in Nat \ {0}, NEW f, s[n].k # "body"
  PROVE  Innermost(s, n, f) <=> Innermost(s, n-1, f)
BY DEF Innermost

LEMMA InnermostUnique ==
  ASSUME NEW s, NEW n \in Nat, NEW f, NEW g,
         \A i \in 1..n : s[i].k = "body" => s[i].f # None,
         Innermost(s, n, f), Innermost(s, n, g)
  PROVE  f = g
<1>1. CASE f = None \/ g = None
  BY <1>1 DEF Innermost
<1>2. CASE f # None /\ g # None
  <2>1. PICK i \in 1..n : /\ s[i].k = "body" /\ s[i].f = f
                          /\ \A j \in (i+1)..n : s[j].k # "body"
    BY <1>2 DEF Innermost
  <2>2. PICK j \in 1..n : /\ s[j].k = "body" /\ s[j].f = g
                          /\ \A m \in (j+1)..n : s[m].k # "body"
    BY <1>2 DEF Innermost
  <2>3. i = j
    BY <2>1, <2>2
  <2> QED BY <2>1, <2>2, <2>3
<1> QED BY <1>1, <1>2

\* What a frame knows stays true while functions only gain blocks.
LEMMA FrameStable ==
  ASSUME TypeOK, NEW i \in Nat \ {0}, FrameOK(stack, i),
         home' \in [Fun -> Module], nblk' \in [Fun -> Nat],
         stack[i].k = "body" => stack[i].f \in Fun /\ home[stack[i].f] # None,
         \A j \in 1..i : stack'[j] = stack[j],
         \A g \in Fun : home[g] # None =>
                          home'[g] = home[g] /\ nblk[g] <= nblk'[g]
  PROVE  FrameOK(stack, i)'
<1>1. \A b, g : BlockOf(b, g) => BlockOf(b, g)'
  BY DEF BlockOf, TypeOK
<1>2. \A f : Innermost(stack, i-1, f) => Innermost(stack, i-1, f)'
  BY DEF Innermost
<1>3. ASSUME stack[i].k = "body"
      PROVE  SavesContext(stack[i])'
  <2>1. SavesContext(stack[i]) /\ stack'[i] = stack[i]
    BY <1>3 DEF FrameOK
  <2>2. home'[stack[i].f] = home[stack[i].f]
    BY <1>3
  <2>3. stack[i].prev # None => home'[stack[i].prev] = home[stack[i].prev]
    BY <2>1 DEF SavesContext, BlockOf
  <2> QED BY <1>1, <2>1, <2>2, <2>3 DEF SavesContext
<1>4. \A g \in Fun : home[g] # None /\ LocalsOf(stack[i], g)
                       => LocalsOf(stack[i], g)'
  BY <1>1 DEF LocalsOf
<1>5. stack'[i] = stack[i]
  OBVIOUS
<1>6. stack'[i].k = "body" =>
        Innermost(stack', i-1, stack'[i].prev) /\ SavesContext(stack[i])'
  BY <1>2, <1>3, <1>5 DEF FrameOK
<1>7. ASSUME stack'[i].k \in InFunction
      PROVE  \E g \in Fun : /\ Innermost(stack', i-1, g) /\ home'[g] # None
                             /\ LocalsOf(stack[i], g)'
  <2>1. PICK g \in Fun : /\ Innermost(stack, i-1, g) /\ home[g] # None
                         /\ LocalsOf(stack[i], g)
    BY <1>5, <1>7 DEF FrameOK
  <2>2. Innermost(stack', i-1, g) /\ home'[g] # None /\ LocalsOf(stack[i], g)'
    BY <1>2, <1>4, <2>1
  <2> QED BY <2>2
<1> QED BY <1>6, <1>7 DEF FrameOK

-----------------------------------------------------------------------------
\* A body frame's function has been started.
LEMMA BodyStarted ==
  ASSUME IInv, NEW i \in 1..Len(stack), stack[i].k = "body"
  PROVE  stack[i].f \in Fun /\ home[stack[i].f] # None
<1>1. stack[i] \in BodyFrame
  BY DEF IInv, TypeOK, Frame, BodyFrame, ScopeFrame, CallFrame, WhileFrame,
         IfFrame, CondFrame, QuoteFrame, UnquoteFrame, IncludeFrame
<1>2. SavesContext(stack[i])
  BY DEF IInv, FramesOK, FrameOK
<1> QED BY <1>1, <1>2, NoneAssumption
        DEF SavesContext, BodyFrame, BlockOf, IInv, TypeOK, Module

\* The same for the current function, and it is where all code goes.
LEMMA CurrentFunction ==
  ASSUME IInv
  PROVE  /\ curfn # None => /\ curfn \in Fun /\ mod \in Fun
                            /\ mod = home[curfn] /\ home[pos[1]] = mod
                            /\ pos \in FunBlock
         /\ \A f : Innermost(stack, Len(stack), f) => f = curfn
<1>1. \A i \in 1..Len(stack) : stack[i].k = "body" => stack[i].f # None
  BY BodyStarted, NoneAssumption
<1>2. Len(stack) \in Nat
  BY DEF IInv, TypeOK
<1>3. \A f : Innermost(stack, Len(stack), f) => f = curfn
  BY <1>1, <1>2, InnermostUnique DEF IInv, ContextAgrees
<1>4. curfn # None => /\ curfn \in Fun /\ mod = home[curfn]
                      /\ BlockOf(pos, curfn)
  BY DEF IInv, ContextAgrees, TypeOK, Module
<1>5. curfn # None => pos \in FunBlock
  BY <1>4, NoneAssumption DEF BlockOf, IInv, TypeOK, Block, NoBlock
<1> QED BY <1>3, <1>4, <1>5 DEF BlockOf, IInv, TypeOK, Module

\* The innermost frame, when its form is used inside functions only, belongs
\* to the current function.
LEMMA TopLocals ==
  ASSUME IInv, stack # << >>, Top.k \in InFunction
  PROVE  curfn # None /\ LocalsOf(Top, curfn)
<1>1. Len(stack) \in Nat \ {0}
  BY DEF IInv, TypeOK
<1>2. PICK g \in Fun : Innermost(stack, Len(stack)-1, g) /\ LocalsOf(Top, g)
  BY <1>1 DEF IInv, FramesOK, FrameOK, Top
<1>3. Innermost(stack, Len(stack), g)
  BY <1>1, <1>2, InnermostStep DEF Top, InFunction
<1>4. g = curfn
  BY <1>3, CurrentFunction
<1> QED BY <1>2, <1>4, NoneAssumption

\* The frames that a step leaves in place stay correct.
LEMMA FramesKept ==
  ASSUME IInv, TypeOK', NEW n \in Nat, n <= Len(stack),
         \A j \in 1..n : stack'[j] = stack[j],
         \A g \in Fun : home[g] # None =>
                          home'[g] = home[g] /\ nblk[g] <= nblk'[g]
  PROVE  \A i \in 1..n : FrameOK(stack, i)'
<1> SUFFICES ASSUME NEW i \in 1..n PROVE FrameOK(stack, i)'
  OBVIOUS
<1>1. i \in 1..Len(stack) /\ FrameOK(stack, i) /\ TypeOK
  BY DEF IInv, FramesOK, TypeOK
<1>2. stack[i].k = "body" => stack[i].f \in Fun /\ home[stack[i].f] # None
  BY <1>1, BodyStarted
<1>3. home' \in [Fun -> Module] /\ nblk' \in [Fun -> Nat]
  BY DEF TypeOK
<1>4. \A j \in 1..i : stack'[j] = stack[j]
  OBVIOUS
<1> QED BY <1>1, <1>2, <1>3, <1>4, FrameStable

-----------------------------------------------------------------------------
\* A step inside the current function: it may append blocks and move the
\* builder between blocks of the function, and it leaves the C stack alone,
\* pushes, pops or replaces a frame that is no function body.
Stays == /\ curfn' = curfn /\ mod' = mod /\ home' = home
         /\ \A g \in Fun : nblk[g] <= nblk'[g]
         /\ curfn # None => BlockOf(pos, curfn)'

Fits(fr) == /\ fr.k # "body"
            /\ fr.k \in InFunction => curfn # None /\ LocalsOf(fr, curfn)'

LEMMA StayPut ==
  ASSUME IInv, TypeOK', Stays, stack' = stack
  PROVE  ContextAgrees' /\ FramesOK'
<1>1. FramesOK'
  <2>1. Len(stack) \in Nat
    BY DEF IInv, TypeOK
  <2> QED BY <2>1, FramesKept DEF Stays, FramesOK
<1>2. ContextAgrees'
  BY DEF Stays, ContextAgrees, IInv
<1> QED BY <1>1, <1>2

LEMMA StayPop ==
  ASSUME IInv, TypeOK', Stays, stack # << >>, Pop, Top.k # "body"
  PROVE  ContextAgrees' /\ FramesOK'
<1>1. PICK n \in Nat : n = Len(stack) - 1
  BY PopFacts DEF IInv, TypeOK
<1>2. Len(stack') = n /\ \A i \in 1..n : stack'[i] = stack[i]
  BY <1>1, PopFacts DEF IInv, TypeOK, Pop
<1>3. FramesOK'
  BY <1>1, <1>2, FramesKept DEF Stays, FramesOK
<1>4. Innermost(stack, n, curfn)
  BY <1>1, InnermostStep DEF IInv, ContextAgrees, Top
<1>5. Innermost(stack', n, curfn)
  BY <1>2, <1>4, InnermostPrefix
<1>6. ContextAgrees'
  BY <1>2, <1>5 DEF Stays, ContextAgrees, IInv
<1> QED BY <1>3, <1>6

LEMMA StayPush ==
  ASSUME IInv, TypeOK', Stays, NEW fr \in Frame, Fits(fr),
         stack' = Append(stack, fr)
  PROVE  ContextAgrees' /\ FramesOK'
<1>0. PICK n \in Nat : n = Len(stack)
  BY DEF IInv, TypeOK
<1>1. /\ n \in Nat /\ Len(stack') = n + 1 /\ stack'[n+1] = fr
      /\ \A i \in 1..n : stack'[i] = stack[i]
      /\ (n+1)-1 = n /\ n+1 \in Nat \ {0}
  BY <1>0 DEF IInv, TypeOK
<1>2. \A i \in 1..n : FrameOK(stack, i)'
  BY <1>0, <1>1, FramesKept DEF Stays
<1>3. Innermost(stack', n, curfn)
  BY <1>0, <1>1, InnermostPrefix DEF IInv, ContextAgrees
<1>4. Innermost(stack', n+1, curfn)
  BY <1>1, <1>3, InnermostStep DEF Fits
<1>5. FrameOK(stack, n+1)'
  <2>1. CASE fr.k \notin InFunction
    BY <1>1, <2>1 DEF FrameOK, Fits
  <2>2. CASE fr.k \in InFunction
    <3>1. PICK g \in Fun : g = curfn /\ home'[g] # None
      BY <2>2, CurrentFunction, NoneAssumption DEF Fits, Stays
    <3>2. LocalsOf(fr, g)'
      BY <2>2, <3>1 DEF Fits, Stays
    <3> QED BY <1>1, <1>3, <2>2, <3>1, <3>2 DEF FrameOK, Fits
  <2> QED BY <2>1, <2>2
<1>6. FramesOK'
  BY <1>1, <1>2, <1>5 DEF FramesOK
<1>7. ContextAgrees'
  BY <1>1, <1>4 DEF Stays, ContextAgrees, IInv
<1> QED BY <1>6, <1>7

LEMMA StayRetop ==
  ASSUME IInv, TypeOK', Stays, stack # << >>, Top.k # "body",
         NEW fr \in Frame, Fits(fr), Retop(fr)
  PROVE  ContextAgrees' /\ FramesOK'
<1>0. PICK n \in Nat : n = Len(stack)
  BY DEF IInv, TypeOK
<1>1. /\ n \in Nat \ {0} /\ Len(stack') = n /\ stack'[n] = fr
      /\ \A i \in 1..(n-1) : stack'[i] = stack[i]
  BY <1>0, RetopFacts DEF IInv, TypeOK, Retop
<1>2. \A i \in 1..(n-1) : FrameOK(stack, i)'
  <2>1. n-1 \in Nat /\ n-1 <= Len(stack)
    BY <1>0, <1>1
  <2> QED BY <1>1, <2>1, FramesKept DEF Stays
<1>3. Innermost(stack, n-1, curfn)
  BY <1>0, <1>1, InnermostStep DEF IInv, ContextAgrees, Top
<1>4. Innermost(stack', n-1, curfn)
  BY <1>1, <1>3, InnermostPrefix
<1>5. Innermost(stack', n, curfn)
  BY <1>1, <1>4, InnermostStep DEF Fits
<1>6. FrameOK(stack, n)'
  <2>1. CASE fr.k \notin InFunction
    BY <1>1, <2>1 DEF FrameOK, Fits
  <2>2. CASE fr.k \in InFunction
    <3>1. PICK g \in Fun : g = curfn /\ home'[g] # None
      BY <2>2, CurrentFunction, NoneAssumption DEF Fits, Stays
    <3>2. LocalsOf(fr, g)'
      BY <2>2, <3>1 DEF Fits, Stays
    <3> QED BY <1>1, <1>4, <2>2, <3>1, <3>2 DEF FrameOK, Fits
  <2> QED BY <2>1, <2>2
<1>7. FramesOK'
  BY <1>1, <1>2, <1>6 DEF FramesOK
<1>8. ContextAgrees'
  BY <1>1, <1>5 DEF Stays, ContextAgrees, IInv
<1> QED BY <1>7, <1>8

-----------------------------------------------------------------------------
\* The shape of a frame is decided by its kind.
LEMMA FrameKinds ==
  ASSUME NEW fr \in Frame
  PROVE  /\ fr.k = "body"    => fr \in BodyFrame
         /\ fr.k = "scope"   => fr \in ScopeFrame
         /\ fr.k = "call"    => fr \in CallFrame
         /\ fr.k = "while"   => fr \in WhileFrame
         /\ fr.k = "if"      => fr \in IfFrame
         /\ fr.k = "cond"    => fr \in CondFrame
         /\ fr.k = "include" => fr \in IncludeFrame
BY DEF Frame, BodyFrame, ScopeFrame, CallFrame, WhileFrame, IfFrame,
       CondFrame, QuoteFrame, UnquoteFrame, IncludeFrame

LEMMA InitInv == Init => IInv
<1> SUFFICES ASSUME Init PROVE IInv
  OBVIOUS
<1>1. /\ stack \in Seq(Frame) /\ scope \in [Fun -> Seq(FunScope)]
      /\ home \in [Fun -> Module] /\ nblk \in [Fun -> Nat]
  BY DEF Init, Module
<1>2. pos \in Block /\ loop \in Loop
  BY DEF Init, Block, Loop
<1>3. TypeOK
  BY <1>1, <1>2 DEF Init, TypeOK, Module
<1>4. ContextAgrees /\ FramesOK
  BY DEF Init, ContextAgrees, FramesOK, Innermost
<1> QED BY <1>3, <1>4 DEF IInv

\* funbody begins: the new function's frame saves the context it leaves.
LEMMA FunBodyInv ==
  ASSUME IInv, NEW f \in Fun, NEW same \in BOOLEAN, same => curfn # None,
         FunBody(f, same)
  PROVE  IInv'
<1>0. PICK n \in Nat : n = Len(stack)
  BY DEF IInv, TypeOK
<1> DEFINE fr == [k |-> "body", f |-> f, same_mod |-> same, old |-> mod,
                  prev |-> curfn, prev3 |-> pos]
<1>1. fr \in Frame
  BY DEF IInv, TypeOK, Frame, BodyFrame
<1>2. stack' = Append(stack, fr) /\ home[f] = None
  BY DEF FunBody, Push
<1>3. mod' \in Fun /\ mod' = IF same THEN mod ELSE f
  BY CurrentFunction DEF FunBody
<1>4. home' = [home EXCEPT ![f] = mod'] /\ nblk' = [nblk EXCEPT ![f] = 1]
  BY DEF FunBody
<1>5. TypeOK'
  <2>1. stack' \in Seq(Frame)
    BY <1>1, <1>2 DEF IInv, TypeOK
  <2>2. /\ mod' \in Module /\ curfn' \in Module /\ pos' \in Block
        /\ home' \in [Fun -> Module] /\ nblk' \in [Fun -> Nat]
    BY <1>3, <1>4 DEF FunBody, IInv, TypeOK, Module, Block, FunBlock
  <2>3. scope' \in [Fun -> Seq(FunScope)]
    <3>1. <<EmptyScope>> \in Seq(FunScope)
      BY DEF EmptyScope, FunScope, Block
    <3> QED BY <3>1 DEF FunBody, IInv, TypeOK
  <2> QED BY <2>1, <2>2, <2>3 DEF FunBody, IInv, TypeOK, genvars
<1>6. \A g \in Fun : home[g] # None =>
                       home'[g] = home[g] /\ nblk[g] <= nblk'[g]
  BY <1>2, <1>4 DEF IInv, TypeOK
<1>7. /\ Len(stack') = n + 1 /\ stack'[n+1] = fr
      /\ \A i \in 1..n : stack'[i] = stack[i]
      /\ (n+1)-1 = n
  BY <1>0, <1>1, <1>2 DEF IInv, TypeOK
<1>8. \A i \in 1..n : FrameOK(stack, i)'
  BY <1>0, <1>5, <1>6, <1>7, FramesKept
<1>9. FrameOK(stack, n+1)'
  <2>1. Innermost(stack', n, curfn)
    BY <1>0, <1>7, InnermostPrefix DEF IInv, ContextAgrees
  <2>2. SavesContext(stack[n+1])'
    <3>1. home'[f] = IF same THEN mod ELSE f
      BY <1>3, <1>4 DEF IInv, TypeOK
    <3>2. CASE curfn = None
      BY <1>7, <3>1, <3>2 DEF SavesContext, IInv, ContextAgrees
    <3>3. CASE curfn # None
      <4>1. curfn \in Fun /\ mod = home[curfn] /\ BlockOf(pos, curfn)
        BY <3>3, CurrentFunction DEF IInv, ContextAgrees
      <4>2. home'[curfn] = home[curfn] /\ nblk[curfn] <= nblk'[curfn]
        BY <1>6, <4>1 DEF BlockOf
      <4>3. nblk[curfn] \in Nat /\ nblk'[curfn] \in Nat
        BY <1>5, <4>1 DEF IInv, TypeOK
      <4>4. \A b : b[1] = curfn /\ b[2] \in 1..nblk[curfn]
                     => b[2] \in 1..nblk'[curfn]
        BY <4>2, <4>3
      <4> QED BY <1>7, <3>1, <3>3, <4>1, <4>2, <4>4 DEF SavesContext, BlockOf
    <3> QED BY <3>2, <3>3
  <2>3. stack'[n+1].k = "body" /\ stack'[n+1].prev = curfn
    BY <1>7
  <2> QED BY <1>7, <2>1, <2>2, <2>3 DEF FrameOK, InFunction
<1>10. FramesOK'
  BY <1>7, <1>8, <1>9 DEF FramesOK
<1>11. ContextAgrees'
  <2>1. Innermost(stack', n+1, f)
    BY <1>7 DEF Innermost
  <2>2. mod' = home'[f] /\ home'[f] # None /\ nblk'[f] = 1
    BY <1>3, <1>4, NoneAssumption DEF IInv, TypeOK
  <2>3. curfn' = f /\ pos' = <<f, 1>> /\ f # None
    BY NoneAssumption DEF FunBody
  <2> QED BY <1>7, <2>1, <2>2, <2>3 DEF ContextAgrees, BlockOf
<1> QED BY <1>5, <1>10, <1>11 DEF IInv

\* funbody ends: what it restores is what its frame saved.
LEMMA EndBodyInv ==
  ASSUME IInv, EndBody
  PROVE  IInv'
<1> DEFINE fr == Top
<1>a. stack \in Seq(Frame) /\ stack # << >>
  BY DEF IInv, TypeOK, EndBody, Closing
<1>0. PICK n \in Nat : n = Len(stack) - 1
  BY <1>a
<1>1. /\ Top \in BodyFrame /\ stack # << >> /\ Top = stack[n+1]
      /\ Len(stack) = n+1
  BY <1>0, FrameKinds, PopFacts DEF EndBody, Closing, IInv, TypeOK, Top
<1>2. SavesContext(Top) /\ Innermost(stack, n, Top.prev) /\ Top.k = "body"
  BY <1>0, <1>1 DEF IInv, FramesOK, FrameOK, BodyFrame
<1>3. curfn = Top.f /\ curfn \in Fun /\ curfn # None
  <2>1. Top.f \in Fun
    BY <1>0, <1>1, <1>2, BodyStarted
  <2>2. Innermost(stack, Len(stack), Top.f)
    BY <1>0, <1>1, <1>2 DEF Innermost
  <2> QED BY <2>1, <2>2, CurrentFunction, NoneAssumption
<1>4. pos \in FunBlock /\ mod = home[curfn]
  BY <1>3, CurrentFunction
<1>5. /\ Len(stack') = n /\ \A i \in 1..n : stack'[i] = stack[i]
      /\ stack' \in Seq(Frame)
  BY <1>0, <1>1, PopFacts DEF EndBody, Pop, IInv, TypeOK
<1>6. /\ curfn' = Top.prev
      /\ mod' = IF Top.same_mod THEN mod ELSE Top.old
      /\ pos' = IF Top.prev3[1] # None THEN Top.prev3 ELSE pos
      /\ home' = home /\ nblk' = nblk
  BY DEF EndBody, RestoredMod, RestoredPos
<1>7. TypeOK'
  <2>1. curfn' \in Module /\ mod' \in Module /\ pos' \in Block
    BY <1>1, <1>6 DEF BodyFrame, IInv, TypeOK, Module
  <2>2. term' \subseteq FunBlock /\ edges' = edges
    BY <1>4 DEF EndBody, Terminate, IInv, TypeOK
  <2> QED BY <1>5, <2>1, <2>2 DEF EndBody, IInv, TypeOK
<1>8. FramesOK'
  <2>1. n <= Len(stack) /\ \A g \in Fun : nblk[g] <= nblk[g]
    BY <1>0, <1>1 DEF IInv, TypeOK
  <2> QED BY <1>5, <1>6, <1>7, <2>1, FramesKept DEF FramesOK
<1>9. ContextAgrees'
  <2>1. Innermost(stack', n, Top.prev)
    BY <1>2, <1>5, InnermostPrefix
  <2>2. CASE Top.prev = None
    BY <1>2, <1>5, <1>6, <2>1, <2>2 DEF ContextAgrees, SavesContext
  <2>3. CASE Top.prev # None
    <3>1. /\ Top.old = home[Top.prev] /\ BlockOf(Top.prev3, Top.prev)
          /\ home[Top.f] = IF Top.same_mod THEN Top.old ELSE Top.f
      BY <1>2, <2>3 DEF SavesContext
    <3>2. mod' = home[Top.prev]
      BY <1>3, <1>4, <1>6, <3>1
    <3>3. pos' = Top.prev3
      BY <1>6, <2>3, <3>1 DEF BlockOf
    <3> QED BY <1>5, <1>6, <2>1, <2>3, <3>1, <3>2, <3>3
            DEF ContextAgrees, BlockOf
  <2> QED BY <2>2, <2>3
<1> QED BY <1>7, <1>8, <1>9 DEF IInv

-----------------------------------------------------------------------------
\* The remaining actions stay inside the current function.
LEMMA Unmoved ==
  ASSUME IInv, UNCHANGED <<mod, curfn, pos, home, nblk>>
  PROVE  Stays
<1>1. curfn # None => BlockOf(pos, curfn)
  BY DEF IInv, ContextAgrees
<1> QED BY <1>1 DEF Stays, BlockOf, IInv, TypeOK

LEMMA NewBlocks ==
  ASSUME IInv, curfn # None, NEW n \in Nat, AppendBlocks(n)
  PROVE  /\ nblk' \in [Fun -> Nat] /\ \A g \in Fun : nblk[g] <= nblk'[g]
         /\ \A i \in 1..n : /\ NewBlock(i) \in FunBlock
                            /\ NewBlock(i)[1] = curfn
                            /\ NewBlock(i)[2] \in 1..nblk'[curfn]
         /\ \A b : BlockOf(b, curfn) /\ home' = home => BlockOf(b, curfn)'
                   \/ curfn' # curfn
BY CurrentFunction DEF AppendBlocks, NewBlock, BlockOf, FunBlock, IInv, TypeOK

\* Forms outside of which nothing but the C stack and one table change.
LEMMA ScopeInv == ASSUME IInv, Scope \/ EndScope PROVE IInv'
<1>1. CASE Scope
  <2>a. PICK b \in BOOLEAN : b = (curfn # None)
    OBVIOUS
  <2>1. PICK fr \in Frame : fr = [k |-> "scope", pushed |-> curfn # None]
    <3>1. [k |-> "scope", pushed |-> b] \in Frame
      BY DEF Frame, ScopeFrame
    <3> QED BY <2>a, <3>1
  <2>2. TypeOK'
    <3>1. EmptyScope \in FunScope
      BY DEF EmptyScope, FunScope, Block
    <3>2. \A c \in Seq(FunScope) : Append(c, EmptyScope) \in Seq(FunScope)
      BY <3>1
    <3>3. scope' \in [Fun -> Seq(FunScope)]
      BY <1>1, <3>2, CurrentFunction DEF Scope, IInv, TypeOK
    <3> QED BY <1>1, <2>1, <3>3 DEF Scope, Push, IInv, TypeOK, genvars
  <2>3. Stays /\ stack' = Append(stack, fr) /\ Fits(fr)
    BY <1>1, <2>1, Unmoved DEF Scope, Push, Fits, InFunction
  <2> QED BY <2>2, <2>3, StayPush DEF IInv
<1>2. CASE EndScope
  <2>1. stack # << >> /\ Pop /\ Top.k # "body" /\ Stays
    BY <1>2, Unmoved DEF EndScope, Closing
  <2>2. TypeOK'
    <3>1. stack' \in Seq(Frame)
      BY <2>1, PopFacts DEF Pop, IInv, TypeOK
    <3>2. \A c \in Seq(FunScope) : Parent(c) \in Seq(FunScope)
      <4> SUFFICES ASSUME NEW c \in Seq(FunScope)
                   PROVE  Parent(c) \in Seq(FunScope)
        OBVIOUS
      <4>1. CASE c = << >>
        BY <4>1 DEF Parent
      <4>2. CASE c # << >>
        BY <4>2, PopFacts DEF Parent
      <4> QED BY <4>1, <4>2
    <3>3. scope' \in [Fun -> Seq(FunScope)]
      BY <1>2, <3>2 DEF EndScope, IInv, TypeOK
    <3> QED BY <1>2, <3>1, <3>3 DEF EndScope, IInv, TypeOK, genvars
  <2> QED BY <2>1, <2>2, StayPop DEF IInv
<1> QED BY <1>1, <1>2

LEMMA AddVariableInv ==
  ASSUME IInv, NEW v \in Var, AddVariable(v)
  PROVE  IInv'
<1>1. TypeOK'
  <2>1. \A c \in Seq(FunScope), n \in Nat :
           [c EXCEPT ![n][v] = pos] \in Seq(FunScope)
    <3> SUFFICES ASSUME NEW c \in Seq(FunScope), NEW n \in Nat
                 PROVE  [c EXCEPT ![n][v] = pos] \in Seq(FunScope)
      OBVIOUS
    <3>1. PICK m \in Nat : m = Len(c) /\ c \in [1..m -> FunScope]
      OBVIOUS
    <3>2. \A e \in FunScope : [e EXCEPT ![v] = pos] \in FunScope
      BY DEF FunScope, IInv, TypeOK
    <3>3. [c EXCEPT ![n] = [c[n] EXCEPT ![v] = pos]] \in [1..m -> FunScope]
      BY <3>1, <3>2
    <3> QED BY <3>1, <3>3
  <2>2. curfn \in Fun /\ Len(scope[curfn]) \in Nat
    BY CurrentFunction DEF AddVariable, Emits, IInv, TypeOK
  <2>3. [scope[curfn] EXCEPT ![Len(scope[curfn])][v] = pos] \in Seq(FunScope)
    BY <2>1, <2>2 DEF IInv, TypeOK
  <2>4. scope' \in [Fun -> Seq(FunScope)]
    BY <2>2, <2>3 DEF AddVariable, IInv, TypeOK
  <2> QED BY <2>4 DEF AddVariable, IInv, TypeOK, genvars
<1> QED BY <1>1, Unmoved, StayPut DEF AddVariable, IInv

LEMMA FuncallInv == ASSUME IInv, Funcall \/ EndFuncall PROVE IInv'
<1>1. CASE Funcall
  <2>1. PICK fr \in Frame : fr = [k |-> "call", fun |-> mod]
    BY <1>1, CurrentFunction DEF Funcall, Emits, Frame, CallFrame
  <2>2. TypeOK'
    BY <1>1, <2>1 DEF Funcall, Push, IInv, TypeOK, genvars
  <2>3. Stays /\ stack' = Append(stack, fr)
    BY <1>1, <2>1, Unmoved DEF Funcall, Push
  <2>4. Fits(fr)
    BY <1>1, <2>1, CurrentFunction DEF Funcall, Emits, Fits, LocalsOf
  <2> QED BY <2>2, <2>3, <2>4, StayPush DEF IInv
<1>2. CASE EndFuncall
  <2>1. stack # << >> /\ Pop /\ Top.k = "call" /\ Stays
    BY <1>2, Unmoved DEF EndFuncall, Closing
  <2>2. TypeOK'
    <3>1. stack' \in Seq(Frame) /\ Top \in Frame
      BY <2>1, PopFacts DEF Pop, Top, IInv, TypeOK
    <3>2. Top.fun \in Fun
      BY <2>1, <3>1, FrameKinds DEF CallFrame
    <3>3. home[pos[1]] \in Fun
      BY <2>1, TopLocals, CurrentFunction DEF InFunction
    <3>4. Top.fun \in Module
      BY <3>2 DEF Module
    <3>5. [by |-> "call", of |-> Top.fun, in |-> home[pos[1]]]
             \in [by : {"call", "quote"}, of : Module, in : Fun]
      BY <3>3, <3>4
    <3>6. uses' \subseteq [by : {"call", "quote"}, of : Module, in : Fun]
      BY <1>2, <3>5 DEF EndFuncall, IInv, TypeOK
    <3> QED BY <1>2, <3>1, <3>6 DEF EndFuncall, IInv, TypeOK, genvars
  <2> QED BY <2>1, <2>2, StayPop DEF IInv
<1> QED BY <1>1, <1>2

LEMMA QuoteInv ==
  ASSUME IInv,
         \/ \E quasi \in BOOLEAN : Quote(quasi)
         \/ LowerQuote \/ Quasiunquote
         \/ \E kind \in {"quote", "unquote"} : EndQuasiquote(kind)
  PROVE  IInv'
<1>1. ASSUME NEW quasi \in BOOLEAN, Quote(quasi) PROVE IInv'
  <2>1. PICK fr \in Frame : fr = [k |-> "quote", quasi |-> quasi]
    BY DEF Frame, QuoteFrame
  <2>2. TypeOK'
    BY <1>1, <2>1, CurrentFunction
       DEF Quote, Emits, Push, IInv, TypeOK, genvars
  <2>3. Stays /\ stack' = Append(stack, fr)
    BY <1>1, <2>1, Unmoved DEF Quote, Push
  <2>4. Fits(fr)
    BY <1>1, <2>1 DEF Quote, Emits, Fits, LocalsOf
  <2> QED BY <2>2, <2>3, <2>4, StayPush DEF IInv
<1>2. CASE LowerQuote
  <2>1. stack' = stack /\ Stays
    BY <1>2, Unmoved DEF LowerQuote
  <2>2. statics \in Module /\ home[pos[1]] \in Fun
    BY <1>2, TopLocals, CurrentFunction
       DEF LowerQuote, Closing, InFunction, IInv, TypeOK
  <2>3. TypeOK'
    BY <1>2, <2>2 DEF LowerQuote, IInv, TypeOK, genvars
  <2> QED BY <2>1, <2>3, StayPut DEF IInv
<1>3. CASE Quasiunquote
  <2>1. PICK fr \in Frame : fr = [k |-> "unquote"]
    BY DEF Frame, UnquoteFrame
  <2>2. TypeOK'
    BY <1>3, <2>1 DEF Quasiunquote, Push, IInv, TypeOK, genvars
  <2>3. Stays /\ stack' = Append(stack, fr)
    BY <1>3, <2>1, Unmoved DEF Quasiunquote, Push
  <2>4. Fits(fr)
    BY <1>3, <2>1, TopLocals
       DEF Quasiunquote, Closing, Fits, LocalsOf, InFunction
  <2> QED BY <2>2, <2>3, <2>4, StayPush DEF IInv
<1>4. ASSUME NEW kind \in {"quote", "unquote"}, EndQuasiquote(kind)
      PROVE  IInv'
  <2>1. stack # << >> /\ Pop /\ Top.k # "body" /\ Stays
    BY <1>4, Unmoved DEF EndQuasiquote, Closing
  <2>2. TypeOK'
    <3>1. stack' \in Seq(Frame)
      BY <2>1, PopFacts DEF Pop, IInv, TypeOK
    <3> QED BY <1>4, <3>1 DEF EndQuasiquote, IInv, TypeOK, genvars
  <2> QED BY <2>1, <2>2, StayPop DEF IInv
<1> QED BY <1>1, <1>2, <1>3, <1>4

LEMMA IncludeInv ==
  ASSUME IInv, (\E so \in BOOLEAN : Include(so)) \/ EndInclude
  PROVE  IInv'
<1>1. ASSUME NEW so \in BOOLEAN, Include(so) PROVE IInv'
  <2>1. PICK fr \in Frame :
          fr = [k |-> "include", before |-> precompiled_module, so |-> so]
    BY DEF Frame, IncludeFrame, IInv, TypeOK
  <2>2. TypeOK'
    BY <1>1, <2>1 DEF Include, Push, IInv, TypeOK, genvars
  <2>3. Stays /\ stack' = Append(stack, fr) /\ Fits(fr)
    BY <1>1, <2>1, Unmoved DEF Include, Push, Fits, InFunction
  <2> QED BY <2>2, <2>3, StayPush DEF IInv
<1>2. CASE EndInclude
  <2>1. stack # << >> /\ Pop /\ Top.k = "include" /\ Stays
    BY <1>2, Unmoved DEF EndInclude, Closing
  <2>2. TypeOK'
    <3>1. stack' \in Seq(Frame) /\ Top \in IncludeFrame
      BY <2>1, PopFacts, FrameKinds DEF Pop, Top, IInv, TypeOK
    <3> QED BY <1>2, <3>1
            DEF EndInclude, PrecompiledBefore, IncludeFrame, IInv, TypeOK,
                genvars
  <2> QED BY <2>1, <2>2, StayPop DEF IInv
<1> QED BY <1>1, <1>2

\* A block of the current function, seen after blocks have been appended.
LEMMA StillBlockOf ==
  ASSUME IInv, NEW b, BlockOf(b, curfn), curfn' = curfn, home' = home,
         nblk' \in [Fun -> Nat], \A g \in Fun : nblk[g] <= nblk'[g]
  PROVE  BlockOf(b, curfn)'
BY DEF BlockOf, IInv, TypeOK

LEMMA NewBlockOf ==
  ASSUME IInv, curfn # None, NEW n \in Nat, AppendBlocks(n),
         curfn' = curfn, home' = home, NEW i \in 1..n,
         NEW b, b = NewBlock(i)
  PROVE  BlockOf(b, curfn)'
<1>1. curfn \in Fun /\ home[curfn] # None
  BY CurrentFunction, NoneAssumption
<1> QED BY <1>1, NewBlocks DEF BlockOf

\* The blocks that the frame of an open construct names.
LEMMA TopBlocks ==
  ASSUME IInv, stack # << >>, Top.k \in {"while", "if", "cond"}
  PROVE  /\ curfn # None /\ pos \in FunBlock /\ Top \in Frame
         /\ Top.k = "while" =>
              /\ Top \in WhileFrame
              /\ BlockOf(Top.cond, curfn) /\ BlockOf(Top.loop, curfn)
              /\ BlockOf(Top.after, curfn)
         /\ Top.k = "if" =>
              /\ Top \in IfFrame
              /\ BlockOf(Top.ifblk, curfn) /\ BlockOf(Top.elseblk, curfn)
              /\ BlockOf(Top.afterif, curfn)
         /\ Top.k = "cond" => /\ Top \in CondFrame
                              /\ Top.ph = "body" => BlockOf(Top.block2, curfn)
<1>1. curfn # None /\ LocalsOf(Top, curfn)
  BY TopLocals DEF InFunction
<1>2. Top \in Frame
  BY PopFacts DEF Top, IInv, TypeOK
<1> QED BY <1>1, <1>2, CurrentFunction, FrameKinds DEF LocalsOf

LEMMA WhileInv == ASSUME IInv, While PROVE IInv'
<1>1. /\ curfn # None /\ AppendBlocks(3) /\ curfn' = curfn /\ home' = home
      /\ mod' = mod
  BY DEF While, Emits
<1>2. /\ NewBlock(1) \in FunBlock /\ NewBlock(2) \in FunBlock
      /\ NewBlock(3) \in FunBlock /\ nblk' \in [Fun -> Nat]
      /\ \A g \in Fun : nblk[g] <= nblk'[g]
  BY <1>1, NewBlocks
<1>3. PICK b1 \in FunBlock, b2 \in FunBlock, b3 \in FunBlock :
        b1 = NewBlock(1) /\ b2 = NewBlock(2) /\ b3 = NewBlock(3)
  BY <1>2
<1>4. BlockOf(b1, curfn)' /\ BlockOf(b2, curfn)' /\ BlockOf(b3, curfn)'
  BY <1>1, <1>3, NewBlockOf
<1>5. PICK fr \in Frame :
        fr = [k |-> "while", ph |-> "cond", cond |-> b1, loop |-> b2,
              after |-> b3, last |-> loop]
  BY DEF Frame, WhileFrame, IInv, TypeOK
<1>6. stack' = Append(stack, fr) /\ pos' = b1
  BY <1>3, <1>5 DEF While, Push
<1>7. TypeOK'
  <2>1. pos \in FunBlock
    BY <1>1, CurrentFunction
  <2>2. term' \subseteq FunBlock /\ edges' \subseteq FunBlock \X FunBlock
    BY <1>2, <2>1 DEF While, Terminate, IInv, TypeOK
  <2>3. stack' \in Seq(Frame)
    BY <1>6 DEF IInv, TypeOK
  <2> QED BY <1>1, <1>2, <1>6, <2>2, <2>3 DEF While, IInv, TypeOK, Block
<1>8. Stays
  BY <1>1, <1>2, <1>4, <1>6 DEF Stays
<1>9. Fits(fr)
  BY <1>1, <1>4, <1>5 DEF Fits, LocalsOf
<1> QED BY <1>6, <1>7, <1>8, <1>9, StayPush DEF IInv

LEMMA WhileBodyInv == ASSUME IInv, WhileBody PROVE IInv'
<1>1. PICK fr \in Frame :
        fr = [Top EXCEPT !.ph = "body", !.last = SavedLoop]
  <2>1. Top \in WhileFrame
    BY TopBlocks DEF WhileBody, InPhase, Closing
  <2>2. [Top EXCEPT !.ph = "body", !.last = SavedLoop] \in WhileFrame
    BY <2>1 DEF WhileFrame, SavedLoop, IInv, TypeOK
  <2> QED BY <2>2 DEF Frame
<1>2. /\ stack # << >> /\ Top.k = "while" /\ Retop(fr)
      /\ curfn' = curfn /\ home' = home /\ mod' = mod /\ nblk' = nblk
      /\ pos' = Top.loop
  BY <1>1 DEF WhileBody, InPhase, Closing, Retop
<1>3. /\ curfn # None /\ pos \in FunBlock /\ Top \in WhileFrame
      /\ BlockOf(Top.cond, curfn) /\ BlockOf(Top.loop, curfn)
      /\ BlockOf(Top.after, curfn)
  BY <1>2, TopBlocks
<1>4. /\ fr.k = "while" /\ fr.cond = Top.cond /\ fr.loop = Top.loop
      /\ fr.after = Top.after
  BY <1>1, <1>3 DEF WhileFrame
<1>5. \A b : BlockOf(b, curfn) => BlockOf(b, curfn)'
  BY <1>2 DEF BlockOf
<1>6. TypeOK'
  <2>1. stack' \in Seq(Frame)
    <3>1. stack \in Seq(Frame)
      BY DEF IInv, TypeOK
    <3>2. [stack EXCEPT ![Len(stack)] = fr] \in Seq(Frame)
      BY <1>2, <3>1, RetopFacts
    <3> QED BY <1>2, <3>2 DEF Retop
  <2>2. pos' \in Block /\ loop' \in Loop
    BY <1>2, <1>3 DEF WhileBody, WhileFrame, Block, Loop
  <2>3. term' \subseteq FunBlock /\ edges' \subseteq FunBlock \X FunBlock
    BY <1>3 DEF WhileBody, Terminate, WhileFrame, IInv, TypeOK
  <2> QED BY <1>2, <2>1, <2>2, <2>3 DEF WhileBody, IInv, TypeOK
<1>7. Stays
  BY <1>2, <1>3, <1>5 DEF Stays, IInv, TypeOK
<1>8. Fits(fr)
  BY <1>3, <1>4, <1>5 DEF Fits, LocalsOf
<1> QED BY <1>2, <1>6, <1>7, <1>8, StayRetop DEF IInv

\* The builder ends up behind the construct that is closed.
LEMMA CloseInv ==
  ASSUME IInv, EndWhile \/ EndIf \/ EndCond
  PROVE  IInv'
<1>1. /\ stack # << >> /\ Top.k \in {"while", "if", "cond"} /\ Pop
      /\ curfn' = curfn /\ home' = home /\ mod' = mod /\ nblk' = nblk
  BY DEF EndWhile, EndIf, EndCond, InPhase, Closing
<1>2. curfn # None /\ pos \in FunBlock
  BY <1>1, TopBlocks
<1>3. stack' \in Seq(Frame)
  BY <1>1, PopFacts DEF Pop, IInv, TypeOK
<1>4. BlockOf(pos', curfn) /\ TypeOK'
  <2>1. CASE EndWhile
    <3>1. Top \in WhileFrame /\ BlockOf(Top.after, curfn)
      BY <2>1, TopBlocks DEF EndWhile, InPhase, Closing
    <3>2. pos' = Top.after /\ pos' \in Block /\ loop' \in Loop
      BY <2>1, <3>1 DEF EndWhile, WhileFrame, Block
    <3>3. term' \subseteq FunBlock /\ edges' \subseteq FunBlock \X FunBlock
      BY <1>2, <2>1, <3>1 DEF EndWhile, Terminate, WhileFrame, IInv, TypeOK
    <3> QED BY <1>3, <2>1, <3>1, <3>2, <3>3 DEF EndWhile, IInv, TypeOK
  <2>2. CASE EndIf
    <3>1. Top \in IfFrame /\ BlockOf(Top.afterif, curfn)
      BY <2>2, TopBlocks DEF EndIf, InPhase, Closing
    <3>2. pos' = Top.afterif /\ pos' \in Block
      BY <2>2, <3>1 DEF EndIf, IfFrame, Block
    <3>3. term' \subseteq FunBlock /\ edges' \subseteq FunBlock \X FunBlock
      BY <1>2, <2>2, <3>1 DEF EndIf, Terminate, IfFrame, IInv, TypeOK
    <3>4. PICK b1 \in FunBlock, b2 \in FunBlock, b3 \in FunBlock :
            b1 = Top.ifblk /\ b2 = Top.elseblk /\ b3 = Top.afterif
      BY <3>1 DEF IfFrame
    <3>5. [at |-> b3, inc |-> {b1, b2}] \in [at : FunBlock, inc : SUBSET FunBlock]
      OBVIOUS
    <3>6. phis' = phis \cup {[at |-> b3, inc |-> {b1, b2}]}
      BY <2>2, <3>4 DEF EndIf
    <3>7. phis' \subseteq [at : FunBlock, inc : SUBSET FunBlock]
      BY <3>5, <3>6 DEF IInv, TypeOK
    <3> QED BY <1>3, <2>2, <3>1, <3>2, <3>3, <3>7 DEF EndIf, IInv, TypeOK
  <2>3. CASE EndCond
    <3>1. Top \in CondFrame /\ BlockOf(Top.block2, curfn)
      BY <2>3, TopBlocks DEF EndCond, InPhase, Closing
    <3>2. Top.block2 \in FunBlock
      BY <1>2, <3>1, NoneAssumption
         DEF CondFrame, Block, NoBlock, BlockOf
    <3>3. pos' = Top.block2 /\ pos' \in Block
      BY <2>3, <3>2 DEF EndCond, Block
    <3>4. term' \subseteq FunBlock /\ edges' \subseteq FunBlock \X FunBlock
      BY <1>2, <2>3, <3>2 DEF EndCond, Terminate, IInv, TypeOK
    <3> QED BY <1>3, <2>3, <3>1, <3>3, <3>4 DEF EndCond, IInv, TypeOK
  <2> QED BY <2>1, <2>2, <2>3
<1>5. Stays
  BY <1>1, <1>4 DEF Stays, BlockOf, IInv, TypeOK
<1> QED BY <1>1, <1>4, <1>5, StayPop DEF IInv

LEMMA JumpInv ==
  ASSUME IInv, NEW target \in {loop.after, loop.cond}, Jump(target)
  PROVE  IInv'
<1>1. CASE ~InLoop
  <2>1. TypeOK'
    BY <1>1 DEF Jump, IInv, TypeOK
  <2>2. stack' = stack /\ Stays
    BY <1>1, Unmoved DEF Jump
  <2> QED BY <2>1, <2>2, StayPut DEF IInv
<1>2. CASE InLoop
  <2>1. /\ curfn # None /\ AppendBlocks(1) /\ curfn' = curfn /\ home' = home
        /\ mod' = mod /\ pos' = NewBlock(1) /\ stack' = stack
    BY <1>2 DEF Jump, Emits, DeadBlock
  <2>2. PICK b1 \in FunBlock : b1 = NewBlock(1)
    BY <2>1, NewBlocks
  <2>3. BlockOf(b1, curfn)'
    BY <2>1, <2>2, NewBlockOf
  <2>4. target \in FunBlock /\ pos \in FunBlock
    <3>1. loop # NoLoop
      <4>1. loop.inLoop = TRUE
        BY <1>2 DEF InLoop, IInv, TypeOK, Loop, NoLoop
      <4>2. NoLoop.inLoop = FALSE
        BY DEF NoLoop
      <4> QED BY <4>1, <4>2
    <3>2. loop \in [inLoop : {TRUE}, cond : FunBlock, after : FunBlock]
      BY <3>1 DEF IInv, TypeOK, Loop
    <3> QED BY <2>1, <3>2, CurrentFunction
  <2>5. TypeOK'
    <3>1. term' \subseteq FunBlock /\ edges' \subseteq FunBlock \X FunBlock
      BY <1>2, <2>4 DEF Jump, Terminate, IInv, TypeOK
    <3>2. nblk' \in [Fun -> Nat] /\ pos' \in Block
      BY <2>1, <2>2, NewBlocks DEF Block
    <3> QED BY <1>2, <2>1, <3>1, <3>2 DEF Jump, IInv, TypeOK
  <2>6. Stays
    BY <2>1, <2>2, <2>3, NewBlocks DEF Stays
  <2> QED BY <2>1, <2>5, <2>6, StayPut DEF IInv
<1> QED BY <1>1, <1>2

LEMMA IfInv == ASSUME IInv, If PROVE IInv'
<1>1. /\ curfn # None /\ AppendBlocks(3) /\ curfn' = curfn /\ home' = home
      /\ mod' = mod /\ pos' = pos
  BY DEF If, Emits
<1>2. /\ NewBlock(1) \in FunBlock /\ NewBlock(2) \in FunBlock
      /\ NewBlock(3) \in FunBlock /\ nblk' \in [Fun -> Nat]
      /\ \A g \in Fun : nblk[g] <= nblk'[g]
  BY <1>1, NewBlocks
<1>3. PICK b1 \in FunBlock, b2 \in FunBlock, b3 \in FunBlock :
        b1 = NewBlock(1) /\ b2 = NewBlock(2) /\ b3 = NewBlock(3)
  BY <1>2
<1>4. BlockOf(b1, curfn)' /\ BlockOf(b2, curfn)' /\ BlockOf(b3, curfn)'
  BY <1>1, <1>3, NewBlockOf
<1>5. PICK fr \in Frame :
        fr = [k |-> "if", ph |-> "cond", ifblk |-> b1, elseblk |-> b2,
              afterif |-> b3]
  BY DEF Frame, IfFrame
<1>6. stack' = Append(stack, fr)
  BY <1>3, <1>5 DEF If, Push
<1>7. TypeOK'
  BY <1>1, <1>2, <1>6 DEF If, IInv, TypeOK, genvars
<1>8. Stays
  <2>1. PICK b : b = pos /\ BlockOf(b, curfn)
    BY <1>1 DEF IInv, ContextAgrees
  <2>2. BlockOf(b, curfn)'
    BY <1>1, <1>2, <2>1, StillBlockOf
  <2> QED BY <1>1, <1>2, <2>1, <2>2 DEF Stays
<1>9. Fits(fr)
  BY <1>1, <1>4, <1>5 DEF Fits, LocalsOf
<1> QED BY <1>6, <1>7, <1>8, <1>9, StayPush DEF IInv

LEMMA IfBranchInv == ASSUME IInv, IfThen \/ IfElse PROVE IInv'
<1>1. PICK ph \in {"then", "else"} :
        /\ stack # << >> /\ Top.k = "if" /\ Retop([Top EXCEPT !.ph = ph])
        /\ pos' \in {Top.ifblk, Top.elseblk}
        /\ UNCHANGED <<mod, curfn, home, nblk, phis, scope, loop, statics,
                       uses, precompiled_module, exited>>
        /\ \E ts \in SUBSET {Top.ifblk, Top.elseblk, Top.afterif} :
             Terminate(ts)
  BY DEF IfThen, IfElse, InPhase, Closing
<1>2. /\ curfn # None /\ pos \in FunBlock /\ Top \in IfFrame
      /\ BlockOf(Top.ifblk, curfn) /\ BlockOf(Top.elseblk, curfn)
      /\ BlockOf(Top.afterif, curfn)
  BY <1>1, TopBlocks
<1>3. PICK fr \in Frame : fr = [Top EXCEPT !.ph = ph]
  <2>1. [Top EXCEPT !.ph = ph] \in IfFrame
    BY <1>2 DEF IfFrame
  <2> QED BY <2>1 DEF Frame
<1>4. /\ fr.k = "if" /\ fr.ifblk = Top.ifblk /\ fr.elseblk = Top.elseblk
      /\ fr.afterif = Top.afterif /\ Retop(fr)
  BY <1>1, <1>2, <1>3 DEF IfFrame
<1>5. \A b : BlockOf(b, curfn) => BlockOf(b, curfn)'
  BY <1>1 DEF BlockOf
<1>6. TypeOK'
  <2>1. stack' \in Seq(Frame)
    <3>1. stack \in Seq(Frame)
      BY DEF IInv, TypeOK
    <3>2. [stack EXCEPT ![Len(stack)] = fr] \in Seq(Frame)
      BY <1>1, <3>1, RetopFacts
    <3> QED BY <1>4, <3>2 DEF Retop
  <2>2. pos' \in Block
    BY <1>1, <1>2 DEF IfFrame, Block
  <2>3. term' \subseteq FunBlock /\ edges' \subseteq FunBlock \X FunBlock
    BY <1>1, <1>2 DEF Terminate, IfFrame, IInv, TypeOK
  <2> QED BY <1>1, <2>1, <2>2, <2>3 DEF IInv, TypeOK
<1>7. Stays
  BY <1>1, <1>2, <1>5 DEF Stays, IInv, TypeOK
<1>8. Fits(fr)
  BY <1>2, <1>4, <1>5 DEF Fits, LocalsOf
<1> QED BY <1>1, <1>4, <1>6, <1>7, <1>8, StayRetop DEF IInv

LEMMA CondInv == ASSUME IInv, Cond \/ CondBody PROVE IInv'
<1>1. CASE Cond
  <2>1. PICK fr \in Frame :
          fr = [k |-> "cond", ph |-> "test", block2 |-> NoBlock]
    BY DEF Frame, CondFrame, Block
  <2>2. TypeOK'
    BY <1>1, <2>1 DEF Cond, Push, IInv, TypeOK, genvars
  <2>3. Stays /\ stack' = Append(stack, fr)
    BY <1>1, <2>1, Unmoved DEF Cond, Push
  <2>4. Fits(fr)
    BY <1>1, <2>1 DEF Cond, Emits, Fits, LocalsOf
  <2> QED BY <2>2, <2>3, <2>4, StayPush DEF IInv
<1>2. CASE CondBody
  <2>1. /\ stack # << >> /\ Top.k = "cond" /\ AppendBlocks(2)
        /\ curfn' = curfn /\ home' = home /\ mod' = mod
        /\ pos' = NewBlock(1)
    BY <1>2 DEF CondBody, InPhase, Closing
  <2>2. curfn # None /\ pos \in FunBlock
    BY <2>1, TopBlocks
  <2>3. /\ NewBlock(1) \in FunBlock /\ NewBlock(2) \in FunBlock
        /\ nblk' \in [Fun -> Nat] /\ \A g \in Fun : nblk[g] <= nblk'[g]
    BY <2>1, <2>2, NewBlocks
  <2>4. PICK b1 \in FunBlock, b2 \in FunBlock :
          b1 = NewBlock(1) /\ b2 = NewBlock(2)
    BY <2>3
  <2>5. BlockOf(b1, curfn)' /\ BlockOf(b2, curfn)'
    BY <2>1, <2>2, <2>4, NewBlockOf
  <2>6. PICK fr \in Frame : fr = [k |-> "cond", ph |-> "body", block2 |-> b2]
    BY DEF Frame, CondFrame, Block
  <2>7. Retop(fr)
    BY <1>2, <2>4, <2>6 DEF CondBody
  <2>8. TypeOK'
    <3>1. stack' \in Seq(Frame)
      <4>1. stack \in Seq(Frame)
        BY DEF IInv, TypeOK
      <4>2. [stack EXCEPT ![Len(stack)] = fr] \in Seq(Frame)
        BY <2>1, <4>1, RetopFacts
      <4> QED BY <2>7, <4>2 DEF Retop
    <3>2. term' \subseteq FunBlock /\ edges' \subseteq FunBlock \X FunBlock
      BY <1>2, <2>2, <2>3 DEF CondBody, Terminate, IInv, TypeOK
    <3> QED BY <1>2, <2>1, <2>3, <3>1, <3>2 DEF CondBody, IInv, TypeOK, Block
  <2>9. Stays
    BY <2>1, <2>3, <2>4, <2>5 DEF Stays
  <2>10. Fits(fr)
    BY <2>1, <2>2, <2>5, <2>6 DEF Fits, LocalsOf
  <2> QED BY <2>1, <2>7, <2>8, <2>9, <2>10, StayRetop DEF IInv
<1> QED BY <1>1, <1>2

-----------------------------------------------------------------------------
LEMMA StepInv == IInv /\ [Next]_vars => IInv'
<1> SUFFICES ASSUME IInv, [Next]_vars PROVE IInv'
  OBVIOUS
<1>1. ASSUME NEW f \in Fun, Define(f) \/ Lambda(f) PROVE IInv'
  <2>1. CASE Define(f)
    BY <2>1, FunBodyInv DEF Define
  <2>2. CASE Lambda(f)
    BY <2>2, FunBodyInv DEF Lambda, Emits
  <2> QED BY <1>1, <2>1, <2>2
<1>2. CASE EndBody
  BY <1>2, EndBodyInv
<1>3. CASE Scope \/ EndScope
  BY <1>3, ScopeInv
<1>4. ASSUME NEW v \in Var, AddVariable(v) PROVE IInv'
  BY <1>4, AddVariableInv
<1>5. CASE Funcall \/ EndFuncall
  BY <1>5, FuncallInv
<1>6. CASE While
  BY <1>6, WhileInv
<1>7. CASE WhileBody
  BY <1>7, WhileBodyInv
<1>8. CASE EndWhile \/ EndIf \/ EndCond
  BY <1>8, CloseInv
<1>9. CASE Break \/ Continue
  BY <1>9, JumpInv DEF Break, Continue
<1>10. CASE If
  BY <1>10, IfInv
<1>11. CASE IfThen \/ IfElse
  BY <1>11, IfBranchInv
<1>12. CASE Cond \/ CondBody
  BY <1>12, CondInv
<1>13. CASE \/ \E quasi \in BOOLEAN : Quote(quasi)
            \/ LowerQuote \/ Quasiunquote
            \/ \E kind \in {"quote", "unquote"} : EndQuasiquote(kind)
  BY <1>13, QuoteInv
<1>14. CASE (\E so \in BOOLEAN : Include(so)) \/ EndInclude
  BY <1>14, IncludeInv
<1>15. CASE CompilerError
  <2>1. TypeOK'
    BY <1>15 DEF CompilerError, IInv, TypeOK, genvars
  <2>2. stack' = stack /\ Stays
    BY <1>15, Unmoved DEF CompilerError
  <2> QED BY <2>1, <2>2, StayPut DEF IInv
<1>16. CASE Stop \/ UNCHANGED vars
  <2>1. UNCHANGED vars
    BY <1>16 DEF Stop
  <2>2. TypeOK'
    BY <2>1 DEF vars, IInv, TypeOK
  <2>3. stack' = stack /\ Stays
    BY <2>1, Unmoved DEF vars
  <2> QED BY <2>2, <2>3, StayPut DEF IInv
<1> QED
  BY <1>1, <1>2, <1>3, <1>4, <1>5, <1>6, <1>7, <1>8, <1>9, <1>10, <1>11,
     <1>12, <1>13, <1>14, <1>15, <1>16 DEF Next

\* Every value the code generator keeps has the type its declaration says: in
\* particular no branch goes to the NULL block, which break and continue rely
\* on while-in-loop for (def.dlr:248, 256).
THEOREM TypeCorrect == Spec => []TypeOK
<1>1. IInv => TypeOK
  BY DEF IInv
<1> QED BY <1>1, InitInv, StepInv, PTL DEF Spec

\* In every program, however functions, lambdas, loops, quotes and includes
\* nest, module, function and builder position agree (fun.c:294-346).
THEOREM ContextCorrect == Spec => []ContextAgrees
<1>1. IInv => ContextAgrees
  BY DEF IInv
<1> QED BY <1>1, InitInv, StepInv, PTL DEF Spec

\* A callee looked up before its arguments are evaluated still is a function
\* of the module the call is emitted into (eval.c:181-195).
THEOREM CalleeCorrect == Spec => []CalleeInModule
<1>1. Init => CalleeInModule
  BY DEF Init, CalleeInModule
<1>2. IInv /\ CalleeInModule /\ [Next]_vars => CalleeInModule'
  <2> SUFFICES ASSUME IInv, CalleeInModule, [Next]_vars
               PROVE  CalleeInModule'
    OBVIOUS
  <2>1. CASE EndFuncall
    <3>1. stack # << >> /\ Top.k = "call"
      BY <2>1 DEF EndFuncall, Closing
    <3>2. curfn # None /\ Top.fun = home[curfn]
      BY <3>1, TopLocals DEF InFunction, LocalsOf
    <3>3. Top.fun = home[pos[1]]
      BY <3>2, CurrentFunction
    <3> QED BY <2>1, <3>3 DEF EndFuncall, CalleeInModule
  <2>2. CASE LowerQuote
    BY <2>2 DEF LowerQuote, CalleeInModule
  <2>3. CASE uses' = uses
    BY <2>3 DEF CalleeInModule
  <2>4. EndFuncall \/ LowerQuote \/ uses' = uses
    BY DEF Next, vars, Define, Lambda, FunBody, EndBody, Scope, EndScope,
           AddVariable, Funcall, While, WhileBody, EndWhile, Break, Continue,
           Jump, If, IfThen, IfElse, EndIf, Cond, CondBody, EndCond, Quote,
           Quasiunquote, EndQuasiquote, Include, EndInclude, CompilerError,
           Stop
  <2> QED BY <2>1, <2>2, <2>3, <2>4
<1> QED BY <1>1, <1>2, InitInv, StepInv, PTL DEF Spec
=============================================================================
