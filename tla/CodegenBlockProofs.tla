-------------------------- MODULE CodegenBlockProofs --------------------------
(***************************************************************************)
(* Proofs about the basic blocks that Codegen generates, and about loops.  *)
(*                                                                         *)
(* A block that has no terminator yet is either the one the builder stands *)
(* in or waits in the frame of exactly one form, which will put the        *)
(* builder there.  So a terminator always ends an open block, and when a   *)
(* function body is complete none of its blocks is left open.              *)
(***************************************************************************)
EXTENDS CodegenProofs, FiniteSetTheorems

\* The blocks that the form of a frame will still put the builder into.
IfWaiting(fr) == CASE fr.ph = "cond" -> {fr.ifblk, fr.elseblk, fr.afterif}
                   [] fr.ph = "then" -> {fr.elseblk, fr.afterif}
                   [] fr.ph = "else" -> {fr.afterif}
Waiting(fr) ==
  CASE fr.k = "body"  -> IF fr.prev = None THEN {} ELSE {fr.prev3}
    [] fr.k = "while" -> IF fr.ph = "cond" THEN {fr.loop, fr.after} ELSE {fr.after}
    [] fr.k = "if"    -> IfWaiting(fr)
    [] fr.k = "cond"  -> IF fr.ph = "body" THEN {fr.block2} ELSE {}
    [] OTHER          -> {}

Apart(fr) ==
  /\ fr.k = "while" => fr.loop # fr.after
  /\ fr.k = "if" => fr.elseblk # fr.afterif /\ fr.ifblk \notin {fr.elseblk, fr.afterif}

Current == IF curfn = None THEN {} ELSE {pos}
Blocks  == {b \in FunBlock : home[b[1]] # None /\ b[2] \in 1..nblk[b[1]]}

BlocksOK ==
  /\ \A b : b \in Blocks <=> \/ b \in term \/ b \in Current
                             \/ \E i \in 1..Len(stack) : b \in Waiting(stack[i])
  /\ \A b : b \in Current => b \notin term
  /\ \A i \in 1..Len(stack) :
       /\ \A b : b \in Waiting(stack[i]) => b \notin term /\ b \notin Current
       /\ Apart(stack[i])
  /\ \A i, j \in 1..Len(stack) : i # j =>
       \A b : b \in Waiting(stack[i]) => b \notin Waiting(stack[j])

-----------------------------------------------------------------------------
\* A step takes at most one frame off the stack and puts at most one on it.
Shape(n) == /\ n \in Nat
            /\ Len(stack) \in {n, n+1} /\ Len(stack') \in {n, n+1}
            /\ \A i \in 1..n : stack'[i] = stack[i]

LEMMA PutShape ==
  ASSUME TypeOK, stack' = stack
  PROVE  \E n \in Nat : n = Len(stack) /\ Shape(n) /\ Len(stack') = n
BY DEF TypeOK, Shape

LEMMA PushShape ==
  ASSUME TypeOK, NEW fr, stack' = Append(stack, fr)
  PROVE  \E n \in Nat : /\ n = Len(stack) /\ Shape(n)
                        /\ Len(stack') = n+1 /\ stack'[n+1] = fr
<1>1. stack \in Seq(Frame)
  BY DEF TypeOK
<1>2. PICK n \in Nat : n = Len(stack)
  BY <1>1
<1>3. Len(stack') = n+1 /\ stack'[n+1] = fr
  BY <1>1, <1>2
<1>4. \A i \in 1..n : stack'[i] = stack[i]
  BY <1>1, <1>2
<1> QED BY <1>2, <1>3, <1>4 DEF Shape

LEMMA PopShape ==
  ASSUME TypeOK, stack # << >>, Pop
  PROVE  \E n \in Nat : /\ Len(stack) = n+1 /\ Shape(n)
                        /\ Len(stack') = n /\ stack[n+1] = Top
<1>0. stack \in Seq(Frame)
  BY DEF TypeOK
<1>1. PICK n \in Nat : n = Len(stack) - 1
  BY <1>0
<1>2. Len(stack) = n+1 /\ Len(stack') = n /\ \A i \in 1..n : stack'[i] = stack[i]
  BY <1>0, <1>1, PopFacts DEF Pop
<1> QED BY <1>2 DEF Shape, Top

LEMMA RetopShape ==
  ASSUME TypeOK, stack # << >>, NEW fr \in Frame, Retop(fr)
  PROVE  \E n \in Nat : /\ Len(stack) = n+1 /\ Shape(n)
                        /\ Len(stack') = n+1 /\ stack'[n+1] = fr
                        /\ stack[n+1] = Top
<1>0. stack \in Seq(Frame)
  BY DEF TypeOK
<1>1. PICK n \in Nat : n = Len(stack) - 1
  BY <1>0
<1>2. /\ Len(stack) = n+1 /\ Len(stack') = n+1 /\ stack'[n+1] = fr
      /\ \A i \in 1..n : stack'[i] = stack[i]
  BY <1>0, <1>1, RetopFacts DEF Retop
<1> QED BY <1>2 DEF Shape, Top

-----------------------------------------------------------------------------
\* The frame that a step takes off the stack, or puts on it, in the (n+1)st
\* place: the blocks that wait there, if there is one.
Held(s, n) == IF Len(s) = n+1 THEN Waiting(s[n+1]) ELSE {}

\* A step may close the builder's block and make fresh ones; the others are
\* passed on between the builder and the frame.
Moves(n, closed, fresh) ==
  /\ Shape(n)
  /\ \A b : b \in closed => b \in Current
  /\ \A b : b \in fresh => b \notin Blocks
  /\ \A b : b \in Blocks' <=> b \in Blocks \/ b \in fresh
  /\ \A b : b \in term' <=> b \in term \/ b \in closed
  /\ \A b : b \in Current' \/ b \in Held(stack', n)
              <=> \/ b \in Current /\ b \notin closed
                  \/ b \in Held(stack, n) \/ b \in fresh
  /\ \A b : b \in Current' => b \notin Held(stack', n)
  /\ Len(stack') = n+1 => Apart(stack'[n+1])

LEMMA BlocksStep ==
  ASSUME BlocksOK, NEW n, NEW closed, NEW fresh, Moves(n, closed, fresh)
  PROVE  BlocksOK'
<1> USE DEF Moves
<1> DEFINE Below(b) == \E i \in 1..n : b \in Waiting(stack[i])
<1>1. \A b : (\E i \in 1..Len(stack) : b \in Waiting(stack[i]))
             <=> Below(b) \/ b \in Held(stack, n)
  BY DEF Shape, Held
<1>2. \A b : (\E i \in 1..Len(stack') : b \in Waiting(stack'[i]))
             <=> Below(b) \/ b \in Held(stack', n)
  BY DEF Shape, Held
<1>3. \A b : Below(b) => b \notin Held(stack, n)
  <2> SUFFICES ASSUME NEW b, NEW i \in 1..n, b \in Waiting(stack[i]),
                      Len(stack) = n+1, b \in Waiting(stack[n+1])
               PROVE  FALSE
    BY DEF Held
  <2>1. i \in 1..Len(stack) /\ n+1 \in 1..Len(stack) /\ i # n+1
    BY DEF Shape
  <2> QED BY <2>1 DEF BlocksOK
<1>4. \A b : /\ Below(b) \/ b \in Held(stack, n) => b \notin term /\ b \notin Current
             /\ b \in Current => b \notin term
             /\ b \in Blocks <=> b \in term \/ b \in Current \/ Below(b)
                                 \/ b \in Held(stack, n)
  BY <1>1 DEF BlocksOK
<1> HIDE DEF Below
<1>5. \A b : /\ b \in Blocks' <=> b \in term' \/ b \in Current' \/ Below(b)
                                  \/ b \in Held(stack', n)
             /\ Below(b) \/ b \in Held(stack', n) => b \notin term' /\ b \notin Current'
             /\ b \in Current' => b \notin term'
             /\ Below(b) => b \notin Held(stack', n)
  BY <1>3, <1>4
<1>6. \A i, j \in 1..Len(stack') : i # j =>
        \A b : b \in Waiting(stack'[i]) => b \notin Waiting(stack'[j])
  <2> SUFFICES ASSUME NEW i \in 1..Len(stack'), NEW j \in 1..Len(stack'), i # j,
                      NEW b, b \in Waiting(stack'[i]), b \in Waiting(stack'[j])
               PROVE  FALSE
    OBVIOUS
  <2>1. CASE i \in 1..n /\ j \in 1..n
    <3>1. i \in 1..Len(stack) /\ j \in 1..Len(stack)
      BY <2>1 DEF Shape
    <3>2. b \in Waiting(stack[i]) /\ b \in Waiting(stack[j])
      BY <2>1 DEF Shape
    <3> QED BY <3>1, <3>2 DEF BlocksOK
  <2>2. CASE i = n+1
    <3>1. j \in 1..n /\ b \in Held(stack', n)
      BY <2>2 DEF Shape, Held
    <3>2. Below(b)
      BY <3>1 DEF Below, Shape
    <3> QED BY <1>5, <3>1, <3>2
  <2>3. CASE j = n+1
    <3>1. i \in 1..n /\ b \in Held(stack', n)
      BY <2>3 DEF Shape, Held
    <3>2. Below(b)
      BY <3>1 DEF Below, Shape
    <3> QED BY <1>5, <3>1, <3>2
  <2> QED BY <2>1, <2>2, <2>3 DEF Shape
<1>7. \A i \in 1..Len(stack') : Apart(stack'[i])
  BY DEF Shape, BlocksOK
<1> QED BY <1>2, <1>5, <1>6, <1>7 DEF BlocksOK

\* A step that leaves all blocks alone.
LEMMA QuietStep ==
  ASSUME BlocksOK, NEW n \in Nat, Shape(n),
         UNCHANGED <<curfn, pos, home, nblk, term>>,
         Held(stack, n) = {}, Held(stack', n) = {},
         Len(stack') = n+1 => Apart(stack'[n+1])
  PROVE  BlocksOK'
<1>1. Blocks' = Blocks /\ Current' = Current /\ term' = term
  BY DEF Blocks, Current
<1>2. Moves(n, {}, {})
  BY <1>1 DEF Moves
<1> QED BY <1>2, BlocksStep

\* The blocks that a construct appends.
LEMMA FreshBlocks ==
  ASSUME IInv, curfn # None, NEW k \in Nat, AppendBlocks(k), home' = home
  PROVE  /\ \A i \in 1..k : NewBlock(i) \in FunBlock /\ NewBlock(i) \notin Blocks
         /\ \A b : b \in Blocks' <=> b \in Blocks \/ \E i \in 1..k : b = NewBlock(i)
         /\ \A i, j \in 1..k : NewBlock(i) = NewBlock(j) => i = j
<1>1. curfn \in Fun /\ home[curfn] # None /\ nblk \in [Fun -> Nat]
  BY CurrentFunction, NoneAssumption DEF IInv, TypeOK
<1>2. nblk' = [nblk EXCEPT ![curfn] = nblk[curfn] + k]
  BY DEF AppendBlocks
<1>3. PICK m \in Nat : m = nblk[curfn]
  BY <1>1
<1>4. \A i : NewBlock(i) = <<curfn, m + i>>
  BY <1>3 DEF NewBlock
<1>5. \A i \in 1..k : NewBlock(i) \in FunBlock /\ NewBlock(i) \notin Blocks
  BY <1>1, <1>3, <1>4 DEF FunBlock, Blocks
<1>6. \A i, j \in 1..k : NewBlock(i) = NewBlock(j) => i = j
  BY <1>4
<1>7. ASSUME NEW b \in Blocks' PROVE b \in Blocks \/ \E i \in 1..k : b = NewBlock(i)
  <2>1. PICK f \in Fun, j \in Nat : b = <<f, j>>
    BY DEF Blocks, FunBlock
  <2>2. CASE f = curfn
    <3>1. j \in 1..(m + k)
      BY <1>1, <1>2, <1>3, <2>1, <2>2 DEF Blocks
    <3>2. CASE j \in 1..m
      BY <1>1, <1>3, <2>1, <2>2, <3>2 DEF Blocks, FunBlock
    <3>3. CASE j \notin 1..m
      <4>1. j - m \in 1..k /\ m + (j - m) = j
        BY <3>1, <3>3
      <4> QED BY <1>4, <2>1, <2>2, <4>1
    <3> QED BY <3>2, <3>3
  <2>3. CASE f # curfn
    BY <1>1, <1>2, <2>1, <2>3 DEF Blocks, FunBlock
  <2> QED BY <2>2, <2>3
<1>8. ASSUME NEW b \in Blocks PROVE b \in Blocks'
  <2>1. PICK f \in Fun, j \in Nat : b = <<f, j>>
    BY DEF Blocks, FunBlock
  <2>2. j \in 1..nblk[f] /\ nblk[f] \in Nat /\ nblk'[f] \in Nat /\ nblk[f] <= nblk'[f]
    BY <1>1, <1>2, <2>1 DEF Blocks
  <2> QED BY <2>1, <2>2 DEF Blocks, FunBlock
<1>9. \A i \in 1..k : NewBlock(i) \in Blocks'
  BY <1>1, <1>2, <1>3, <1>4 DEF Blocks, FunBlock
<1> QED BY <1>5, <1>6, <1>7, <1>8, <1>9

LEMMA SameBlocks ==
  ASSUME home' = home, nblk' = nblk
  PROVE  Blocks' = Blocks
BY DEF Blocks

-----------------------------------------------------------------------------
LEMMA FunBodyBlocks ==
  ASSUME IInv, BlocksOK, NEW f \in Fun, NEW same \in BOOLEAN,
         same => curfn # None, FunBody(f, same)
  PROVE  BlocksOK'
<1> DEFINE fr == [k |-> "body", f |-> f, same_mod |-> same, old |-> mod,
                  prev |-> curfn, prev3 |-> pos]
           new == <<f, 1>>
<1>1. TypeOK /\ stack' = Append(stack, fr) /\ home[f] = None
  BY DEF FunBody, Push, IInv
<1>2. PICK n \in Nat : /\ n = Len(stack) /\ Shape(n)
                       /\ Len(stack') = n+1 /\ stack'[n+1] = fr
  BY <1>1, PushShape
<1>3. Held(stack, n) = {} /\ Held(stack', n) = Current
  BY <1>2 DEF Held, Waiting, Current
<1>4. mod' \in Fun /\ home' = [home EXCEPT ![f] = mod'] /\ nblk' = [nblk EXCEPT ![f] = 1]
  BY CurrentFunction DEF FunBody
<1>5. new \notin Blocks /\ new \in FunBlock
  BY <1>1 DEF Blocks, FunBlock
<1>6. \A b : b \in Blocks' <=> b \in Blocks \/ b \in {new}
  <2>1. \A b \in FunBlock : b[1] # f => (b \in Blocks' <=> b \in Blocks)
    BY <1>1, <1>4 DEF Blocks, FunBlock, TypeOK
  <2>2. \A b \in FunBlock : b[1] = f => b \notin Blocks
    BY <1>1 DEF Blocks
  <2>3. \A b \in FunBlock : b[1] = f => (b \in Blocks' <=> b = new)
    <3>1. home'[f] # None /\ nblk'[f] = 1
      BY <1>1, <1>4, NoneAssumption DEF TypeOK
    <3>2. \A j \in Nat : j \in 1..1 <=> j = 1
      OBVIOUS
    <3> QED BY <3>1, <3>2 DEF Blocks, FunBlock
  <2> QED BY <1>5, <2>1, <2>2, <2>3 DEF Blocks
<1>7. Current' = {new} /\ term' = term
  BY NoneAssumption DEF FunBody, Current, genvars
<1>8. \A b : b \in Current => b \in Blocks
  BY DEF BlocksOK
<1> HIDE DEF new
<1>9. Apart(stack'[n+1])
  BY <1>2 DEF Apart
<1>10. Moves(n, {}, {new})
  BY <1>2, <1>3, <1>5, <1>6, <1>7, <1>8, <1>9 DEF Moves
<1> QED BY <1>10, BlocksStep

LEMMA EndBodyBlocks ==
  ASSUME IInv, BlocksOK, EndBody
  PROVE  BlocksOK'
<1>1. TypeOK /\ stack # << >> /\ Top.k = "body" /\ Pop
  BY DEF EndBody, Closing, IInv
<1>2. PICK n \in Nat : /\ Len(stack) = n+1 /\ Shape(n)
                       /\ Len(stack') = n /\ stack[n+1] = Top
  BY <1>1, PopShape
<1>3. SavesContext(Top) /\ Innermost(stack, Len(stack), Top.f)
  BY <1>1, <1>2 DEF IInv, FramesOK, FrameOK, Innermost
<1>4. curfn # None
  BY <1>1, <1>2, <1>3, CurrentFunction, BodyStarted, NoneAssumption
<1>5. Held(stack', n) = {}
  BY <1>2 DEF Held
<1>6. Current' = Held(stack, n)
  <2>1. Held(stack, n) = IF Top.prev = None THEN {} ELSE {Top.prev3}
    BY <1>1, <1>2 DEF Held, Waiting
  <2>2. Top.prev # None => Top.prev3[1] # None
    BY <1>3, NoneAssumption DEF SavesContext, BlockOf
  <2> QED BY <2>1, <2>2 DEF EndBody, RestoredPos, Current
<1>7. Current = {pos} /\ term' = term \cup Current /\ Blocks' = Blocks
  BY <1>4, SameBlocks DEF Current, EndBody, Terminate
<1>8. Moves(n, Current, {})
  BY <1>2, <1>5, <1>6, <1>7 DEF Moves
<1> QED BY <1>8, BlocksStep

-----------------------------------------------------------------------------
\* The constructs of def.dlr.
LEMMA ThreeBlocks ==
  ASSUME IInv, curfn # None, AppendBlocks(3), home' = home
  PROVE  \E b1, b2, b3 \in FunBlock :
           /\ b1 = NewBlock(1) /\ b2 = NewBlock(2) /\ b3 = NewBlock(3)
           /\ b1 # b2 /\ b1 # b3 /\ b2 # b3
           /\ \A b : b \in {b1, b2, b3} => b \notin Blocks
           /\ \A b : b \in Blocks' <=> b \in Blocks \/ b \in {b1, b2, b3}
<1>1. /\ \A i \in 1..3 : NewBlock(i) \in FunBlock /\ NewBlock(i) \notin Blocks
      /\ \A b : b \in Blocks' <=> b \in Blocks \/ \E i \in 1..3 : b = NewBlock(i)
      /\ \A i, j \in 1..3 : NewBlock(i) = NewBlock(j) => i = j
  BY FreshBlocks
<1>2. PICK b1, b2, b3 :
        b1 = NewBlock(1) /\ b2 = NewBlock(2) /\ b3 = NewBlock(3)
  OBVIOUS
<1>3. /\ b1 \in FunBlock /\ b2 \in FunBlock /\ b3 \in FunBlock
      /\ b1 \notin Blocks /\ b2 \notin Blocks /\ b3 \notin Blocks
      /\ b1 # b2 /\ b1 # b3 /\ b2 # b3
  BY <1>1, <1>2
<1>4. \A b : (\E i \in 1..3 : b = NewBlock(i)) <=> b \in {b1, b2, b3}
  <2>1. \A i : i \in 1..3 <=> i = 1 \/ i = 2 \/ i = 3
    OBVIOUS
  <2> QED BY <1>2, <2>1, Zenon
<1>5. \A b : b \in Blocks' <=> b \in Blocks \/ b \in {b1, b2, b3}
  BY <1>1, <1>4
<1> QED BY <1>2, <1>3, <1>5

LEMMA WhileBlocks == ASSUME IInv, BlocksOK, While PROVE BlocksOK'
<1>1. /\ curfn # None /\ AppendBlocks(3) /\ curfn' = curfn /\ home' = home
      /\ pos' = NewBlock(1) /\ Terminate({NewBlock(1)})
  BY DEF While, Emits
<1>2. PICK b1, b2, b3 \in FunBlock :
        /\ b1 = NewBlock(1) /\ b2 = NewBlock(2) /\ b3 = NewBlock(3)
        /\ b1 # b2 /\ b1 # b3 /\ b2 # b3
        /\ \A b : b \in {b1, b2, b3} => b \notin Blocks
        /\ \A b : b \in Blocks' <=> b \in Blocks \/ b \in {b1, b2, b3}
  BY <1>1, ThreeBlocks
<1> DEFINE fr == [k |-> "while", ph |-> "cond", cond |-> b1, loop |-> b2,
                  after |-> b3, last |-> loop]
<1>3. stack' = Append(stack, fr) /\ TypeOK
  BY <1>2 DEF While, Push, IInv
<1>4. PICK n \in Nat : /\ n = Len(stack) /\ Shape(n)
                       /\ Len(stack') = n+1 /\ stack'[n+1] = fr
  BY <1>3, PushShape
<1>5. Held(stack, n) = {} /\ Held(stack', n) = {b2, b3} /\ Apart(stack'[n+1])
  BY <1>2, <1>4 DEF Held, Waiting, Apart
<1>6. Current = {pos} /\ Current' = {b1} /\ term' = term \cup {pos}
  BY <1>1, <1>2 DEF Current, Terminate
<1>7. Moves(n, Current, {b1, b2, b3})
  BY <1>2, <1>4, <1>5, <1>6 DEF Moves
<1> QED BY <1>7, BlocksStep

LEMMA WhileBodyBlocks == ASSUME IInv, BlocksOK, WhileBody PROVE BlocksOK'
<1>1. /\ stack # << >> /\ Top.k = "while" /\ Top.ph = "cond"
      /\ curfn' = curfn /\ home' = home /\ nblk' = nblk
      /\ pos' = Top.loop /\ Terminate({Top.loop, Top.after})
      /\ Retop([Top EXCEPT !.ph = "body", !.last = SavedLoop])
  BY DEF WhileBody, InPhase, Closing
<1>2. curfn # None /\ Top \in WhileFrame /\ TypeOK
  BY <1>1, TopBlocks DEF IInv
<1>3. PICK fr \in Frame : /\ fr = [Top EXCEPT !.ph = "body", !.last = SavedLoop]
                          /\ fr.k = "while" /\ fr.ph = "body"
                          /\ fr.loop = Top.loop /\ fr.after = Top.after
  <2>1. [Top EXCEPT !.ph = "body", !.last = SavedLoop] \in WhileFrame
    BY <1>2 DEF WhileFrame, SavedLoop, TypeOK
  <2>2. PICK fr : fr = [Top EXCEPT !.ph = "body", !.last = SavedLoop]
    OBVIOUS
  <2>3. /\ fr.k = "while" /\ fr.ph = "body"
        /\ fr.loop = Top.loop /\ fr.after = Top.after
    BY <1>2, <2>2 DEF WhileFrame
  <2> QED BY <2>1, <2>2, <2>3 DEF Frame
<1>4. PICK n \in Nat : /\ Len(stack) = n+1 /\ Shape(n)
                       /\ Len(stack') = n+1 /\ stack'[n+1] = fr
                       /\ stack[n+1] = Top
  BY <1>1, <1>2, <1>3, RetopShape
<1>5. /\ Held(stack, n) = {Top.loop, Top.after} /\ Held(stack', n) = {Top.after}
      /\ Apart(Top)
  BY <1>1, <1>3, <1>4 DEF Held, Waiting, BlocksOK
<1>6. /\ Current = {pos} /\ Current' = {Top.loop} /\ term' = term \cup {pos}
      /\ Blocks' = Blocks
  BY <1>1, <1>2, SameBlocks DEF Current, Terminate
<1>7. Top.loop # Top.after /\ Apart(stack'[n+1])
  BY <1>1, <1>3, <1>4, <1>5 DEF Apart
<1>8. Moves(n, Current, {})
  BY <1>4, <1>5, <1>6, <1>7 DEF Moves
<1> QED BY <1>8, BlocksStep

\* while, if and cond end in the last block they hold.
LEMMA CloseBlocks ==
  ASSUME IInv, BlocksOK, EndWhile \/ EndIf \/ EndCond
  PROVE  BlocksOK'
<1>1. /\ stack # << >> /\ Top.k \in {"while", "if", "cond"} /\ Pop
      /\ curfn' = curfn /\ home' = home /\ nblk' = nblk
      /\ Waiting(Top) = {pos'} /\ term' = term \cup {pos}
  BY DEF EndWhile, EndIf, EndCond, InPhase, Closing, Waiting, IfWaiting,
         Terminate
<1>2. curfn # None /\ TypeOK
  BY <1>1, TopBlocks DEF IInv
<1>3. PICK n \in Nat : /\ Len(stack) = n+1 /\ Shape(n)
                       /\ Len(stack') = n /\ stack[n+1] = Top
  BY <1>1, <1>2, PopShape
<1>4. Held(stack, n) = {pos'} /\ Held(stack', n) = {}
  BY <1>1, <1>3 DEF Held
<1>5. Current = {pos} /\ Current' = {pos'} /\ Blocks' = Blocks
  BY <1>1, <1>2, SameBlocks DEF Current
<1>6. Moves(n, Current, {})
  BY <1>1, <1>3, <1>4, <1>5 DEF Moves
<1> QED BY <1>6, BlocksStep

LEMMA JumpBlocks ==
  ASSUME IInv, BlocksOK, NEW target, Jump(target)
  PROVE  BlocksOK'
<1>1. PICK n \in Nat : n = Len(stack) /\ Shape(n) /\ Len(stack') = n
  BY PutShape DEF IInv, Jump
<1>2. Held(stack, n) = {} /\ Held(stack', n) = {}
  BY <1>1 DEF Held
<1>3. CASE ~InLoop
  BY <1>1, <1>2, <1>3, QuietStep DEF Jump
<1>4. CASE InLoop
  <2>1. /\ curfn # None /\ AppendBlocks(1) /\ curfn' = curfn /\ home' = home
        /\ pos' = NewBlock(1) /\ term' = term \cup {pos}
    BY <1>4 DEF Jump, Emits, DeadBlock, Terminate
  <2>2. PICK new : new = NewBlock(1)
    OBVIOUS
  <2>3. /\ new \notin Blocks
        /\ \A b : b \in Blocks' <=> b \in Blocks \/ b \in {new}
    <3>1. \A i : i \in 1..1 <=> i = 1
      OBVIOUS
    <3>2. /\ \A i \in 1..1 : NewBlock(i) \notin Blocks
          /\ \A b : b \in Blocks' <=> b \in Blocks \/ \E i \in 1..1 : b = NewBlock(i)
      BY <2>1, FreshBlocks
    <3>3. \A b : (\E i \in 1..1 : b = NewBlock(i)) <=> b = new
      BY <2>2, <3>1, Zenon
    <3> QED BY <2>2, <3>1, <3>2, <3>3
  <2>4. Current = {pos} /\ Current' = {new}
    BY <2>1, <2>2 DEF Current
  <2>5. Moves(n, Current, {new})
    BY <1>1, <1>2, <2>1, <2>3, <2>4 DEF Moves
  <2> QED BY <2>5, BlocksStep
<1> QED BY <1>3, <1>4

LEMMA IfBlocks == ASSUME IInv, BlocksOK, If PROVE BlocksOK'
<1>1. /\ curfn # None /\ AppendBlocks(3) /\ curfn' = curfn /\ home' = home
      /\ pos' = pos /\ term' = term
  BY DEF If, Emits, genvars
<1>2. PICK b1, b2, b3 \in FunBlock :
        /\ b1 = NewBlock(1) /\ b2 = NewBlock(2) /\ b3 = NewBlock(3)
        /\ b1 # b2 /\ b1 # b3 /\ b2 # b3
        /\ \A b : b \in {b1, b2, b3} => b \notin Blocks
        /\ \A b : b \in Blocks' <=> b \in Blocks \/ b \in {b1, b2, b3}
  BY <1>1, ThreeBlocks
<1> DEFINE fr == [k |-> "if", ph |-> "cond", ifblk |-> b1, elseblk |-> b2,
                  afterif |-> b3]
<1>3. stack' = Append(stack, fr) /\ TypeOK
  BY <1>2 DEF If, Push, IInv
<1>4. PICK n \in Nat : /\ n = Len(stack) /\ Shape(n)
                       /\ Len(stack') = n+1 /\ stack'[n+1] = fr
  BY <1>3, PushShape
<1>5. Held(stack, n) = {} /\ Held(stack', n) = {b1, b2, b3} /\ Apart(stack'[n+1])
  BY <1>2, <1>4 DEF Held, Waiting, IfWaiting, Apart
<1>6. Current' = Current /\ \A b : b \in Current => b \in Blocks
  BY <1>1 DEF Current, BlocksOK
<1>7. Moves(n, {}, {b1, b2, b3})
  BY <1>1, <1>2, <1>4, <1>5, <1>6 DEF Moves
<1> QED BY <1>7, BlocksStep

LEMMA IfBranchBlocks ==
  ASSUME IInv, BlocksOK, IfThen \/ IfElse
  PROVE  BlocksOK'
<1>1. PICK ph \in {"then", "else"} :
        /\ stack # << >> /\ Top.k = "if" /\ Retop([Top EXCEPT !.ph = ph])
        /\ curfn' = curfn /\ home' = home /\ nblk' = nblk
        /\ term' = term \cup {pos}
        /\ IF ph = "then" THEN Top.ph = "cond" /\ pos' = Top.ifblk
                          ELSE Top.ph = "then" /\ pos' = Top.elseblk
  BY DEF IfThen, IfElse, InPhase, Closing, Terminate
<1>2. curfn # None /\ Top \in IfFrame /\ TypeOK
  BY <1>1, TopBlocks DEF IInv
<1>3. PICK fr \in Frame :
        /\ fr = [Top EXCEPT !.ph = ph] /\ fr.k = "if" /\ fr.ph = ph
        /\ fr.ifblk = Top.ifblk /\ fr.elseblk = Top.elseblk
        /\ fr.afterif = Top.afterif
  <2>1. [Top EXCEPT !.ph = ph] \in IfFrame
    BY <1>2 DEF IfFrame
  <2> QED BY <1>2, <2>1 DEF Frame, IfFrame
<1>4. PICK n \in Nat : /\ Len(stack) = n+1 /\ Shape(n)
                       /\ Len(stack') = n+1 /\ stack'[n+1] = fr
                       /\ stack[n+1] = Top
  BY <1>1, <1>2, <1>3, RetopShape
<1>5. Current = {pos} /\ Current' = {pos'} /\ Blocks' = Blocks
  BY <1>1, <1>2, SameBlocks DEF Current
<1>6. /\ Top.elseblk # Top.afterif /\ Top.ifblk \notin {Top.elseblk, Top.afterif}
      /\ Apart(stack'[n+1])
  <2>1. Apart(Top)
    BY <1>4 DEF BlocksOK
  <2> QED BY <1>1, <1>3, <1>4, <2>1 DEF Apart
<1>7. /\ \A b : b \in Held(stack, n) <=> b \in Held(stack', n) \/ b = pos'
      /\ pos' \notin Held(stack', n)
  <2>1. Held(stack, n) = IfWaiting(Top) /\ Held(stack', n) = IfWaiting(fr)
    BY <1>1, <1>3, <1>4 DEF Held, Waiting
  <2>2. CASE ph = "then"
    BY <1>1, <1>3, <1>6, <2>1, <2>2 DEF IfWaiting
  <2>3. CASE ph = "else"
    BY <1>1, <1>3, <1>6, <2>1, <2>3 DEF IfWaiting
  <2> QED BY <2>2, <2>3
<1>8. Moves(n, Current, {})
  BY <1>1, <1>4, <1>5, <1>6, <1>7 DEF Moves
<1> QED BY <1>8, BlocksStep

LEMMA CondBlocks == ASSUME IInv, BlocksOK, CondBody PROVE BlocksOK'
<1>1. /\ stack # << >> /\ Top.k = "cond" /\ Top.ph = "test" /\ AppendBlocks(2)
      /\ curfn' = curfn /\ home' = home /\ pos' = NewBlock(1)
      /\ term' = term \cup {pos}
  BY DEF CondBody, InPhase, Closing, Terminate
<1>2. curfn # None /\ TypeOK
  BY <1>1, TopBlocks DEF IInv
<1>3. PICK b1, b2 : b1 = NewBlock(1) /\ b2 = NewBlock(2)
  OBVIOUS
<1>4. /\ \A i \in 1..2 : NewBlock(i) \in FunBlock /\ NewBlock(i) \notin Blocks
      /\ \A b : b \in Blocks' <=> b \in Blocks \/ \E i \in 1..2 : b = NewBlock(i)
      /\ \A i, j \in 1..2 : NewBlock(i) = NewBlock(j) => i = j
  BY <1>1, <1>2, FreshBlocks
<1>5. /\ b1 # b2 /\ b2 \in FunBlock
      /\ \A b : b \in {b1, b2} => b \notin Blocks
  BY <1>3, <1>4
<1>6. \A b : (\E i \in 1..2 : b = NewBlock(i)) <=> b \in {b1, b2}
  <2>1. \A i : i \in 1..2 <=> i = 1 \/ i = 2
    OBVIOUS
  <2> QED BY <1>3, <2>1, Zenon
<1>7. PICK fr \in Frame : fr = [k |-> "cond", ph |-> "body", block2 |-> b2]
  BY <1>5 DEF Frame, CondFrame, Block
<1>8. PICK n \in Nat : /\ Len(stack) = n+1 /\ Shape(n)
                       /\ Len(stack') = n+1 /\ stack'[n+1] = fr
                       /\ stack[n+1] = Top
  <2>1. Retop(fr)
    BY <1>3, <1>7 DEF CondBody
  <2> QED BY <1>1, <1>2, <2>1, RetopShape
<1>9. Held(stack, n) = {} /\ Held(stack', n) = {b2} /\ Apart(stack'[n+1])
  BY <1>1, <1>7, <1>8 DEF Held, Waiting, Apart
<1>10. Current = {pos} /\ Current' = {b1}
  BY <1>1, <1>2, <1>3 DEF Current
<1>11. Moves(n, Current, {b1, b2})
  BY <1>1, <1>4, <1>5, <1>6, <1>8, <1>9, <1>10 DEF Moves
<1> QED BY <1>11, BlocksStep

-----------------------------------------------------------------------------
\* The other forms push or pop a frame in which no block waits.
LEMMA OtherBlocks ==
  ASSUME IInv, BlocksOK, UNCHANGED <<curfn, pos, home, nblk, term>>,
         \/ stack' = stack
         \/ stack # << >> /\ Pop /\ Waiting(Top) = {}
         \/ \E fr : stack' = Append(stack, fr) /\ Waiting(fr) = {} /\ Apart(fr)
  PROVE  BlocksOK'
<1>0. TypeOK
  BY DEF IInv
<1>1. CASE stack' = stack
  <2>1. PICK n \in Nat : n = Len(stack) /\ Shape(n) /\ Len(stack') = n
    BY <1>0, <1>1, PutShape
  <2> QED BY <2>1, QuietStep DEF Held
<1>2. CASE stack # << >> /\ Pop /\ Waiting(Top) = {}
  <2>1. PICK n \in Nat : /\ Len(stack) = n+1 /\ Shape(n)
                         /\ Len(stack') = n /\ stack[n+1] = Top
    BY <1>0, <1>2, PopShape
  <2> QED BY <1>2, <2>1, QuietStep DEF Held
<1>3. ASSUME NEW fr, stack' = Append(stack, fr), Waiting(fr) = {}, Apart(fr)
      PROVE  BlocksOK'
  <2>1. PICK n \in Nat : /\ n = Len(stack) /\ Shape(n)
                         /\ Len(stack') = n+1 /\ stack'[n+1] = fr
    BY <1>0, <1>3, PushShape
  <2> QED BY <1>3, <2>1, QuietStep DEF Held
<1> QED BY <1>1, <1>2, <1>3

LEMMA InitBlocks == Init => BlocksOK
<1> SUFFICES ASSUME Init PROVE BlocksOK
  OBVIOUS
<1>1. Blocks = {} /\ Current = {} /\ term = {}
  BY DEF Init, Blocks, Current, FunBlock
<1>2. 1..Len(stack) = {}
  BY DEF Init
<1> QED BY <1>1, <1>2 DEF BlocksOK

LEMMA StepBlocks == IInv /\ BlocksOK /\ [Next]_vars => BlocksOK'
<1> SUFFICES ASSUME IInv, BlocksOK, [Next]_vars PROVE BlocksOK'
  OBVIOUS
<1>1. ASSUME NEW f \in Fun, Define(f) \/ Lambda(f) PROVE BlocksOK'
  BY <1>1, FunBodyBlocks DEF Define, Lambda, Emits
<1>2. CASE EndBody
  BY <1>2, EndBodyBlocks
<1>3. CASE While \/ WhileBody
  BY <1>3, WhileBlocks, WhileBodyBlocks
<1>4. CASE EndWhile \/ EndIf \/ EndCond
  BY <1>4, CloseBlocks
<1>5. CASE Break \/ Continue
  BY <1>5, JumpBlocks DEF Break, Continue
<1>6. CASE If \/ IfThen \/ IfElse
  BY <1>6, IfBlocks, IfBranchBlocks
<1>7. CASE CondBody
  BY <1>7, CondBlocks
<1>8. CASE Scope \/ Funcall \/ Cond \/ Quasiunquote
           \/ (\E quasi \in BOOLEAN : Quote(quasi))
           \/ \E so \in BOOLEAN : Include(so)
  <2>1. UNCHANGED <<curfn, pos, home, nblk, term>>
    BY <1>8 DEF Scope, Funcall, Cond, Quote, Quasiunquote, Include, genvars
  <2>2. \E fr : stack' = Append(stack, fr) /\ Waiting(fr) = {} /\ Apart(fr)
    <3>1. PICK fr : /\ stack' = Append(stack, fr)
                    /\ \/ fr.k \in {"scope", "call", "quote", "unquote", "include"}
                       \/ fr.k = "cond" /\ fr.ph = "test"
      <4>1. CASE Scope
        BY <4>1 DEF Scope, Push
      <4>2. CASE Funcall
        BY <4>2 DEF Funcall, Push
      <4>3. CASE Cond
        BY <4>3 DEF Cond, Push
      <4>4. CASE Quasiunquote
        BY <4>4 DEF Quasiunquote, Push
      <4>5. CASE \E quasi \in BOOLEAN : Quote(quasi)
        BY <4>5 DEF Quote, Push
      <4>6. CASE \E so \in BOOLEAN : Include(so)
        BY <4>6 DEF Include, Push
      <4> QED BY <1>8, <4>1, <4>2, <4>3, <4>4, <4>5, <4>6
    <3> QED BY <3>1 DEF Waiting, Apart
  <2> QED BY <2>1, <2>2, OtherBlocks
<1>9. CASE EndScope \/ EndFuncall \/ EndInclude
           \/ \E kind \in {"quote", "unquote"} : EndQuasiquote(kind)
  <2>1. UNCHANGED <<curfn, pos, home, nblk, term>>
    BY <1>9 DEF EndScope, EndFuncall, EndQuasiquote, EndInclude, genvars
  <2>2. stack # << >> /\ Pop /\ Waiting(Top) = {}
    BY <1>9 DEF EndScope, EndFuncall, EndQuasiquote, EndInclude, Closing, Waiting
  <2> QED BY <2>1, <2>2, OtherBlocks
<1>10. CASE (\E v \in Var : AddVariable(v)) \/ LowerQuote \/ CompilerError \/ Stop
            \/ UNCHANGED vars
  BY <1>10, OtherBlocks
     DEF AddVariable, LowerQuote, CompilerError, Stop, vars, genvars
<1> QED BY <1>1, <1>2, <1>3, <1>4, <1>5, <1>6, <1>7, <1>8, <1>9, <1>10 DEF Next

\* Code is never emitted behind a terminator, however loops, branches, jumps
\* and nested functions follow each other (def.dlr, fun.c:294-346).
THEOREM BuilderOpen == Spec => []BuilderBlockOpen
<1>1. BlocksOK => BuilderBlockOpen
  BY DEF BlocksOK, BuilderBlockOpen, Current
<1> QED BY <1>1, InitInv, StepInv, InitBlocks, StepBlocks, PTL DEF Spec

-----------------------------------------------------------------------------
\* A block waits only in a frame above its own function's.
LEMMA Compiling ==
  ASSUME NEW n \in 0..Len(stack), NEW f, f # None, Innermost(stack, n, f)
  PROVE  f \in UnderCompilation
<1>1. PICK i \in 1..n : stack[i].k = "body" /\ stack[i].f = f
  BY DEF Innermost
<1>2. i \in 1..Len(stack)
  BY <1>1
<1> QED BY <1>1, <1>2 DEF UnderCompilation

LEMMA WaitingOwner ==
  ASSUME IInv, NEW i \in 1..Len(stack), NEW b, b \in Waiting(stack[i])
  PROVE  b[1] \in UnderCompilation
<1>1. PICK fr \in Frame : fr = stack[i]
  BY DEF IInv, TypeOK
<1>2. FrameOK(stack, i) /\ i-1 \in 0..Len(stack)
  BY DEF IInv, FramesOK, TypeOK
<1>3. CASE fr.k = "body"
  <2>1. fr.prev # None /\ b = fr.prev3
    BY <1>1, <1>3 DEF Waiting
  <2>2. Innermost(stack, i-1, fr.prev) /\ b[1] = fr.prev
    BY <1>1, <1>2, <1>3, <2>1 DEF FrameOK, SavesContext, BlockOf
  <2> QED BY <1>2, <2>1, <2>2, Compiling
<1>4. CASE fr.k # "body"
  <2>1. fr.k \in {"while", "if", "cond"}
    BY <1>1, <1>4 DEF Waiting
  <2>2. PICK g \in Fun : Innermost(stack, i-1, g) /\ LocalsOf(fr, g)
    BY <1>1, <1>2, <2>1 DEF FrameOK, InFunction
  <2>3. b[1] = g
    <3>1. CASE fr.k = "while"
      BY <1>1, <2>2, <3>1 DEF Waiting, LocalsOf, BlockOf
    <3>2. CASE fr.k = "if"
      <4>1. b \in {fr.ifblk, fr.elseblk, fr.afterif}
        <5>1. fr.ph \in {"cond", "then", "else"}
          BY <1>1, <3>2, FrameKinds DEF IfFrame
        <5> QED BY <1>1, <3>2, <5>1 DEF Waiting, IfWaiting
      <4> QED BY <2>2, <3>2, <4>1 DEF LocalsOf, BlockOf
    <3>3. CASE fr.k = "cond"
      BY <1>1, <2>2, <3>3 DEF Waiting, LocalsOf, BlockOf
    <3> QED BY <2>1, <3>1, <3>2, <3>3
  <2> QED BY <1>2, <2>2, <2>3, NoneAssumption, Compiling
<1> QED BY <1>3, <1>4

\* When a function body is complete, all of its blocks have a terminator: no
\* path through the macros of def.dlr forgets a block it has appended.
THEOREM FinishedTerminated == Spec => []FinishedIsTerminated
<1>1. ASSUME IInv, BlocksOK PROVE FinishedIsTerminated
  <2> SUFFICES ASSUME NEW f \in Fun, home[f] # None, f \notin UnderCompilation,
                      NEW i \in 1..nblk[f]
               PROVE  <<f, i>> \in term
    BY DEF FinishedIsTerminated
  <2>1. PICK b : b = <<f, i>>
    OBVIOUS
  <2>2. b \in Blocks /\ b[1] = f
    BY <1>1, <2>1 DEF Blocks, FunBlock, IInv, TypeOK
  <2>3. b \notin Current
    <3>1. ASSUME b \in Current PROVE FALSE
      <4>1. curfn # None /\ b = pos
        BY <3>1 DEF Current
      <4>2. Innermost(stack, Len(stack), curfn) /\ pos[1] = curfn
        BY <1>1, <4>1 DEF IInv, ContextAgrees, BlockOf
      <4>3. Len(stack) \in 0..Len(stack)
        BY <1>1 DEF IInv, TypeOK
      <4> QED BY <2>2, <4>1, <4>2, <4>3, Compiling
    <3> QED BY <3>1
  <2>4. \A j \in 1..Len(stack) : b \notin Waiting(stack[j])
    BY <1>1, <2>2, WaitingOwner
  <2> QED BY <1>1, <2>1, <2>2, <2>3, <2>4 DEF BlocksOK
<1> QED BY <1>1, InitInv, StepInv, InitBlocks, StepBlocks, PTL DEF Spec

-----------------------------------------------------------------------------
(***************************************************************************)
(* What Codegen saves and restores around loops, files and scopes:         *)
(* wherever a form stands, the globals describe the innermost loop and     *)
(* file around it, and a function's chain holds its open scopes.           *)
(***************************************************************************)

\* A step only takes off, puts on or exchanges a frame of one kind.
Alters(n, kind) == /\ Shape(n)
                   /\ Len(stack) = n+1 => stack[n+1].k = kind
                   /\ Len(stack') = n+1 => stack'[n+1].k = kind

LEMMA AltersPut ==
  ASSUME TypeOK, stack' = stack, NEW kind
  PROVE  \E n : Alters(n, kind)
<1>1. PICK n \in Nat : n = Len(stack) /\ Shape(n) /\ Len(stack') = n
  BY PutShape
<1> QED BY <1>1 DEF Alters

LEMMA AltersPush ==
  ASSUME TypeOK, NEW fr, stack' = Append(stack, fr)
  PROVE  \E n : Alters(n, fr.k)
<1>1. PICK n \in Nat : /\ n = Len(stack) /\ Shape(n)
                       /\ Len(stack') = n+1 /\ stack'[n+1] = fr
  BY PushShape
<1> QED BY <1>1 DEF Alters

LEMMA AltersPop ==
  ASSUME TypeOK, stack # << >>, Pop
  PROVE  \E n : Alters(n, Top.k)
<1>1. PICK n \in Nat : /\ Len(stack) = n+1 /\ Shape(n)
                       /\ Len(stack') = n /\ stack[n+1] = Top
  BY PopShape
<1> QED BY <1>1 DEF Alters

LEMMA AltersRetop ==
  ASSUME TypeOK, stack # << >>, NEW fr \in Frame, Retop(fr), fr.k = Top.k
  PROVE  \E n : Alters(n, Top.k)
<1>1. PICK n \in Nat : /\ Len(stack) = n+1 /\ Shape(n)
                       /\ Len(stack') = n+1 /\ stack'[n+1] = fr
                       /\ stack[n+1] = Top
  BY RetopShape
<1> QED BY <1>1 DEF Alters

WhileStep == While \/ WhileBody \/ EndWhile
FileStep  == (\E so \in BOOLEAN : Include(so)) \/ EndInclude
ScopeStep == Scope \/ EndScope
BodyStep  == EndBody \/ \E f \in Fun : Define(f) \/ Lambda(f)

\* Of the forms that matter here, each has its own actions.
LEMMA StepAlters ==
  ASSUME IInv, [Next]_vars, ~WhileStep, ~FileStep, ~ScopeStep, ~BodyStep
  PROVE  \E n, kind : /\ Alters(n, kind)
                      /\ kind \notin {"while", "include", "scope", "body"}
<1>0. TypeOK
  BY DEF IInv
<1>1. CASE stack' = stack
  <2>1. \E n : Alters(n, "call")
    BY <1>0, <1>1, AltersPut
  <2> QED BY <2>1
<1>2. ASSUME NEW fr, stack' = Append(stack, fr),
             fr.k \notin {"while", "include", "scope", "body"}
      PROVE  \E n, kind : /\ Alters(n, kind)
                          /\ kind \notin {"while", "include", "scope", "body"}
  <2>1. \E n : Alters(n, fr.k)
    BY <1>0, <1>2, AltersPush
  <2> QED BY <1>2, <2>1
<1>3. CASE stack # << >> /\ Pop /\ Top.k \notin {"while", "include", "scope", "body"}
  <2>1. \E n : Alters(n, Top.k)
    BY <1>0, <1>3, AltersPop
  <2> QED BY <1>3, <2>1
<1>4. ASSUME NEW fr \in Frame, stack # << >>, Retop(fr), fr.k = Top.k,
             Top.k \in {"if", "cond"}
      PROVE  \E n, kind : /\ Alters(n, kind)
                          /\ kind \notin {"while", "include", "scope", "body"}
  <2>1. \E n : Alters(n, Top.k)
    BY <1>0, <1>4, AltersRetop
  <2> QED BY <1>4, <2>1
<1>5. CASE \/ \E v \in Var : AddVariable(v)
           \/ Break \/ Continue \/ LowerQuote \/ CompilerError \/ Stop
           \/ UNCHANGED vars
  BY <1>1, <1>5 DEF AddVariable, Break, Continue, Jump, LowerQuote,
                    CompilerError, Stop, vars
<1>6. CASE Funcall
  BY <1>2, <1>6 DEF Funcall, Push
<1>7. CASE If
  BY <1>2, <1>7 DEF If, Push
<1>8. CASE Cond
  BY <1>2, <1>8 DEF Cond, Push
<1>9. CASE \E quasi \in BOOLEAN : Quote(quasi)
  BY <1>2, <1>9 DEF Quote, Push
<1>10. CASE Quasiunquote
  BY <1>2, <1>10 DEF Quasiunquote, Push
<1>11. CASE \/ EndFuncall \/ EndIf \/ EndCond
            \/ \E kind \in {"quote", "unquote"} : EndQuasiquote(kind)
  BY <1>3, <1>11 DEF EndFuncall, EndIf, EndCond, EndQuasiquote, InPhase, Closing
<1>12. CASE IfThen \/ IfElse
  <2>1. PICK ph \in {"then", "else"} :
          stack # << >> /\ Top.k = "if" /\ Retop([Top EXCEPT !.ph = ph])
    BY <1>12 DEF IfThen, IfElse, InPhase, Closing
  <2>2. Top \in IfFrame
    BY <2>1, TopBlocks
  <2>3. [Top EXCEPT !.ph = ph] \in Frame /\ [Top EXCEPT !.ph = ph].k = "if"
    BY <2>2 DEF Frame, IfFrame
  <2> QED BY <1>4, <2>1, <2>3
<1>13. CASE CondBody
  <2>1. /\ stack # << >> /\ Top.k = "cond" /\ AppendBlocks(2)
        /\ Retop([k |-> "cond", ph |-> "body", block2 |-> NewBlock(2)])
    BY <1>13 DEF CondBody, InPhase, Closing
  <2>2. NewBlock(2) \in FunBlock
    BY <2>1, TopBlocks, NewBlocks
  <2>3. [k |-> "cond", ph |-> "body", block2 |-> NewBlock(2)] \in Frame
    BY <2>2 DEF Frame, CondFrame, Block
  <2> QED BY <1>4, <2>1, <2>3
<1> QED
  BY <1>5, <1>6, <1>7, <1>8, <1>9, <1>10, <1>11, <1>12, <1>13
     DEF Next, WhileStep, FileStep, ScopeStep, BodyStep

\* The frames of the four kinds, seen from one of the others.
LEMMA OtherAlters ==
  ASSUME IInv, [Next]_vars
  PROVE  \E n, kind : /\ Alters(n, kind)
                      /\ kind = "while"   => WhileStep
                      /\ kind = "include" => FileStep
                      /\ kind = "scope"   => ScopeStep
                      /\ kind = "body"    => BodyStep
<1>0. TypeOK
  BY DEF IInv
<1>1. CASE \/ ScopeStep \/ FileStep \/ BodyStep \/ While \/ EndWhile
  <2> DEFINE Here(fr) == /\ \/ stack' = Append(stack, fr)
                            \/ fr = Top /\ stack # << >> /\ Pop
                         /\ \/ fr.k = "while" /\ WhileStep
                            \/ fr.k = "include" /\ FileStep
                            \/ fr.k = "scope" /\ ScopeStep
                            \/ fr.k = "body" /\ BodyStep
  <2>1. PICK fr : Here(fr)
    <3>1. CASE Scope
      BY <3>1 DEF Scope, Push, ScopeStep
    <3>2. ASSUME NEW so \in BOOLEAN, Include(so) PROVE \E fr : Here(fr)
      BY <3>2 DEF Include, Push, FileStep
    <3>3. ASSUME NEW f \in Fun, Define(f) \/ Lambda(f) PROVE \E fr : Here(fr)
      <4>1. PICK same \in BOOLEAN : FunBody(f, same)
        BY <3>3 DEF Define, Lambda
      <4>2. PICK fr : stack' = Append(stack, fr) /\ fr.k = "body"
        BY <4>1 DEF FunBody, Push
      <4> QED BY <3>3, <4>2 DEF BodyStep
    <3>4. CASE While
      BY <3>4 DEF While, Push, WhileStep
    <3>5. CASE EndScope \/ EndInclude \/ EndBody \/ EndWhile
      BY <3>5 DEF EndScope, EndInclude, EndBody, EndWhile, InPhase, Closing,
                  WhileStep, FileStep, ScopeStep, BodyStep
    <3> QED BY <1>1, <3>1, <3>2, <3>3, <3>4, <3>5 DEF ScopeStep, FileStep, BodyStep
  <2>2. \E n : Alters(n, fr.k)
    BY <1>0, <2>1, AltersPush, AltersPop
  <2> QED BY <2>1, <2>2
<1>2. CASE WhileBody
  <2>1. /\ stack # << >> /\ Top.k = "while"
        /\ Retop([Top EXCEPT !.ph = "body", !.last = SavedLoop])
    BY <1>2 DEF WhileBody, InPhase, Closing
  <2>2. Top \in WhileFrame
    BY <2>1, TopBlocks
  <2>3. PICK fr \in Frame : /\ fr = [Top EXCEPT !.ph = "body", !.last = SavedLoop]
                            /\ fr.k = "while"
    <3>1. [Top EXCEPT !.ph = "body", !.last = SavedLoop] \in WhileFrame
      BY <1>0, <2>2 DEF WhileFrame, SavedLoop, TypeOK
    <3> QED BY <3>1 DEF Frame, WhileFrame
  <2>4. \E n : Alters(n, "while")
    BY <1>0, <2>1, <2>3, AltersRetop
  <2> QED BY <1>2, <2>4 DEF WhileStep
<1>3. CASE ~WhileStep /\ ~FileStep /\ ~ScopeStep /\ ~BodyStep
  BY <1>3, StepAlters
<1> QED BY <1>1, <1>2, <1>3 DEF WhileStep

\* Of these, only the actions of loops and files change the globals.
LEMMA StepGlobals ==
  ASSUME [Next]_vars
  PROVE  /\ WhileBody \/ EndWhile \/ loop' = loop
         /\ FileStep \/ precompiled_module' = precompiled_module
<1>1. WhileBody \/ EndWhile \/ loop' = loop
  BY DEF Next, vars, Define, Lambda, FunBody, EndBody, Scope, EndScope,
         AddVariable, Funcall, EndFuncall, While, Break, Continue, Jump, If,
         IfThen, IfElse, EndIf, Cond, CondBody, EndCond, Quote, LowerQuote,
         Quasiunquote, EndQuasiquote, Include, EndInclude, CompilerError, Stop
<1>2. FileStep \/ precompiled_module' = precompiled_module
  BY DEF Next, vars, Define, Lambda, FunBody, EndBody, Scope, EndScope,
         AddVariable, Funcall, EndFuncall, While, WhileBody, EndWhile, Break,
         Continue, Jump, If, IfThen, IfElse, EndIf, Cond, CondBody, EndCond,
         Quote, LowerQuote, Quasiunquote, EndQuasiquote, FileStep,
         CompilerError, Stop
<1> QED BY <1>1, <1>2

-----------------------------------------------------------------------------
\* l describes the innermost loop whose body is open in the first n frames.
InWhile(fr) == fr.k = "while" /\ fr.ph = "body"
LoopOf(fr)  == [inLoop |-> TRUE, cond |-> fr.cond, after |-> fr.after]
LoopAt(s, n, l) ==
  \/ l = NoLoop /\ \A i \in 1..n : ~InWhile(s[i])
  \/ \E i \in 1..n : /\ InWhile(s[i]) /\ l = LoopOf(s[i])
                     /\ \A j \in (i+1)..n : ~InWhile(s[j])

LoopsOK ==
  /\ LoopAt(stack, Len(stack), loop)
  /\ \A i \in 1..Len(stack) : InWhile(stack[i]) => LoopAt(stack, i-1, stack[i].last)

LEMMA LoopPrefix ==
  ASSUME NEW s, NEW t, NEW n \in Nat, NEW l, \A i \in 1..n : t[i] = s[i],
         LoopAt(s, n, l)
  PROVE  LoopAt(t, n, l)
BY DEF LoopAt

LEMMA LoopSkip ==
  ASSUME NEW s, NEW n \in Nat, NEW l, ~InWhile(s[n+1])
  PROVE  LoopAt(s, n+1, l) <=> LoopAt(s, n, l)
BY DEF LoopAt

LEMMA LoopsStep ==
  ASSUME LoopsOK, NEW n, Shape(n), LoopAt(stack', Len(stack'), loop'),
         Len(stack') = n+1 /\ InWhile(stack'[n+1]) => LoopAt(stack, n, stack'[n+1].last)
  PROVE  LoopsOK'
<1>1. n \in Nat /\ \A i \in 1..n : stack'[i] = stack[i]
  BY DEF Shape
<1>2. ASSUME NEW i \in 1..n, InWhile(stack'[i])
      PROVE  LoopAt(stack', i-1, stack'[i].last)
  <2>1. LoopAt(stack, i-1, stack[i].last)
    BY <1>1, <1>2 DEF LoopsOK, Shape
  <2>2. i-1 \in Nat /\ \A j \in 1..(i-1) : stack'[j] = stack[j]
    BY <1>1
  <2> QED BY <1>1, <2>1, <2>2, LoopPrefix
<1>3. ASSUME Len(stack') = n+1, InWhile(stack'[n+1])
      PROVE  LoopAt(stack', n, stack'[n+1].last)
  BY <1>1, <1>3, LoopPrefix
<1>4. \A i \in 1..Len(stack') : i \in 1..n \/ (i = n+1 /\ Len(stack') = n+1)
  BY DEF Shape
<1>5. (n+1)-1 = n
  BY <1>1
<1> QED BY <1>2, <1>3, <1>4, <1>5 DEF LoopsOK

\* A frame that opens no loop body can come and go.
LEMMA LoopsQuiet ==
  ASSUME LoopsOK, NEW n, Shape(n), loop' = loop,
         Len(stack) = n+1 => ~InWhile(stack[n+1]),
         Len(stack') = n+1 => ~InWhile(stack'[n+1])
  PROVE  LoopsOK'
<1>1. n \in Nat /\ \A i \in 1..n : stack'[i] = stack[i]
  BY DEF Shape
<1>2. LoopAt(stack, n, loop)
  BY <1>1, LoopSkip DEF LoopsOK, Shape
<1>3. LoopAt(stack', n, loop)
  BY <1>1, <1>2, LoopPrefix
<1>4. LoopAt(stack', Len(stack'), loop')
  BY <1>1, <1>3, LoopSkip DEF Shape
<1> QED BY <1>4, LoopsStep

LEMMA StepLoops == IInv /\ LoopsOK /\ [Next]_vars => LoopsOK'
<1> SUFFICES ASSUME IInv, LoopsOK, [Next]_vars PROVE LoopsOK'
  OBVIOUS
<1>0. TypeOK
  BY DEF IInv
<1>1. CASE While
  <2>1. PICK fr : stack' = Append(stack, fr) /\ ~InWhile(fr) /\ loop' = loop
    BY <1>1 DEF While, Push, InWhile
  <2>2. PICK n \in Nat : /\ n = Len(stack) /\ Shape(n)
                         /\ Len(stack') = n+1 /\ stack'[n+1] = fr
    BY <1>0, <2>1, PushShape
  <2> QED BY <2>1, <2>2, LoopsQuiet
<1>2. CASE WhileBody
  <2>1. /\ stack # << >> /\ Top.k = "while" /\ Top.ph = "cond"
        /\ Retop([Top EXCEPT !.ph = "body", !.last = SavedLoop])
        /\ loop' = LoopOf(Top)
    BY <1>2 DEF WhileBody, InPhase, Closing, LoopOf
  <2>2. Top \in WhileFrame
    BY <2>1, TopBlocks
  <2>3. PICK fr \in Frame : /\ fr = [Top EXCEPT !.ph = "body", !.last = SavedLoop]
                            /\ InWhile(fr) /\ LoopOf(fr) = LoopOf(Top)
                            /\ fr.last = loop
    <3>1. [Top EXCEPT !.ph = "body", !.last = SavedLoop] \in WhileFrame
      BY <1>0, <2>2 DEF WhileFrame, SavedLoop, TypeOK
    <3>2. PICK fr : fr = [Top EXCEPT !.ph = "body", !.last = SavedLoop]
      OBVIOUS
    <3>3. /\ fr.k = "while" /\ fr.ph = "body" /\ fr.last = loop
          /\ fr.cond = Top.cond /\ fr.after = Top.after
      BY <2>2, <3>2 DEF WhileFrame, SavedLoop
    <3> QED BY <3>1, <3>2, <3>3 DEF Frame, InWhile, LoopOf
  <2>4. PICK n \in Nat : /\ Len(stack) = n+1 /\ Shape(n)
                         /\ Len(stack') = n+1 /\ stack'[n+1] = fr
                         /\ stack[n+1] = Top
    BY <1>0, <2>1, <2>3, RetopShape
  <2>5. LoopAt(stack, n, loop)
    <3>1. ~InWhile(stack[n+1])
      BY <2>1, <2>4 DEF InWhile
    <3> QED BY <2>4, <3>1, LoopSkip DEF LoopsOK
  <2>6. LoopAt(stack', n+1, loop')
    BY <2>1, <2>3, <2>4 DEF LoopAt
  <2> QED BY <2>3, <2>4, <2>5, <2>6, LoopsStep
<1>3. CASE EndWhile
  <2>1. stack # << >> /\ InWhile(Top) /\ Pop /\ loop' = Top.last
    BY <1>3 DEF EndWhile, InPhase, Closing, InWhile
  <2>2. PICK n \in Nat : /\ Len(stack) = n+1 /\ Shape(n)
                         /\ Len(stack') = n /\ stack[n+1] = Top
    BY <1>0, <2>1, PopShape
  <2>3. LoopAt(stack, n, Top.last)
    <3>1. n+1 \in 1..Len(stack) /\ (n+1)-1 = n
      BY <2>2
    <3> QED BY <2>1, <2>2, <3>1 DEF LoopsOK
  <2>4. LoopAt(stack', n, loop')
    BY <2>1, <2>2, <2>3, LoopPrefix DEF Shape
  <2> QED BY <2>2, <2>4, LoopsStep
<1>4. CASE ~WhileStep
  <2>1. loop' = loop
    BY <1>4, StepGlobals DEF WhileStep
  <2>2. PICK n, kind : Alters(n, kind) /\ kind # "while"
    BY <1>4, OtherAlters
  <2> QED BY <2>1, <2>2, LoopsQuiet DEF Alters, InWhile
<1> QED BY <1>1, <1>2, <1>3, <1>4 DEF WhileStep

\* A break or continue directly inside a loop leaves or repeats that loop,
\* whatever loops were compiled in between (def.dlr, while).
THEOREM LoopInnermost == Spec => []LoopIsInnermost
<1>1. Init => LoopsOK
  BY DEF Init, LoopsOK, LoopAt
<1>2. ASSUME TypeOK, LoopsOK PROVE LoopIsInnermost
  <2>1. \A i : i \in InBody <=> i \in 1..Len(stack) /\ InWhile(stack[i])
    BY DEF InBody, InWhile
  <2>2. CASE loop = NoLoop /\ \A i \in 1..Len(stack) : ~InWhile(stack[i])
    BY <2>1, <2>2 DEF LoopIsInnermost
  <2>3. ASSUME NEW i \in 1..Len(stack), InWhile(stack[i]), loop = LoopOf(stack[i]),
               \A j \in (i+1)..Len(stack) : ~InWhile(stack[j])
        PROVE  LoopIsInnermost
    <3>1. i \in InBody /\ \A j \in InBody : j <= i
      BY <1>2, <2>1, <2>3 DEF TypeOK
    <3>2. ASSUME NEW w \in InBody, \A j \in InBody : j <= w PROVE w = i
      <4>1. w \in Nat /\ i \in Nat
        BY <2>1
      <4>2. w <= i /\ i <= w
        BY <3>1, <3>2
      <4> QED BY <4>1, <4>2
    <3>3. i = CHOOSE w \in InBody : \A j \in InBody : j <= w
      BY <3>1, <3>2
    <3> QED BY <2>3, <3>1, <3>3 DEF LoopIsInnermost, LoopOf
  <2> QED BY <1>2, <2>2, <2>3 DEF LoopsOK, LoopAt
<1>3. IInv => TypeOK
  BY DEF IInv
<1> QED BY <1>1, <1>2, <1>3, InitInv, StepInv, StepLoops, PTL DEF Spec

-----------------------------------------------------------------------------
\* b says whether the innermost file in the first n frames is being compiled.
IsFile(fr) == fr.k = "include"
FileAt(s, n, b) ==
  b <=> \E i \in 1..n : /\ IsFile(s[i]) /\ ~s[i].so
                        /\ \A j \in (i+1)..n : ~IsFile(s[j])

FilesOK ==
  /\ FileAt(stack, Len(stack), precompiled_module)
  /\ \A i \in 1..Len(stack) : IsFile(stack[i]) => FileAt(stack, i-1, stack[i].before)

LEMMA FilePrefix ==
  ASSUME NEW s, NEW t, NEW n \in Nat, NEW b, \A i \in 1..n : t[i] = s[i],
         FileAt(s, n, b)
  PROVE  FileAt(t, n, b)
BY DEF FileAt

LEMMA FileSkip ==
  ASSUME NEW s, NEW n \in Nat, NEW b, ~IsFile(s[n+1])
  PROVE  FileAt(s, n+1, b) <=> FileAt(s, n, b)
<1>1. \A i : i \in 1..(n+1) /\ IsFile(s[i]) <=> i \in 1..n /\ IsFile(s[i])
  OBVIOUS
<1>2. \A i \in 1..n : (\A j \in (i+1)..(n+1) : ~IsFile(s[j]))
                      <=> \A j \in (i+1)..n : ~IsFile(s[j])
  OBVIOUS
<1> QED BY <1>1, <1>2 DEF FileAt

LEMMA FilesStep ==
  ASSUME FilesOK, NEW n, Shape(n), FileAt(stack', Len(stack'), precompiled_module'),
         Len(stack') = n+1 /\ IsFile(stack'[n+1]) => FileAt(stack, n, stack'[n+1].before)
  PROVE  FilesOK'
<1>1. n \in Nat /\ \A i \in 1..n : stack'[i] = stack[i]
  BY DEF Shape
<1>2. ASSUME NEW i \in 1..n, IsFile(stack'[i])
      PROVE  FileAt(stack', i-1, stack'[i].before)
  <2>1. FileAt(stack, i-1, stack[i].before)
    BY <1>1, <1>2 DEF FilesOK, Shape
  <2>2. i-1 \in Nat /\ \A j \in 1..(i-1) : stack'[j] = stack[j]
    BY <1>1
  <2> QED BY <1>1, <2>1, <2>2, FilePrefix
<1>3. ASSUME Len(stack') = n+1, IsFile(stack'[n+1])
      PROVE  FileAt(stack', n, stack'[n+1].before)
  BY <1>1, <1>3, FilePrefix
<1>4. \A i \in 1..Len(stack') : i \in 1..n \/ (i = n+1 /\ Len(stack') = n+1)
  BY DEF Shape
<1>5. (n+1)-1 = n
  BY <1>1
<1> QED BY <1>2, <1>3, <1>4, <1>5 DEF FilesOK

LEMMA StepFiles == IInv /\ FilesOK /\ [Next]_vars => FilesOK'
<1> SUFFICES ASSUME IInv, FilesOK, [Next]_vars PROVE FilesOK'
  OBVIOUS
<1>0. TypeOK
  BY DEF IInv
<1>1. ASSUME NEW so \in BOOLEAN, Include(so) PROVE FilesOK'
  <2>1. PICK fr : /\ stack' = Append(stack, fr) /\ IsFile(fr) /\ fr.so = so
                  /\ fr.before = precompiled_module
    BY <1>1 DEF Include, Push, IsFile
  <2>2. PICK n \in Nat : /\ n = Len(stack) /\ Shape(n)
                         /\ Len(stack') = n+1 /\ stack'[n+1] = fr
    BY <1>0, <2>1, PushShape
  <2>3. FileAt(stack', n+1, precompiled_module')
    <3>1. precompiled_module' = ~so
      BY <1>1 DEF Include
    <3>2. \A i \in 1..(n+1) : (\A j \in (i+1)..(n+1) : ~IsFile(stack'[j])) => i = n+1
      BY <2>1, <2>2
    <3>3. n+1 \in 1..(n+1) /\ \A j \in ((n+1)+1)..(n+1) : ~IsFile(stack'[j])
      BY <2>2
    <3>4. (\E i \in 1..(n+1) : /\ IsFile(stack'[i]) /\ ~stack'[i].so
                               /\ \A j \in (i+1)..(n+1) : ~IsFile(stack'[j])) <=> ~so
      BY <2>1, <2>2, <3>2, <3>3
    <3> QED BY <3>1, <3>4 DEF FileAt
  <2>4. FileAt(stack, n, fr.before)
    BY <2>1, <2>2 DEF FilesOK
  <2> QED BY <2>2, <2>3, <2>4, FilesStep
<1>2. CASE EndInclude
  <2>1. stack # << >> /\ IsFile(Top) /\ Pop /\ precompiled_module' = Top.before
    BY <1>2 DEF EndInclude, Closing, IsFile, PrecompiledBefore
  <2>2. PICK n \in Nat : /\ Len(stack) = n+1 /\ Shape(n)
                         /\ Len(stack') = n /\ stack[n+1] = Top
    BY <1>0, <2>1, PopShape
  <2>3. FileAt(stack, n, Top.before)
    <3>1. n+1 \in 1..Len(stack) /\ (n+1)-1 = n
      BY <2>2
    <3> QED BY <2>1, <2>2, <3>1 DEF FilesOK
  <2>4. FileAt(stack', n, precompiled_module')
    BY <2>1, <2>2, <2>3, FilePrefix DEF Shape
  <2> QED BY <2>2, <2>4, FilesStep
<1>3. CASE ~FileStep
  <2>1. precompiled_module' = precompiled_module
    BY <1>3, StepGlobals
  <2>2. PICK n, kind : Alters(n, kind) /\ kind # "include"
    BY <1>3, OtherAlters
  <2>3. /\ Len(stack) = n+1 => ~IsFile(stack[n+1])
        /\ Len(stack') = n+1 => ~IsFile(stack'[n+1])
        /\ Shape(n) /\ n \in Nat
    BY <2>2 DEF Alters, IsFile, Shape
  <2>4. FileAt(stack, n, precompiled_module)
    BY <2>3, FileSkip DEF FilesOK, Shape
  <2>5. FileAt(stack', n, precompiled_module')
    BY <2>1, <2>3, <2>4, FilePrefix DEF Shape
  <2>6. FileAt(stack', Len(stack'), precompiled_module')
    BY <2>3, <2>5, FileSkip DEF Shape
  <2> QED BY <2>3, <2>6, FilesStep
<1> QED BY <1>1, <1>2, <1>3 DEF FileStep

\* Function bodies are generated exactly while the innermost file is one that
\* has no up-to-date object, however files nest (include.c:47-55, 69).
THEOREM PrecompiledCorrect == Spec => []PrecompiledFollowsFile
<1>1. Init => FilesOK
  BY DEF Init, FilesOK, FileAt
<1>2. ASSUME TypeOK, FilesOK PROVE PrecompiledFollowsFile
  <2> DEFINE files == {i \in 1..Len(stack) : stack[i].k = "include"}
  <2>1. \A i \in 1..Len(stack) :
          (\A j \in (i+1)..Len(stack) : ~IsFile(stack[j])) <=> \A j \in files : j <= i
    BY <1>2 DEF TypeOK, IsFile
  <2>2. precompiled_module <=> \E i \in files : ~stack[i].so /\ \A j \in files : j <= i
    BY <1>2, <2>1 DEF FilesOK, FileAt, IsFile
  <2> QED BY <2>2 DEF PrecompiledFollowsFile
<1>3. IInv => TypeOK
  BY DEF IInv
<1> QED BY <1>1, <1>2, <1>3, InitInv, StepInv, StepFiles, PTL DEF Spec
=============================================================================
