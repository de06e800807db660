------------------------------ MODULE JitProofs ------------------------------
(***************************************************************************)
(* Proofs about Jit.                                                       *)
(*                                                                         *)
(* The argument: an address that the JIT does not have can only have come  *)
(* from the process, so the cache, the JIT and the process agree as long   *)
(* as no name is resolved too early (Agree).  The JIT and the process in   *)
(* turn only differ from the latest definition when that one came with a   *)
(* precompiled object (Defined).                                           *)
(***************************************************************************)
EXTENDS Jit, SequenceTheorems, TLAPS

\* What the JIT lacks comes from the process; what it has, the cache agrees
\* with, unless it was filled too early.
Agree ==
  \A n \in FunName :
    /\ jit[n] = None /\ map_funs[n].ptr # None => map_funs[n].ptr = process[n]
    /\ jit[n] # None /\ map_funs[n].ptr # None
       => map_funs[n].ptr = jit[n] \/ n \in early

\* The places a definition is found at are those of the latest one, or the
\* latest one came with a precompiled object.
Defined ==
  \A n \in FunName : latest[n] = "so" \/ latest[n] = IF jit[n] # None THEN jit[n]
                                                    ELSE process[n]

\* A name whose function is being compiled was resolved too early, or the
\* JIT will refuse the function.
PendingIsEarly ==
  \A i \in 1..Len(pending) :
    map_funs[pending[i].name].ptr # None
    => pending[i].name \in early \/ jit[pending[i].name] # None

Resolved == \A n \in referred : jit[n] # None

\* A lambda being compiled has the name its location gives it.
LambdasNamed ==
  \A i \in 1..Len(pending) : \A l \in pending[i].lambdas :
    l.name = LambdaName(l.form)

IInv == /\ TypeOK /\ Agree /\ Defined /\ PendingIsEarly /\ Resolved
        /\ LinkableIsCompiled /\ GlobalsAgree
-----------------------------------------------------------------------------
\* The functions around the innermost one, and it itself, are functions
\* being compiled.
LEMMA BelowType ==
  ASSUME NEW S, NEW s \in Seq(S), s # << >>
  PROVE  /\ s[Len(s)] \in S
         /\ SubSeq(s, 1, Len(s) - 1) \in Seq(S)
         /\ Len(SubSeq(s, 1, Len(s) - 1)) = Len(s) - 1
         /\ \A i \in 1..(Len(s) - 1) : SubSeq(s, 1, Len(s) - 1)[i] = s[i]
  <1>1. PICK n \in Nat : Len(s) = n + 1
    BY EmptySeq
  <1>2. s[Len(s)] \in S
    BY <1>1, ElementOfSeq
  <1>3. \A i \in 1..n : s[i] \in S
    BY <1>1, ElementOfSeq
  <1>4. /\ SubSeq(s, 1, n) \in Seq(S) /\ Len(SubSeq(s, 1, n)) = n
        /\ \A i \in 1..n : SubSeq(s, 1, n)[i] = s[i]
    BY <1>3, SubSeqProperties
  <1>5. Len(s) - 1 = n
    BY <1>1
  <1> QED  BY <1>2, <1>4, <1>5

\* What is being compiled are functions.
LEMMA PendingName ==
  ASSUME TypeOK, NEW i \in 1..Len(pending)
  PROVE  pending[i].name \in FunName
  <1>1. pending[i] \in Body
    BY ElementOfSeq DEF TypeOK
  <1> QED  BY <1>1 DEF Body

\* One function more is being compiled.
LEMMA AppendType ==
  ASSUME NEW S, NEW s \in Seq(S), NEW e \in S
  PROVE  /\ Append(s, e) \in Seq(S)
         /\ Len(Append(s, e)) = Len(s) + 1
         /\ \A i \in 1..Len(s) : Append(s, e)[i] = s[i]
         /\ Append(s, e)[Len(s) + 1] = e
  OBVIOUS
-----------------------------------------------------------------------------
\* resolve_sym finds a place.
LEMMA ResolveType ==
  ASSUME TypeOK, NEW n \in Name
  PROVE  Resolve(n) \in Place /\ Ptr(n) \in Place
  <1>1. CASE n \in FunName
    BY <1>1 DEF TypeOK, Resolve, Ptr, Place, Name
  <1>2. CASE n \in GlobalName
    BY <1>2, NameAssumption DEF TypeOK, Resolve, Ptr, Place, Name
  <1> QED  BY <1>1, <1>2 DEF Name

\* Resolving the names of a module changes the cache and the JIT.
LEMMA RegisterType ==
  ASSUME TypeOK, NEW refs \in SUBSET Name
  PROVE  /\ Register(refs) \in [Name -> Place]
         /\ CacheFuns(refs) \in [FunName -> [defined : BOOLEAN, ptr : Place]]
         /\ CacheGlobals(refs) \in [GlobalName -> [defined : BOOLEAN, ptr : Place]]
  <1>1. Register(refs) \in [Name -> Place]
    BY ResolveType DEF Register, TypeOK
  <1>2. \A n \in FunName : map_funs[n].defined \in BOOLEAN
    BY DEF TypeOK
  <1>3. \A n \in GlobalName : map_globals[n].defined \in BOOLEAN
    BY DEF TypeOK
  <1>4. CacheFuns(refs) \in [FunName -> [defined : BOOLEAN, ptr : Place]]
    BY <1>2, ResolveType DEF CacheFuns, Name
  <1>5. CacheGlobals(refs) \in [GlobalName -> [defined : BOOLEAN, ptr : Place]]
    BY <1>3, ResolveType DEF CacheGlobals, Name
  <1> QED  BY <1>1, <1>4, <1>5

LEMMA InitType == Init => TypeOK
  <1> SUFFICES ASSUME Init PROVE TypeOK
    OBVIOUS
  <1>1. New \in [defined : BOOLEAN, ptr : Place] /\ Unknown \in [defined : BOOLEAN, ptr : Place]
    BY DEF New, Unknown, Place
  <1>2. /\ map_funs \in [FunName -> [defined : BOOLEAN, ptr : Place]]
        /\ map_globals \in [GlobalName -> [defined : BOOLEAN, ptr : Place]]
    BY <1>1 DEF Init
  <1>3. pending \in Seq(Body) /\ includes \in Seq([depth : Nat, before : BOOLEAN])
    BY EmptySeq DEF Init
  <1>4. precompiled_module \in BOOLEAN
    BY DEF Init
  <1> QED  BY <1>2, <1>3, <1>4 DEF Init, TypeOK, Place

\* Loading an object gives names places.
LEMMA LoadType ==
  ASSUME TypeOK, NEW object, Load(object)
  PROVE  /\ process' \in [Name -> {"exe", "so", None}]
         /\ latest' \in [FunName -> Place]
  BY DEF TypeOK, Load, Place

\* A function's body changes the list of functions being compiled.
LEMMA FunBodyType ==
  ASSUME TypeOK, NEW n \in FunName, FunBody(n)
  PROVE  pending' \in Seq(Body) /\ latest' \in [FunName -> Place]
  <1>1. [name |-> n, refs |-> {}, lambdas |-> {}] \in Body
    BY DEF Body
  <1>2. CASE precompiled_module
    <2>1. pending' = Append(pending, [name |-> n, refs |-> {}, lambdas |-> {}])
          /\ latest' = latest
      BY <1>2, Zenon DEF FunBody
    <2> QED  BY <1>1, <2>1, AppendType DEF TypeOK
  <1>3. CASE ~precompiled_module
    <2>1. pending' = pending /\ latest' = [latest EXCEPT ![n] = "so"]
      BY <1>3, Zenon DEF FunBody
    <2> QED  BY <2>1 DEF TypeOK, Place
  <1> QED  BY <1>2, <1>3

\* A declaration keeps the types.
LEMMA DeclareType ==
  ASSUME TypeOK, NEW n \in FunName, Declare(n)
  PROVE  /\ map_funs' \in [FunName -> [defined : BOOLEAN, ptr : Place]]
         /\ early' \subseteq FunName
  BY DEF TypeOK, Declare, New, Place

\* Every step keeps the types.
LEMMA NextType == TypeOK /\ [Next]_vars => TypeOK'
  <1> SUFFICES ASSUME TypeOK, [Next]_vars PROVE TypeOK'
    OBVIOUS
  <1>1. ASSUME NEW n \in FunName, Funproto(n) PROVE TypeOK'
    BY <1>1, DeclareType DEF Funproto, TypeOK, linkvars
  <1>2. ASSUME NEW n \in FunName, Macroproto(n) PROVE TypeOK'
    BY <1>2, DeclareType DEF Macroproto, TypeOK, linkvars
  <1>3. ASSUME NEW n \in FunName, Defun(n) PROVE TypeOK'
    BY <1>3, DeclareType, FunBodyType DEF Defun, TypeOK, linkvars
  <1>4. ASSUME NEW n \in FunName, Defmacro(n) PROVE TypeOK'
    BY <1>4, DeclareType, FunBodyType DEF Defmacro, TypeOK, linkvars
  <1>5. ASSUME NEW n \in FunName, Call(n) PROVE TypeOK'
    <2>1. Resolve(n) \in Place
      BY <1>5, ResolveType DEF Name
    <2>2. map_funs' \in [FunName -> [defined : BOOLEAN, ptr : Place]]
      <3>1. map_funs[n].defined \in BOOLEAN
        BY DEF TypeOK
      <3> QED  BY <1>5, <2>1, <3>1 DEF Call, TypeOK
    <2>3. early' \subseteq FunName
      BY <1>5 DEF Call, TypeOK
    <2> QED  BY <1>5, <2>2, <2>3 DEF Call, TypeOK, linkvars
  <1>6. ASSUME NEW n \in Name, Refer(n) PROVE TypeOK'
    <2>1. Top \in Body /\ Below \in Seq(Body)
      BY <1>6, BelowType DEF Refer, Top, Below, TypeOK
    <2>2. [name |-> Top.name, refs |-> Top.refs \cup {n}, lambdas |-> Top.lambdas]
             \in Body
      BY <2>1 DEF Body
    <2>3. pending' \in Seq(Body)
      BY <1>6, <2>1, <2>2, AppendType DEF Refer
    <2> QED  BY <1>6, <2>3 DEF Refer, TypeOK, linkvars, ghosts
  <1>7. ASSUME NEW n \in Name, AddSymbol(n) PROVE TypeOK'
    BY <1>7 DEF AddSymbol, TypeOK, ghosts
  <1>8. ASSUME NEW object \in Objects, LinkIn(object) PROVE TypeOK'
    BY <1>8, LoadType DEF LinkIn, TypeOK
  <1>9. ASSUME NEW object \in Objects, NEW so \in BOOLEAN, Include(object, so)
        PROVE TypeOK'
    <2>1. process' \in [Name -> {"exe", "so", None}] /\ latest' \in [FunName -> Place]
      BY <1>9, LoadType DEF Include, TypeOK
    <2>2. includes' \in Seq([depth : Nat, before : BOOLEAN])
      <3>1. precompiled_module \in BOOLEAN
        BY DEF TypeOK
      <3>2. Len(pending) \in Nat
        BY DEF TypeOK
      <3>3. [depth |-> Len(pending), before |-> precompiled_module]
              \in [depth : Nat, before : BOOLEAN]
        BY <3>1, <3>2
      <3> QED  BY <1>9, <3>3, AppendType DEF Include, TypeOK
    <2>3. precompiled_module' \in BOOLEAN
      BY <1>9 DEF Include
    <2> QED  BY <1>9, <2>1, <2>2, <2>3 DEF Include, TypeOK
  <1>10. CASE EndInclude
    <2>1. includes' \in Seq([depth : Nat, before : BOOLEAN])
      BY <1>10, BelowType DEF EndInclude, TypeOK
    <2>2. includes[Len(includes)] \in [depth : Nat, before : BOOLEAN]
      BY <1>10, BelowType DEF EndInclude, TypeOK
    <2>3. precompiled_module' \in BOOLEAN
      BY <1>10, <2>2 DEF EndInclude
    <2> QED  BY <1>10, <2>1, <2>3 DEF EndInclude, TypeOK, linkvars, ghosts
  <1>11. ASSUME NEW fm \in LambdaForm, Lambda(fm) PROVE TypeOK'
    <2>1. Top \in Body /\ Below \in Seq(Body)
      BY <1>11, BelowType DEF Lambda, Top, Below, TypeOK
    <2>2. LambdaName(fm) \in LambdaNames
      BY LambdaAssumption DEF LambdaName, LambdaNames
    <2>3. [name |-> LambdaName(fm), form |-> fm] \in LambdaDef
      BY <2>2 DEF LambdaDef
    <2>4. PICK got \in LambdaDef :
            /\ pending' = Append(Below, [name |-> Top.name, refs |-> Top.refs,
                                         lambdas |-> Top.lambdas \cup {got}])
            /\ mistaken' = IF got.form = fm THEN mistaken ELSE mistaken \cup {fm}
      <3> DEFINE named == {l \in Top.lambdas : l.name = LambdaName(fm)}
                 new   == [name |-> LambdaName(fm), form |-> fm]
                 first == IF named = {} THEN new ELSE CHOOSE l \in named : TRUE
      <3>1. first \in LambdaDef
        BY <2>1, <2>3 DEF Body
      <3> QED  BY <1>11, <3>1 DEF Lambda
    <2>5. pending' \in Seq(Body)
      <3>1. [name |-> Top.name, refs |-> Top.refs,
             lambdas |-> Top.lambdas \cup {got}] \in Body
        BY <2>1, <2>4 DEF Body
      <3> QED  BY <2>1, <2>4, <3>1, AppendType
    <2>6. mistaken' \subseteq LambdaForm
      BY <2>4 DEF TypeOK
    <2> QED  BY <1>11, <2>5, <2>6 DEF Lambda, TypeOK, linkvars
  <1>12. CASE EndFunction
    <2>1. Top \in Body /\ Below \in Seq(Body)
      BY <1>12, BelowType DEF EndFunction, Top, Below, TypeOK
    <2>2. Top.name \in FunName /\ Top.refs \in SUBSET Name
          /\ {l.name : l \in Top.lambdas} \subseteq LambdaNames
      BY <2>1 DEF Body, LambdaDef
    <2>3. /\ map_funs' \in [FunName -> [defined : BOOLEAN, ptr : Place]]
          /\ map_globals' \in [GlobalName -> [defined : BOOLEAN, ptr : Place]]
          /\ jit' \in [Name -> Place]
      BY <1>12, <2>2, RegisterType DEF EndFunction, Place
    <2>4. anon' \subseteq LambdaNames /\ referred' \subseteq Name
          /\ latest' \in [FunName -> Place]
      BY <1>12, <2>2 DEF EndFunction, TypeOK, Place
    <2>5. map_modules' \in [Name -> {"absent", "module", "used"}]
      BY <1>12, <2>2 DEF EndFunction, TypeOK, StoreModule
    <2>6. pending' \in Seq(Body)
      BY <1>12, <2>1 DEF EndFunction
    <2> QED  BY <1>12, <2>3, <2>4, <2>5, <2>6 DEF EndFunction, TypeOK
  <1>13. ASSUME NEW g \in GlobalName, NEW isextern \in BOOLEAN,
                Defglobal(g, isextern)
         PROVE TypeOK'
    <2>1. map_globals' \in [GlobalName -> [defined : BOOLEAN, ptr : Place]]
      BY <1>13 DEF Defglobal, TypeOK, New, Place
    <2>2. /\ jit' \in [Name -> Place]
          /\ map_modules' \in [Name -> {"absent", "module", "used"}]
      BY <1>13 DEF Defglobal, Stored, StoreModule, TypeOK, Place
    <2> QED  BY <1>13, <2>1, <2>2 DEF Defglobal, TypeOK, ghosts
  <1>14. CASE UNCHANGED vars
    BY <1>14 DEF vars, linkvars, ghosts, TypeOK
  <1> QED
    BY <1>1, <1>2, <1>3, <1>4, <1>5, <1>6, <1>7, <1>8, <1>9, <1>10, <1>11,
       <1>12, <1>13, <1>14 DEF Next
-----------------------------------------------------------------------------
\* Where a function is found when it has an address already, when the JIT has
\* it and when only the process may.
LEMMA ResolveCases ==
  ASSUME NEW n \in FunName, Agree
  PROVE  \/ jit[n] = None /\ Resolve(n) = process[n]
         \/ jit[n] # None /\ Resolve(n) = jit[n]
         \/ jit[n] # None /\ n \in early
  BY DEF Agree, Resolve, Ptr

\* An address found now is the latest definition's, in the sense of
\* CallRunsLatest.
LEMMA ResolveIsLatest ==
  ASSUME NEW n \in FunName, TypeOK, Agree, Defined, Resolve(n) # None
  PROVE  Resolve(n) = latest[n] \/ n \in early \/ Shadowed(n)
  <1>1. process[n] \in {"exe", "so", None}
    BY DEF TypeOK, Name
  <1> QED  BY <1>1, ResolveCases DEF Defined, Shadowed

\* CallRunsLatest is a consequence of the two agreements.
LEMMA LatestFollows ==
  ASSUME TypeOK, Agree, Defined
  PROVE  CallRunsLatest
  <1> SUFFICES ASSUME NEW n \in FunName, map_funs[n].ptr # None
               PROVE  \/ map_funs[n].ptr = latest[n]
                      \/ n \in early \/ Shadowed(n)
    BY DEF CallRunsLatest
  <1>1. Resolve(n) = map_funs[n].ptr
    BY DEF Resolve, Ptr
  <1> QED  BY <1>1, ResolveIsLatest

\* So is the agreement of compiled code with macro calls.
LEMMA AgreementFollows ==
  ASSUME TypeOK, Agree, Resolved, GlobalsAgree
  PROVE  CodeAgreesWithMacros
  <1> SUFFICES ASSUME NEW n \in referred
               PROVE  /\ jit[n] # None
                      /\ Ptr(n) # None => Ptr(n) = jit[n] \/ n \in early
    BY DEF CodeAgreesWithMacros
  <1>1. n \in Name /\ jit[n] # None
    BY DEF TypeOK, Resolved
  <1>2. CASE n \in FunName
    BY <1>1, <1>2 DEF Agree, Ptr
  <1>3. CASE n \in GlobalName
    BY <1>1, <1>3, NameAssumption DEF GlobalsAgree, Ptr
  <1> QED  BY <1>1, <1>2, <1>3 DEF Name

LEMMA InitIInv == Init => IInv
  <1> SUFFICES ASSUME Init PROVE IInv
    OBVIOUS
  <1>1. Agree
    BY DEF Init, Agree, New, Unknown
  <1>2. Defined
    BY DEF Init, Defined, Name
  <1>3. PendingIsEarly /\ Resolved
    BY DEF Init, PendingIsEarly, Resolved
  <1>4. LinkableIsCompiled
    BY NoneAssumption DEF Init, LinkableIsCompiled
  <1>5. GlobalsAgree
    BY DEF Init, GlobalsAgree, Unknown
  <1> QED  BY InitType, <1>1, <1>2, <1>3, <1>4, <1>5 DEF IInv

\* A declaration forgets the address.
LEMMA DeclareStep ==
  ASSUME IInv, NEW n \in FunName, Declare(n),
         UNCHANGED <<jit, process>>
  PROVE  Agree'
  BY DEF IInv, TypeOK, Declare, Agree, New

\* A declaration and the body that follows it.
LEMMA BodyStep ==
  ASSUME IInv, NEW n \in FunName, Declare(n), FunBody(n),
         UNCHANGED <<jit, process>>
  PROVE  Defined' /\ PendingIsEarly'
  <1>1. Defined'
    BY DEF IInv, TypeOK, Defined, FunBody
  <1>2. CASE precompiled_module
    <2> DEFINE body == [name |-> n, refs |-> {}, lambdas |-> {}]
    <2>1. pending' = Append(pending, body)
      BY <1>2, Zenon DEF FunBody
    <2>2. body \in Body
      BY DEF Body
    <2>3. /\ Len(pending') = Len(pending) + 1 /\ Len(pending) \in Nat
          /\ \A i \in 1..Len(pending) : pending'[i] = pending[i]
          /\ pending'[Len(pending) + 1] = body
      BY <2>1, <2>2, AppendType DEF IInv, TypeOK
    <2>4. \A i \in 1..Len(pending') : pending'[i].name = n \/
             (i \in 1..Len(pending) /\ pending'[i] = pending[i])
      BY <2>3
    <2>5. \A i \in 1..Len(pending) : pending[i].name \in FunName
      BY PendingName DEF IInv
    <2>6. map_funs' = [map_funs EXCEPT ![n] = New] /\ early' = early \ {n}
      BY DEF Declare
    <2>7. map_funs'[n].ptr = None
      BY <2>6 DEF IInv, TypeOK, New
    <2>8. \A o \in FunName : o # n => map_funs'[o] = map_funs[o]
                                      /\ (o \in early' <=> o \in early)
      BY <2>6 DEF IInv, TypeOK
    <2> QED
      BY <1>1, <2>4, <2>5, <2>7, <2>8 DEF IInv, PendingIsEarly
  <1>3. CASE ~precompiled_module
    <2>1. pending' = pending
      BY <1>3, Zenon DEF FunBody
    <2>2. \A i \in 1..Len(pending) : pending[i].name \in FunName
      BY PendingName DEF IInv
    <2>3. \A o \in FunName : map_funs'[o].ptr = None \/
             (map_funs'[o] = map_funs[o] /\ (o \in early' <=> o \in early))
      BY DEF Declare, IInv, TypeOK, New
    <2> QED
      BY <1>1, <2>1, <2>2, <2>3 DEF IInv, PendingIsEarly
  <1> QED  BY <1>1, <1>2, <1>3

\* A declaration without a body.
LEMMA ProtoStep ==
  ASSUME IInv, NEW n \in FunName, Declare(n),
         UNCHANGED <<jit, process, pending, latest>>
  PROVE  Defined' /\ PendingIsEarly'
  <1>1. \A i \in 1..Len(pending) : pending[i].name \in FunName
    BY PendingName DEF IInv
  <1>2. \A o \in FunName : map_funs'[o].ptr = None \/
           (map_funs'[o] = map_funs[o] /\ (o \in early' <=> o \in early))
    BY DEF Declare, IInv, TypeOK, New
  <1>3. Defined'
    BY DEF IInv, Defined
  <1> QED
    BY <1>1, <1>2, <1>3 DEF IInv, PendingIsEarly

\* What a step that does not touch the JIT leaves alone.
LEMMA JitUnchanged ==
  ASSUME IInv, UNCHANGED <<jit, map_modules, map_globals, referred>>
  PROVE  Resolved' /\ LinkableIsCompiled' /\ GlobalsAgree'
  BY DEF IInv, Resolved, LinkableIsCompiled, GlobalsAgree

\* A call resolves the name it calls.
LEMMA CallStep ==
  ASSUME IInv, NEW n \in FunName, Call(n)
  PROVE  Agree' /\ Defined' /\ PendingIsEarly'
  <1>1. /\ map_funs' = [map_funs EXCEPT ![n].ptr = Resolve(n)]
        /\ map_funs \in [FunName -> [defined : BOOLEAN, ptr : Place]]
        /\ UNCHANGED <<jit, process, latest, pending>>
        /\ early \subseteq early'
    BY DEF Call, IInv, TypeOK, linkvars
  <1>2. /\ map_funs'[n].ptr = Resolve(n)
        /\ \A o \in FunName : o # n => map_funs'[o] = map_funs[o]
    BY <1>1
  <1>3. Agree'
    BY <1>1, <1>2 DEF IInv, Agree, Resolve, Ptr
  <1>4. Defined'
    BY <1>1 DEF IInv, Defined
  <1>5. PendingIsEarly'
    <2> SUFFICES ASSUME NEW i \in 1..Len(pending),
                        map_funs'[pending[i].name].ptr # None
                 PROVE  pending[i].name \in early' \/ jit[pending[i].name] # None
      BY <1>1 DEF PendingIsEarly
    <2>1. pending[i].name \in FunName
      BY PendingName DEF IInv
    <2>2. CASE pending[i].name = n
      <3>1. BeingCompiled(n)
        BY <2>2 DEF BeingCompiled
      <3>2. CASE Ptr(n) # None
        BY <1>1, <2>2, <3>2 DEF IInv, PendingIsEarly, Ptr
      <3>3. CASE Ptr(n) = None /\ jit[n] = None
        BY <2>2, <3>1, <3>3 DEF Call
      <3> QED  BY <2>2, <3>2, <3>3
    <2>3. CASE pending[i].name # n
      BY <1>1, <1>2, <2>1, <2>3 DEF IInv, PendingIsEarly
    <2> QED  BY <2>2, <2>3
  <1> QED  BY <1>3, <1>4, <1>5

\* Loading an object defines only what nothing defines.
LEMMA LoadStep ==
  ASSUME IInv, NEW object, Load(object),
         UNCHANGED <<map_funs, jit, pending, early>>
  PROVE  Agree' /\ Defined' /\ PendingIsEarly'
  <1>1. \A n \in FunName : /\ process[n] # None => process'[n] = process[n]
                           /\ latest'[n] = IF n \in object /\ latest[n] = None
                                           THEN "so" ELSE latest[n]
                           /\ process'[n] = IF n \in object /\ process[n] = None
                                           THEN "so" ELSE process[n]
    BY DEF Load, Name
  <1>2. Agree'
    BY <1>1 DEF IInv, Agree
  <1>3. Defined'
    BY <1>1, NoneAssumption DEF IInv, Defined
  <1>4. PendingIsEarly'
    BY DEF IInv, PendingIsEarly
  <1> QED  BY <1>2, <1>3, <1>4

\* The end of a function: what it refers to is resolved and registered, then
\* its own code is added.
LEMMA EndFunctionStep ==
  ASSUME IInv, EndFunction
  PROVE  IInv'
  <1> DEFINE refs == Top.refs
             own  == Top.name
  <1>1. Top \in Body /\ Below \in Seq(Body) /\ Len(pending) \in Nat \ {0}
        /\ Len(Below) = Len(pending) - 1
        /\ \A i \in 1..(Len(pending) - 1) : Below[i] = pending[i]
    BY BelowType, EmptySeq DEF EndFunction, Top, Below, IInv, TypeOK
  <1>2. own \in FunName /\ refs \in SUBSET Name
    BY <1>1 DEF Body
  <1>3. /\ \A r \in refs : Resolve(r) # None
        /\ Register(refs)[own] = None
        /\ map_modules' = [map_modules EXCEPT ![own] = "module"]
        /\ map_funs' = CacheFuns(refs)
        /\ map_globals' = CacheGlobals(refs)
        /\ jit' = [Register(refs) EXCEPT ![own] = "jit"]
        /\ pending' = Below
        /\ referred' = referred \cup refs
        /\ latest' = [latest EXCEPT ![own] = "jit"]
        /\ process' = process /\ early' = early
    BY DEF EndFunction, StoreModule
  <1> HIDE DEF refs, own
  <1>4. own \notin refs /\ jit[own] = None /\ own \in Name
    BY <1>2, <1>3 DEF Register, Name
  <1>5. jit'[own] = "jit" /\ latest'[own] = "jit"
    BY <1>2, <1>3, <1>4 DEF Register, IInv, TypeOK
  <1>6. \A n \in Name : n # own =>
           jit'[n] = IF n \in refs /\ jit[n] = None THEN Resolve(n) ELSE jit[n]
    BY <1>3 DEF Register
  <1>7. \A n \in FunName : map_funs'[n].ptr = IF n \in refs THEN Resolve(n)
                                                         ELSE map_funs[n].ptr
    BY <1>3 DEF CacheFuns, Ptr
  <1>8. \A n \in FunName : n # own => latest'[n] = latest[n]
    BY <1>3 DEF IInv, TypeOK
  <1>9. map_funs[own].ptr # None => own \in early
    <2>1. Len(pending) \in 1..Len(pending) /\ pending[Len(pending)].name = own
      BY <1>1 DEF own, Top
    <2> QED  BY <1>4, <2>1 DEF IInv, PendingIsEarly
  <1>10. "jit" # None
    BY NoneAssumption
  <1>11. TypeOK'
    BY NextType DEF IInv, Next
  <1>12. Agree'
    <2> SUFFICES ASSUME NEW n \in FunName
                 PROVE  /\ jit'[n] = None /\ map_funs'[n].ptr # None
                           => map_funs'[n].ptr = process[n]
                        /\ jit'[n] # None /\ map_funs'[n].ptr # None
                           => map_funs'[n].ptr = jit'[n] \/ n \in early
      BY <1>3 DEF Agree
    <2>1. CASE n = own
      BY <1>4, <1>5, <1>7, <1>9, <1>10, <2>1
    <2>2. CASE n # own /\ n \notin refs
      BY <1>6, <1>7, <2>2 DEF IInv, Agree, Name
    <2>3. CASE n # own /\ n \in refs
      BY <1>3, <1>6, <1>7, <2>3, ResolveCases DEF IInv, Name
    <2> QED  BY <2>1, <2>2, <2>3
  <1>13. Defined'
    <2> SUFFICES ASSUME NEW n \in FunName
                 PROVE  latest'[n] = "so"
                        \/ latest'[n] = IF jit'[n] # None THEN jit'[n] ELSE process[n]
      BY <1>3 DEF Defined
    <2>1. CASE n = own
      BY <1>5, <1>10, <2>1
    <2>2. CASE n # own /\ n \notin refs
      BY <1>6, <1>8, <2>2 DEF IInv, Defined, Name
    <2>3. CASE n # own /\ n \in refs
      <3>1. jit[n] = None => Resolve(n) = process[n]
        BY ResolveCases DEF IInv
      <3> QED  BY <1>3, <1>6, <1>8, <2>3, <3>1 DEF IInv, Defined, Name
    <2> QED  BY <2>1, <2>2, <2>3
  <1>14. PendingIsEarly'
    <2> SUFFICES ASSUME NEW i \in 1..(Len(pending) - 1),
                        map_funs'[pending[i].name].ptr # None
                 PROVE  pending[i].name \in early \/ jit'[pending[i].name] # None
      BY <1>1, <1>3 DEF PendingIsEarly
    <2>1. i \in 1..Len(pending) /\ pending[i].name \in FunName
      BY <1>1, PendingName DEF IInv
    <2>2. CASE pending[i].name = own
      BY <1>5, <1>10, <2>2
    <2>3. CASE pending[i].name # own /\ pending[i].name \notin refs
      BY <1>6, <1>7, <2>1, <2>3 DEF IInv, PendingIsEarly, Name
    <2>4. CASE pending[i].name # own /\ pending[i].name \in refs
      BY <1>3, <1>6, <2>1, <2>4 DEF Name
    <2> QED  BY <2>2, <2>3, <2>4
  <1>15. Resolved'
    <2> SUFFICES ASSUME NEW n \in referred' PROVE jit'[n] # None
      BY DEF Resolved
    <2>1. n \in Name
      BY <1>2, <1>3 DEF IInv, TypeOK
    <2>2. n \in refs \/ jit[n] # None
      BY <1>3 DEF IInv, Resolved
    <2> QED  BY <1>3, <1>5, <1>6, <1>10, <2>1, <2>2
  <1>16. GlobalsAgree'
    <2> SUFFICES ASSUME NEW g \in GlobalName, map_globals'[g].ptr # None
                 PROVE  map_globals'[g].ptr = jit'[g]
      BY DEF GlobalsAgree
    <2>1. g # own /\ g \in Name /\ Ptr(g) = map_globals[g].ptr
      BY <1>2, NameAssumption DEF Name, Ptr
    <2>2. map_globals'[g].ptr = IF g \in refs THEN Resolve(g) ELSE Ptr(g)
      BY <1>3 DEF CacheGlobals
    <2>3. Ptr(g) # None => Ptr(g) = jit[g]
      BY <2>1 DEF IInv, GlobalsAgree
    <2> QED  BY <1>6, <2>1, <2>2, <2>3 DEF Resolve
  <1>17. LinkableIsCompiled'
    <2> SUFFICES ASSUME NEW n \in Name
                 PROVE  jit'[n] = "jit" <=> map_modules'[n] # "absent"
      BY DEF LinkableIsCompiled
    <2>1. CASE n = own
      BY <1>3, <1>4, <1>5, <2>1 DEF IInv, TypeOK
    <2>2. CASE n # own
      <3>1. map_modules'[n] = map_modules[n]
        BY <1>3, <2>2 DEF IInv, TypeOK
      <3>2. jit[n] = None => Resolve(n) = process[n]
        <4>1. CASE n \in FunName
          BY <4>1, ResolveCases DEF IInv
        <4>2. CASE n \in GlobalName
          BY <4>2, NameAssumption DEF IInv, GlobalsAgree, Resolve, Ptr
        <4> QED  BY <4>1, <4>2 DEF Name
      <3>3. process[n] # "jit"
        BY NoneAssumption DEF IInv, TypeOK
      <3> QED  BY <1>6, <1>10, <2>2, <3>1, <3>2, <3>3 DEF IInv, LinkableIsCompiled
    <2> QED  BY <2>1, <2>2
  <1> QED
    BY <1>11, <1>12, <1>13, <1>14, <1>15, <1>16, <1>17 DEF IInv

\* A global's storage joins the JIT and the modules for linking together.
LEMMA DefglobalStep ==
  ASSUME IInv, NEW g \in GlobalName, NEW isextern \in BOOLEAN,
         Defglobal(g, isextern)
  PROVE  IInv'
  <1>1. TypeOK'
    BY NextType DEF IInv, Next
  <1>2. g \in Name /\ g \notin FunName
    BY NameAssumption DEF Name
  <1>3. /\ map_globals' = [map_globals EXCEPT ![g] = New]
        /\ UNCHANGED <<map_funs, process, pending, latest, early, referred>>
    BY DEF Defglobal, ghosts
  <1>4. \/ UNCHANGED <<jit, map_modules>>
        \/ Stored(g)
    BY DEF Defglobal
  <1>5. \A n \in Name : n # g => jit'[n] = jit[n] /\ map_modules'[n] = map_modules[n]
    BY <1>4 DEF Stored, StoreModule, IInv, TypeOK
  <1>6. \/ jit'[g] = "jit" /\ map_modules'[g] = "module"
        \/ jit'[g] = jit[g] /\ map_modules'[g] = map_modules[g]
    BY <1>2, <1>4 DEF Stored, StoreModule, IInv, TypeOK
  <1>7. Agree'
    BY <1>2, <1>3, <1>5 DEF IInv, Agree, Name
  <1>8. Defined'
    BY <1>2, <1>3, <1>5 DEF IInv, Defined, Name
  <1>9. PendingIsEarly'
    <2>1. \A i \in 1..Len(pending) : pending[i].name \in FunName
      BY PendingName DEF IInv
    <2> QED  BY <1>2, <1>3, <1>5, <2>1 DEF IInv, PendingIsEarly, Name
  <1>10. Resolved'
    BY <1>3, <1>5, <1>6, NoneAssumption DEF IInv, TypeOK, Resolved
  <1>11. LinkableIsCompiled'
    BY <1>5, <1>6 DEF IInv, LinkableIsCompiled
  <1>12. GlobalsAgree'
    <2>1. map_globals'[g].ptr = None
      BY <1>3 DEF IInv, TypeOK, New
    <2>2. \A o \in GlobalName : o # g => map_globals'[o] = map_globals[o] /\ o \in Name
      BY <1>3 DEF IInv, TypeOK, Name
    <2> QED  BY <1>5, <2>1, <2>2 DEF IInv, GlobalsAgree
  <1> QED
    BY <1>1, <1>7, <1>8, <1>9, <1>10, <1>11, <1>12 DEF IInv

\* A step that changes none of the places, and of the functions being
\* compiled only what they refer to or their number.
LEMMA PlacesUnchanged ==
  ASSUME IInv, UNCHANGED <<map_funs, map_globals, jit, process, latest, early, referred>>,
         pending' = pending
  PROVE  Agree' /\ Defined' /\ PendingIsEarly' /\ Resolved' /\ GlobalsAgree'
  BY DEF IInv, Agree, Defined, PendingIsEarly, Resolved, GlobalsAgree

\* A reference or a lambda is added to the innermost function.
LEMMA TopStep ==
  ASSUME IInv, pending # << >>,
         NEW refs \in SUBSET Name, NEW lambdas \in SUBSET LambdaDef,
         pending' = Append(Below, [name |-> Top.name, refs |-> refs,
                                   lambdas |-> lambdas]),
         UNCHANGED <<map_funs, jit, early>>
  PROVE  PendingIsEarly'
  <1>1. Top \in Body /\ Below \in Seq(Body) /\ Len(pending) \in Nat \ {0}
        /\ Len(Below) = Len(pending) - 1
        /\ \A i \in 1..(Len(pending) - 1) : Below[i] = pending[i]
    BY BelowType, EmptySeq DEF Top, Below, IInv, TypeOK
  <1> DEFINE body == [name |-> Top.name, refs |-> refs, lambdas |-> lambdas]
  <1>2. body \in Body
    BY <1>1 DEF Body
  <1>3. /\ Len(pending') = Len(pending)
        /\ \A i \in 1..(Len(pending) - 1) : pending'[i] = pending[i]
        /\ pending'[Len(pending)] = body
    BY <1>1, <1>2, AppendType
  <1>4. \A i \in 1..Len(pending') : i \in 1..Len(pending) /\ pending'[i].name = pending[i].name
    BY <1>1, <1>3 DEF Top
  <1> QED  BY <1>4 DEF IInv, PendingIsEarly

\* Every step keeps the invariant.
LEMMA NextIInv == IInv /\ [Next]_vars => IInv'
  <1> SUFFICES ASSUME IInv, [Next]_vars PROVE IInv'
    OBVIOUS
  <1>0. TypeOK'
    BY NextType DEF IInv
  <1>1. ASSUME NEW n \in FunName, Funproto(n) PROVE IInv'
    BY <1>0, <1>1, DeclareStep, ProtoStep, JitUnchanged DEF Funproto, linkvars, IInv
  <1>2. ASSUME NEW n \in FunName, Macroproto(n) PROVE IInv'
    BY <1>0, <1>2, DeclareStep, ProtoStep, JitUnchanged DEF Macroproto, linkvars, IInv
  <1>3. ASSUME NEW n \in FunName, Defun(n) PROVE IInv'
    BY <1>0, <1>3, DeclareStep, BodyStep, JitUnchanged DEF Defun, linkvars, IInv
  <1>4. ASSUME NEW n \in FunName, Defmacro(n) PROVE IInv'
    BY <1>0, <1>4, DeclareStep, BodyStep, JitUnchanged DEF Defmacro, linkvars, IInv
  <1>5. ASSUME NEW n \in FunName, Call(n) PROVE IInv'
    <2>1. UNCHANGED <<jit, map_modules, map_globals, referred>>
      BY <1>5 DEF Call, linkvars
    <2> QED  BY <1>0, <1>5, <2>1, CallStep, JitUnchanged DEF IInv
  <1>6. ASSUME NEW n \in Name, Refer(n) PROVE IInv'
    <2>1. UNCHANGED <<map_funs, map_globals, jit, process, map_modules, latest, early, referred>>
      BY <1>6 DEF Refer, linkvars, ghosts
    <2>2. Top \in Body
      BY <1>6, BelowType DEF Refer, Top, IInv, TypeOK
    <2>3. Top.refs \cup {n} \in SUBSET Name /\ Top.lambdas \in SUBSET LambdaDef
      BY <2>2 DEF Body
    <2>4. PendingIsEarly'
      BY <1>6, <2>1, <2>3, TopStep DEF Refer
    <2>5. Agree' /\ Defined'
      BY <2>1 DEF IInv, Agree, Defined
    <2> QED  BY <1>0, <2>1, <2>4, <2>5, JitUnchanged DEF IInv
  <1>7. ASSUME NEW n \in Name, AddSymbol(n) PROVE IInv'
    <2>1. LinkableIsCompiled'
      BY <1>7 DEF AddSymbol, LinkableIsCompiled, IInv, TypeOK
    <2> QED  BY <1>0, <1>7, <2>1, PlacesUnchanged DEF AddSymbol, ghosts, IInv
  <1>8. ASSUME NEW object \in Objects, LinkIn(object) PROVE IInv'
    BY <1>0, <1>8, LoadStep, JitUnchanged DEF LinkIn, IInv
  <1>9. ASSUME NEW object \in Objects, NEW so \in BOOLEAN, Include(object, so)
        PROVE IInv'
    <2>1. CASE so
      <3>1. Load(object)
        BY <1>9, <2>1, Zenon DEF Include
      <3> QED  BY <1>0, <1>9, <3>1, LoadStep, JitUnchanged DEF Include, IInv
    <2>2. CASE ~so
      <3>1. UNCHANGED <<process, latest>>
        BY <1>9, <2>2, Zenon DEF Include
      <3> QED  BY <1>0, <1>9, <3>1, PlacesUnchanged, JitUnchanged DEF Include, IInv
    <2> QED  BY <2>1, <2>2
  <1>10. CASE EndInclude
    BY <1>0, <1>10, PlacesUnchanged, JitUnchanged DEF EndInclude, linkvars, ghosts, IInv
  <1>11. ASSUME NEW fm \in LambdaForm, Lambda(fm) PROVE IInv'
    <2>1. UNCHANGED <<map_funs, map_globals, jit, process, map_modules, latest, early, referred>>
      BY <1>11 DEF Lambda, linkvars
    <2>2. Top \in Body
      BY <1>11, BelowType DEF Lambda, Top, IInv, TypeOK
    <2>3. PICK got \in LambdaDef :
            pending' = Append(Below, [name |-> Top.name, refs |-> Top.refs,
                                      lambdas |-> Top.lambdas \cup {got}])
      <3> DEFINE named == {l \in Top.lambdas : l.name = LambdaName(fm)}
                 new   == [name |-> LambdaName(fm), form |-> fm]
                 first == IF named = {} THEN new ELSE CHOOSE l \in named : TRUE
      <3>1. new \in LambdaDef
        BY LambdaAssumption DEF LambdaName, LambdaNames, LambdaDef
      <3>2. first \in LambdaDef
        BY <2>2, <3>1 DEF Body
      <3> QED  BY <1>11, <3>2 DEF Lambda
    <2>4. Top.refs \in SUBSET Name /\ Top.lambdas \cup {got} \in SUBSET LambdaDef
      BY <2>2, <2>3 DEF Body
    <2>5. PendingIsEarly'
      BY <1>11, <2>1, <2>3, <2>4, TopStep DEF Lambda
    <2>6. Agree' /\ Defined'
      BY <2>1 DEF IInv, Agree, Defined
    <2> QED  BY <1>0, <2>1, <2>5, <2>6, JitUnchanged DEF IInv
  <1>12. CASE EndFunction
    BY <1>12, EndFunctionStep
  <1>13. ASSUME NEW g \in GlobalName, NEW isextern \in BOOLEAN,
                Defglobal(g, isextern)
         PROVE IInv'
    BY <1>13, DefglobalStep
  <1>14. CASE UNCHANGED vars
    BY <1>0, <1>14, PlacesUnchanged, JitUnchanged DEF vars, linkvars, ghosts, IInv
  <1> QED
    BY <1>1, <1>2, <1>3, <1>4, <1>5, <1>6, <1>7, <1>8, <1>9, <1>10, <1>11,
       <1>12, <1>13, <1>14 DEF Next
-----------------------------------------------------------------------------
\* The names, tables, symbols and stacks keep their types.
THEOREM TypeCorrect == Spec => []TypeOK
  <1>1. Init => TypeOK
    BY InitType
  <1>2. TypeOK /\ [Next]_vars => TypeOK'
    BY NextType
  <1> QED  BY <1>1, <1>2, PTL DEF Spec

\* The inductive invariant.
LEMMA Invariant == Spec => []IInv
  <1> QED  BY InitIInv, NextIInv, PTL DEF Spec

\* resolve_sym (jit.c:28-41) runs the latest definition of a macro, but for the
\* two exceptions CallRunsLatest names.
THEOREM CallsCorrect == Spec => []CallRunsLatest
  <1>1. IInv => CallRunsLatest
    BY LatestFollows DEF IInv
  <1> QED  BY <1>1, Invariant, PTL

\* A name compiled code refers to is in the JIT and is what a macro call finds
\* (llvmjit.cpp:90-114).
THEOREM CodeCorrect == Spec => []CodeAgreesWithMacros
  <1>1. IInv => CodeAgreesWithMacros
    BY AgreementFollows DEF IInv
  <1> QED  BY <1>1, Invariant, PTL

\* The compiler and the code it compiled use the same storage of a global
\* (jit.c:43-68, 88-105).
THEOREM GlobalsCorrect == Spec => []GlobalsAgree
  <1>1. IInv => GlobalsAgree
    BY DEF IInv
  <1> QED  BY <1>1, Invariant, PTL

\* A name can be linked into a program if and only if the JIT compiled it
\* (jit.c:74-105, 129-143).
THEOREM LinkingCorrect == Spec => []LinkableIsCompiled
  <1>1. IInv => LinkableIsCompiled
    BY DEF IInv
  <1> QED  BY <1>1, Invariant, PTL
-----------------------------------------------------------------------------
\* Lambdas are found under their own names, so that only forms of one
\* location can be mistaken for each other.
LambdaInv == TypeOK /\ LambdasNamed /\ LambdaIsOwn

\* A function that begins has no lambdas yet.
LEMMA BodyLambdas ==
  ASSUME LambdaInv, NEW n \in FunName, FunBody(n)
  PROVE  LambdasNamed'
  <1>1. CASE precompiled_module
    <2> DEFINE body == [name |-> n, refs |-> {}, lambdas |-> {}]
    <2>1. pending' = Append(pending, body)
      BY <1>1, Zenon DEF FunBody
    <2>2. body \in Body
      BY DEF Body
    <2>3. /\ Len(pending') = Len(pending) + 1 /\ Len(pending) \in Nat
          /\ \A i \in 1..Len(pending) : pending'[i] = pending[i]
          /\ pending'[Len(pending) + 1] = body
      BY <2>1, <2>2, AppendType DEF LambdaInv, TypeOK
    <2>4. \A i \in 1..Len(pending') : pending'[i].lambdas = {} \/
             (i \in 1..Len(pending) /\ pending'[i] = pending[i])
      BY <2>3
    <2> QED  BY <2>4 DEF LambdaInv, LambdasNamed
  <1>2. CASE ~precompiled_module
    <2>1. pending' = pending
      BY <1>2, Zenon DEF FunBody
    <2> QED  BY <2>1 DEF LambdaInv, LambdasNamed
  <1> QED  BY <1>1, <1>2

LEMMA InitLambda == Init => LambdaInv
  <1> SUFFICES ASSUME Init PROVE LambdaInv
    OBVIOUS
  <1>1. LambdasNamed
    BY DEF Init, LambdasNamed
  <1>2. LambdaIsOwn
    BY DEF Init, LambdaIsOwn
  <1> QED  BY InitType, <1>1, <1>2 DEF LambdaInv

\* Every step keeps the names of lambdas.
LEMMA NextLambda == LambdaInv /\ [Next]_vars => LambdaInv'
  <1> SUFFICES ASSUME LambdaInv, [Next]_vars PROVE LambdaInv'
    OBVIOUS
  <1>0. TypeOK'
    BY NextType DEF LambdaInv
  <1>1. ASSUME UNCHANGED <<pending, mistaken>> PROVE LambdaInv'
    BY <1>0, <1>1 DEF LambdaInv, LambdasNamed, LambdaIsOwn
  <1>2. ASSUME LambdasNamed', mistaken' = mistaken PROVE LambdaInv'
    BY <1>0, <1>2 DEF LambdaInv, LambdaIsOwn
  <1>3. ASSUME NEW n \in FunName, Defun(n) \/ Defmacro(n) PROVE LambdaInv'
    BY <1>2, <1>3, BodyLambdas DEF Defun, Defmacro
  <1>4. ASSUME pending # << >>
        PROVE  /\ Top \in Body /\ Below \in Seq(Body)
               /\ Len(Below) = Len(pending) - 1 /\ Len(pending) \in Nat \ {0}
               /\ \A i \in 1..(Len(pending) - 1) : Below[i] = pending[i]
    BY <1>4, BelowType, EmptySeq DEF Top, Below, LambdaInv, TypeOK
  <1>5. ASSUME pending # << >>, NEW body \in Body,
               \A l \in body.lambdas : l.name = LambdaName(l.form),
               pending' = Append(Below, body)
        PROVE  LambdasNamed'
    <2>1. /\ Len(pending') = Len(pending) /\ Len(pending) \in Nat \ {0}
          /\ \A i \in 1..(Len(pending) - 1) : pending'[i] = pending[i]
          /\ pending'[Len(pending)] = body
      BY <1>4, <1>5, AppendType
    <2>2. \A i \in 1..Len(pending') :
             pending'[i] = body \/ (i \in 1..Len(pending) /\ pending'[i] = pending[i])
      BY <2>1
    <2> QED  BY <1>5, <2>2 DEF LambdaInv, LambdasNamed
  <1>6. ASSUME pending # << >>
        PROVE  \A l \in Top.lambdas : l.name = LambdaName(l.form)
    BY <1>4, <1>6 DEF LambdaInv, LambdasNamed, Top
  <1>7. ASSUME NEW n \in Name, Refer(n) PROVE LambdaInv'
    <2> DEFINE body == [name |-> Top.name, refs |-> Top.refs \cup {n},
                        lambdas |-> Top.lambdas]
    <2>1. body \in Body
      BY <1>4, <1>7 DEF Refer, Body
    <2>2. \A l \in body.lambdas : l.name = LambdaName(l.form)
      BY <1>6, <1>7 DEF Refer
    <2>3. LambdasNamed'
      BY <1>5, <1>7, <2>1, <2>2 DEF Refer
    <2> QED  BY <1>2, <1>7, <2>3 DEF Refer, ghosts
  <1>8. CASE EndFunction
    <2>1. /\ pending # << >> /\ pending' = Below /\ mistaken' = mistaken
      BY <1>8 DEF EndFunction
    <2>2. LambdasNamed'
      BY <1>4, <2>1 DEF LambdaInv, LambdasNamed
    <2> QED  BY <1>2, <2>1, <2>2
  <1>9. ASSUME NEW fm \in LambdaForm, Lambda(fm) PROVE LambdaInv'
    <2> DEFINE named == {l \in Top.lambdas : l.name = LambdaName(fm)}
               new   == [name |-> LambdaName(fm), form |-> fm]
               got   == IF named = {} THEN new ELSE CHOOSE l \in named : TRUE
               body  == [name |-> Top.name, refs |-> Top.refs,
                         lambdas |-> Top.lambdas \cup {got}]
    <2>1. pending # << >>
      BY <1>9 DEF Lambda
    <2>2. pending' = Append(Below, body)
          /\ mistaken' = IF got.form = fm THEN mistaken ELSE mistaken \cup {fm}
      BY <1>9 DEF Lambda
    <2>3. new \in LambdaDef
      BY LambdaAssumption DEF LambdaName, LambdaNames, LambdaDef
    <2>4. got \in LambdaDef /\ got.name = LambdaName(fm)
      BY <1>4, <2>1, <2>3 DEF Body
    <2>5. got.name = LambdaName(got.form)
      <3>1. CASE named = {}
        BY <3>1
      <3>2. CASE named # {}
        BY <1>6, <2>1, <3>2
      <3> QED  BY <3>1, <3>2
    <2>6. LambdasNamed'
      <3> HIDE DEF got
      <3>1. body \in Body
        BY <1>4, <2>1, <2>4 DEF Body
      <3>2. \A l \in body.lambdas : l.name = LambdaName(l.form)
        BY <1>6, <2>1, <2>5
      <3> QED  BY <1>5, <2>1, <2>2, <3>1, <3>2
    <2>7. got.form = fm \/ FileIdx[fm] = 0
      <3> HIDE DEF got
      <3>1. got.form \in LambdaForm
        BY <2>4 DEF LambdaDef
      <3>2. FileIdx[got.form] = FileIdx[fm] /\ CharIdx[got.form] = CharIdx[fm]
        BY <2>4, <2>5 DEF LambdaName
      <3> QED  BY <3>1, <3>2, LocationAssumption
    <2>8. LambdaIsOwn'
      <3> HIDE DEF got
      <3> QED  BY <2>2, <2>7 DEF LambdaInv, LambdaIsOwn
    <2> QED  BY <1>0, <2>6, <2>8 DEF LambdaInv
  <1>10. ASSUME NEW n \in FunName, Funproto(n) \/ Macroproto(n) \/ Call(n)
         PROVE  LambdaInv'
    BY <1>1, <1>10 DEF Funproto, Macroproto, Call
  <1>11. ASSUME NEW n \in Name, AddSymbol(n) PROVE LambdaInv'
    BY <1>1, <1>11 DEF AddSymbol, ghosts
  <1>12. ASSUME NEW object \in Objects, NEW so \in BOOLEAN,
                LinkIn(object) \/ Include(object, so)
         PROVE  LambdaInv'
    BY <1>1, <1>12 DEF LinkIn, Include
  <1>13. CASE EndInclude
    BY <1>1, <1>13 DEF EndInclude, ghosts
  <1>14. ASSUME NEW g \in GlobalName, NEW isextern \in BOOLEAN,
                Defglobal(g, isextern)
         PROVE  LambdaInv'
    BY <1>1, <1>14 DEF Defglobal, ghosts
  <1>15. CASE UNCHANGED vars
    BY <1>1, <1>15 DEF vars, ghosts
  <1> QED
    BY <1>3, <1>7, <1>8, <1>9, <1>10, <1>11, <1>12, <1>13, <1>14, <1>15 DEF Next

\* No lambda that has a location is mistaken for another one (fun.c:194),
\* although its name holds only the file, twice, and the character.
THEOREM LambdasCorrect == Spec => []LambdaIsOwn
  <1>1. LambdaInv => LambdaIsOwn
    BY DEF LambdaInv
  <1> QED  BY <1>1, InitLambda, NextLambda, PTL DEF Spec
=============================================================================
