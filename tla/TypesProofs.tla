------------------------------ MODULE TypesProofs ------------------------------
(***************************************************************************)
(* Proofs about Types: the LLVM type of a value and the type the language  *)
(* gives it agree, whatever declarations, conversions and accesses made    *)
(* the value.                                                              *)
(*                                                                         *)
(* The proof rests on three facts about types.  The LLVM type of a pointer *)
(* or an array begins with its own prop (LowerWrapped), an alias has the   *)
(* LLVM type of what it stands for as long as what it stands for keeps its *)
(* meaning (LowerUnwrapped), and declarations give names a meaning but     *)
(* never take one away (StepKeeps).  So what a conversion returns has the  *)
(* LLVM type of the type that was asked for (ConvertAgrees).               *)
(***************************************************************************)
EXTENDS Types, SequenceTheorems, WellFoundedInduction, TLAPS

LEMMA MoreThanOne ==
  ASSUME NEW n \in Nat \ {0}, n # 1
  PROVE  n > 1
OBVIOUS

\* A set of numbers that is not empty has a least one.
LEMMA LeastOf ==
  ASSUME NEW S \in SUBSET Nat, S # {}
  PROVE  \E i \in S : \A j \in S : i <= j
<1>1. PICK R : R = OpToRel(<, Nat)
  OBVIOUS
<1>2. \A a, b \in Nat : a < b => <<a, b>> \in R
  BY <1>1 DEF OpToRel
<1>3. IsWellFoundedOn(R, Nat)
  BY <1>1, NatLessThanWellFounded
<1>4. PICK i \in S : \A j \in S : <<j, i>> \notin R
  BY <1>3, WFMin
<1>5. ASSUME NEW j \in S PROVE i <= j
  <2>1. i \in Nat /\ j \in Nat
    OBVIOUS
  <2>2. ~(j < i)
    BY <1>2, <1>4, <2>1
  <2> QED BY <2>1, <2>2
<1> QED BY <1>5

LEMMA LeadingProps ==
  ASSUME NEW n \in Nat, NEW S
  PROVE  /\ Leading(n, S) \in 0..n
         /\ \A i \in 1..Leading(n, S) : i \in S
         /\ Leading(n, S) < n => Leading(n, S) + 1 \notin S
<1> DEFINE T == {i \in 1..n : i \notin S}
<1>1. \E k \in 0..n : 1..k \subseteq S /\ (k < n => k + 1 \notin S)
  <2>1. CASE T = {}
    <3>1. 1..n \subseteq S
      BY <2>1
    <3> QED BY <3>1
  <2>2. CASE T # {}
    <3>1. PICK m \in T : \A j \in T : m <= j
      <4>1. T \in SUBSET Nat
        OBVIOUS
      <4> QED BY ONLY <2>2, <4>1, LeastOf
    <3>2. m - 1 \in 0..n /\ 1..(m - 1) \subseteq S /\ (m - 1) + 1 \notin S
      BY <3>1
    <3> QED BY <3>2
  <2> QED BY <2>1, <2>2
<1>2. PICK k : k = Leading(n, S)
  OBVIOUS
<1>3. k \in 0..n /\ 1..k \subseteq S /\ (k < n => k + 1 \notin S)
  BY <1>1, <1>2 DEF Leading
<1> QED BY <1>2, <1>3

LEMMA LeadingIs ==
  ASSUME NEW n \in Nat, NEW S, NEW k \in 0..n,
         \A i \in 1..k : i \in S, k < n => k + 1 \notin S
  PROVE  Leading(n, S) = k
<1>1. PICK m : m = Leading(n, S)
  OBVIOUS
<1>2. m \in 0..n /\ (\A i \in 1..m : i \in S) /\ (m < n => m + 1 \notin S)
  BY <1>1, LeadingProps
<1>3. ~(m < k)
  BY <1>2
<1>4. ~(k < m)
  BY <1>2
<1> QED BY <1>1, <1>2, <1>3, <1>4

\* What follows in a sequence from a place on.
LEMMA ElementProps ==
  ASSUME NEW X, NEW s \in Seq(X)
  PROVE  /\ \A i \in DOMAIN s : i \in Nat \ {0} /\ s[i] \in X
         /\ s # << >> => 1 \in DOMAIN s
<1>1. PICK n \in Nat : n = Len(s) /\ DOMAIN s = 1..n
  OBVIOUS
<1>2. \A i \in 1..n : s[i] \in X
  BY <1>1
<1>3. s # << >> => n # 0
  BY <1>1, EmptySeq
<1> QED BY <1>1, <1>2, <1>3

LEMMA FromProps ==
  ASSUME NEW X, NEW s \in Seq(X), NEW i \in 1..(Len(s) + 1)
  PROVE  /\ From(s, i) \in Seq(X)
         /\ Len(From(s, i)) = Len(s) + 1 - i
         /\ \A j \in 1..(Len(s) + 1 - i) : From(s, i)[j] = s[i + j - 1]
<1>1. \A j \in i..Len(s) : s[j] \in X
  OBVIOUS
<1>2. Len(s) \in Nat
  OBVIOUS
<1> QED BY <1>1, <1>2, SubSeqProperties DEF From

LEMMA FromFrom ==
  ASSUME NEW X, NEW s \in Seq(X), NEW i \in 1..(Len(s) + 1),
         NEW j \in 1..(Len(s) + 2 - i)
  PROVE  From(From(s, i), j) = From(s, i + j - 1)
<1>1. PICK t : t = From(s, i)
  OBVIOUS
<1>2. /\ t \in Seq(X) /\ Len(t) = Len(s) + 1 - i
      /\ \A k \in 1..(Len(s) + 1 - i) : t[k] = s[i + k - 1]
  BY <1>1, FromProps
<1>3. PICK u, v : u = From(t, j) /\ v = From(s, i + j - 1)
  OBVIOUS
<1>4. /\ u \in Seq(X) /\ Len(u) = Len(t) + 1 - j
      /\ \A k \in 1..(Len(t) + 1 - j) : u[k] = t[j + k - 1]
  <2>1. t \in Seq(X) /\ j \in 1..(Len(t) + 1)
    BY <1>2
  <2> QED BY ONLY <1>3, <2>1, FromProps
<1>5. /\ v \in Seq(X) /\ Len(v) = Len(s) + 1 - (i + j - 1)
      /\ \A k \in 1..(Len(s) + 1 - (i + j - 1)) : v[k] = s[(i + j - 1) + k - 1]
  <2>1. i + j - 1 \in 1..(Len(s) + 1)
    OBVIOUS
  <2> QED BY <1>3, <2>1, FromProps
<1>6. Len(u) = Len(v) /\ \A k \in 1..Len(u) : u[k] = v[k]
  BY <1>2, <1>4, <1>5
<1>7. u = v
  BY <1>4, <1>5, <1>6, SeqEqual
<1> QED BY <1>1, <1>3, <1>7

LEMMA FromOne ==
  ASSUME NEW X, NEW s \in Seq(X)
  PROVE  From(s, 1) = s
BY SubSeqFull DEF From

LEMMA TailIsFrom ==
  ASSUME NEW X, NEW s \in Seq(X), s # << >>
  PROVE  Tail(s) = From(s, 2)
BY TailIsSubSeq DEF From

\* A prop in front of a type.
LEMMA ConsProps ==
  ASSUME NEW X, NEW x \in X, NEW s \in Seq(X)
  PROVE  /\ <<x>> \o s \in Seq(X)
         /\ Len(<<x>> \o s) = Len(s) + 1
         /\ (<<x>> \o s)[1] = x
         /\ \A i \in 2..(Len(s) + 1) : (<<x>> \o s)[i] = s[i - 1]
         /\ From(<<x>> \o s, 2) = s
         /\ Tail(<<x>> \o s) = s
<1>1. PICK u : u = <<x>> \o s
  OBVIOUS
<1>2. /\ <<x>> \in Seq(X) /\ Len(<<x>>) = 1 /\ <<x>>[1] = x
  OBVIOUS
<1>3. /\ u \in Seq(X) /\ Len(u) = Len(s) + 1 /\ u[1] = x
      /\ \A i \in 2..(Len(s) + 1) : u[i] = s[i - 1]
  BY <1>1, <1>2, ConcatProperties
<1>4. PICK v : v = From(u, 2)
  OBVIOUS
<1>5. v \in Seq(X) /\ Len(v) = Len(s) /\ \A j \in 1..Len(s) : v[j] = s[j]
  <2>1. /\ v \in Seq(X) /\ Len(v) = Len(u) + 1 - 2
        /\ \A j \in 1..(Len(u) + 1 - 2) : v[j] = u[2 + j - 1]
    <3>1. u \in Seq(X) /\ 2 \in 1..(Len(u) + 1)
      BY <1>3
    <3> QED BY ONLY <1>4, <3>1, FromProps
  <2> QED BY <1>3, <2>1
<1>6. v = s
  BY <1>5, SeqEqual
<1>7. Tail(u) = v
  BY <1>3, <1>4, TailIsFrom
<1> QED BY <1>1, <1>3, <1>4, <1>6, <1>7

-----------------------------------------------------------------------------
\* The class of a prop tells its form.
LEMMA PropForm ==
  ASSUME NEW p \in Prop
  PROVE  /\ p[1] = "pointer" => p = Pointer
         /\ p[1] = "alias"   => p[2] \in DOMAIN aliases /\ p = AliasOf(p[2])
         /\ p[1] = "struct"  => p[2] \in DOMAIN structs /\ p = StructOf(p[2])
         /\ p[1] = "funptr"  => p[2] \in DOMAIN Fun
         /\ p[1] = "integer" => p[2] \in {1, 8, 32, 64}
         /\ p[1] = "float"   => p[2] \in {1, 2}
         /\ p[1] \in {"pointer", "array", "integer", "float", "alias", "struct",
                      "funptr"}
<1>1. CASE p = Pointer
  BY <1>1 DEF Pointer
<1>2. CASE p \in {"array"} \X Owner
  BY <1>2
<1>3. CASE p \in {"integer"} \X {1, 8, 32, 64} \X BOOLEAN
  BY <1>3
<1>4. CASE p \in {"float"} \X {1, 2}
  BY <1>4
<1>5. CASE p \in {"alias"} \X DOMAIN aliases
  BY <1>5 DEF AliasOf
<1>6. CASE p \in {"struct"} \X DOMAIN structs
  BY <1>6 DEF StructOf
<1>7. CASE p \in {"funptr"} \X DOMAIN Fun
  BY <1>7
<1> QED BY <1>1, <1>2, <1>3, <1>4, <1>5, <1>6, <1>7 DEF Prop

LEMMA LowerPropForm ==
  ASSUME TypeOK, NEW p \in Prop, p[1] # "alias"
  PROVE  LowerProp(p) \in LProp
<1>1. DOMAIN structs \subseteq DOMAIN Struct
  BY DEF TypeOK
<1>2. CASE p[1] \in {"integer", "float"}
  BY <1>2, PropForm DEF LowerProp, LProp
<1>3. CASE p[1] \in {"pointer", "array"}
  BY <1>3 DEF LowerProp, LProp
<1>4. CASE p[1] \in {"struct", "funptr"}
  BY <1>1, <1>4, PropForm DEF LowerProp, LProp
<1> QED BY <1>2, <1>3, <1>4, PropForm

LEMMA TypeForm ==
  ASSUME NEW t, IsType(t)
  PROVE  /\ t \in Seq(Prop) /\ Len(t) \in Nat \ {0} /\ t # << >>
         /\ \A i \in 1..Len(t) : t[i] \in Prop
         /\ From(t, 1) = t
<1>1. t \in Seq(Prop) /\ t # << >>
  BY DEF IsType
<1> QED BY <1>1, EmptySeq, FromOne

\* What follows in a type is a type.
LEMMA FromType ==
  ASSUME NEW t, IsType(t), NEW i \in 1..Len(t)
  PROVE  IsType(From(t, i))
<1>1. t \in Seq(Prop) /\ Len(t) \in Nat \ {0}
  BY TypeForm
<1>2. PICK u : u = From(t, i)
  OBVIOUS
<1>3. /\ u \in Seq(Prop) /\ Len(u) = Len(t) + 1 - i
      /\ \A j \in 1..(Len(t) + 1 - i) : u[j] = t[i + j - 1]
  <2>1. i \in 1..(Len(t) + 1)
    BY <1>1
  <2> QED BY <1>1, <1>2, <2>1, FromProps
<1>4. \A j \in 1..Len(u) : From(u, j) = From(t, i + j - 1)
  <2> SUFFICES ASSUME NEW j \in 1..Len(u) PROVE From(u, j) = From(t, i + j - 1)
    OBVIOUS
  <2>1. i \in 1..(Len(t) + 1) /\ j \in 1..(Len(t) + 2 - i)
    BY <1>1, <1>3
  <2> QED BY <1>1, <1>2, <2>1, FromFrom
<1>5. u # << >>
  BY <1>1, <1>3
<1>6. \A j \in 1..(Len(u) - 1) : u[j][1] \in {"pointer", "array", "alias"}
  <2> SUFFICES ASSUME NEW j \in 1..(Len(u) - 1)
               PROVE  u[j][1] \in {"pointer", "array", "alias"}
    OBVIOUS
  <2>1. i + j - 1 \in 1..(Len(t) - 1) /\ u[j] = t[i + j - 1]
    BY <1>1, <1>3
  <2> QED BY <2>1 DEF IsType
<1>7. u[Len(u)][1] # "array"
  <2>1. u[Len(u)] = t[Len(t)]
    BY <1>1, <1>3
  <2> QED BY <2>1 DEF IsType
<1>8. \A j \in 1..Len(u) : u[j][1] = "alias" => types[u[j][2]] = From(u, j)
  <2> SUFFICES ASSUME NEW j \in 1..Len(u), u[j][1] = "alias"
               PROVE  types[u[j][2]] = From(u, j)
    OBVIOUS
  <2>1. i + j - 1 \in 1..Len(t) /\ u[j] = t[i + j - 1]
    BY <1>1, <1>3
  <2>2. types[t[i + j - 1][2]] = From(t, i + j - 1)
    BY <2>1 DEF IsType
  <2> QED BY <1>4, <2>1, <2>2
<1> QED BY <1>2, <1>3, <1>5, <1>6, <1>7, <1>8 DEF IsType

\* A prop in front of a type: a pointer, an array, or an alias that was
\* declared so.
LEMMA ConsType ==
  ASSUME NEW t, IsType(t), NEW p \in Prop,
         p[1] \in {"pointer", "array", "alias"},
         p[1] = "alias" => types[p[2]] = <<p>> \o t
  PROVE  IsType(<<p>> \o t)
<1>1. t \in Seq(Prop) /\ Len(t) \in Nat \ {0}
  BY TypeForm
<1>2. PICK u : u = <<p>> \o t
  OBVIOUS
<1>3. /\ u \in Seq(Prop) /\ Len(u) = Len(t) + 1 /\ u[1] = p
      /\ \A i \in 2..(Len(t) + 1) : u[i] = t[i - 1]
      /\ From(u, 2) = t
  BY <1>1, <1>2, ConsProps
<1>4. u # << >>
  BY <1>1, <1>3
<1>5. \A i \in 1..(Len(u) - 1) : u[i][1] \in {"pointer", "array", "alias"}
  <2> SUFFICES ASSUME NEW i \in 1..(Len(u) - 1)
               PROVE  u[i][1] \in {"pointer", "array", "alias"}
    OBVIOUS
  <2>1. CASE i = 1
    BY <1>3, <2>1
  <2>2. CASE i # 1
    <3>1. i - 1 \in 1..(Len(t) - 1) /\ u[i] = t[i - 1]
      BY <1>1, <1>3, <2>2
    <3> QED BY <3>1 DEF IsType
  <2> QED BY <2>1, <2>2
<1>6. u[Len(u)][1] # "array"
  <2>1. u[Len(u)] = t[Len(t)]
    BY <1>1, <1>3
  <2> QED BY <2>1 DEF IsType
<1>7. \A i \in 1..Len(u) : u[i][1] = "alias" => types[u[i][2]] = From(u, i)
  <2> SUFFICES ASSUME NEW i \in 1..Len(u), u[i][1] = "alias"
               PROVE  types[u[i][2]] = From(u, i)
    OBVIOUS
  <2>1. CASE i = 1
    <3>1. From(u, 1) = u
      BY <1>3, FromOne
    <3> QED BY <1>2, <1>3, <2>1, <3>1
  <2>2. CASE i # 1
    <3>1. i - 1 \in 1..Len(t) /\ u[i] = t[i - 1] /\ i - 1 \in Nat
      BY <1>1, <1>3, <2>2
    <3>2. types[t[i - 1][2]] = From(t, i - 1)
      BY <3>1 DEF IsType
    <3>3. From(u, i) = From(t, i - 1)
      <4>1. /\ 2 \in 1..(Len(u) + 1) /\ i - 1 \in 1..(Len(u) + 2 - 2)
            /\ 2 + (i - 1) - 1 = i
        BY <1>1, <1>3, <3>1
      <4>2. From(From(u, 2), i - 1) = From(u, 2 + (i - 1) - 1)
        BY ONLY <1>3, <4>1, FromFrom
      <4> QED BY <1>3, <4>1, <4>2
    <3> QED BY <3>1, <3>2, <3>3
  <2> QED BY <2>1, <2>2
<1> QED BY <1>2, <1>3, <1>4, <1>5, <1>6, <1>7 DEF IsType

LEMMA OneType ==
  ASSUME NEW p \in Prop,
         p[1] \in {"pointer", "integer", "float", "struct", "funptr"}
  PROVE  IsType(<<p>>)
<1>1. PICK u : u = <<p>>
  OBVIOUS
<1>2. u \in Seq(Prop) /\ u # << >> /\ Len(u) = 1 /\ u[1] = p
  BY <1>1
<1> QED BY <1>1, <1>2 DEF IsType

\* Pointers and arrays in front of a type.
LEMMA WrappedType ==
  ASSUME NEW t, IsType(t), NEW w \in Seq(Prop),
         \A i \in 1..Len(w) : w[i][1] \in {"pointer", "array"}
  PROVE  IsType(w \o t)
<1>1. t \in Seq(Prop) /\ Len(t) \in Nat \ {0} /\ Len(w) \in Nat
  BY TypeForm
<1>2. PICK u : u = w \o t
  OBVIOUS
<1>3. /\ u \in Seq(Prop) /\ Len(u) = Len(w) + Len(t)
      /\ \A i \in 1..Len(w) : u[i] = w[i]
      /\ \A i \in (Len(w) + 1)..(Len(w) + Len(t)) : u[i] = t[i - Len(w)]
  BY <1>1, <1>2, ConcatProperties
<1>4. u # << >>
  BY <1>1, <1>3
<1>5. \A i \in 1..(Len(u) - 1) : u[i][1] \in {"pointer", "array", "alias"}
  <2> SUFFICES ASSUME NEW i \in 1..(Len(u) - 1)
               PROVE  u[i][1] \in {"pointer", "array", "alias"}
    OBVIOUS
  <2>1. CASE i <= Len(w)
    BY <1>1, <1>3, <2>1
  <2>2. CASE i > Len(w)
    <3>1. i - Len(w) \in 1..(Len(t) - 1) /\ u[i] = t[i - Len(w)]
      BY <1>1, <1>3, <2>2
    <3> QED BY <3>1 DEF IsType
  <2> QED BY <1>1, <1>3, <2>1, <2>2
<1>6. u[Len(u)][1] # "array"
  <2>1. u[Len(u)] = t[Len(t)]
    BY <1>1, <1>3
  <2> QED BY <2>1 DEF IsType
<1>7. \A i \in 1..Len(u) : u[i][1] = "alias" => types[u[i][2]] = From(u, i)
  <2> SUFFICES ASSUME NEW i \in 1..Len(u), u[i][1] = "alias"
               PROVE  types[u[i][2]] = From(u, i)
    OBVIOUS
  <2>1. i > Len(w)
    <3>1. ASSUME i <= Len(w) PROVE FALSE
      <4>1. i \in 1..Len(w)
        BY <1>1, <1>3, <3>1
      <4>2. u[i] = w[i] /\ w[i][1] \in {"pointer", "array"}
        BY <1>3, <4>1
      <4> QED BY <4>2
    <3> QED BY <1>1, <1>3, <3>1
  <2>2. i - Len(w) \in 1..Len(t) /\ u[i] = t[i - Len(w)]
    BY <1>1, <1>3, <2>1
  <2>3. types[t[i - Len(w)][2]] = From(t, i - Len(w))
    BY <2>2 DEF IsType
  <2>4. From(u, i) = From(t, i - Len(w))
    <3>1. /\ i \in (Len(w) + 1)..(Len(w) + Len(t))
          /\ Len(u) \in (Len(w) + 1)..(Len(w) + Len(t))
          /\ Len(u) - Len(w) = Len(t)
      BY <1>1, <1>3, <2>1
    <3>2. SubSeq(u, i, Len(u)) = SubSeq(t, i - Len(w), Len(u) - Len(w))
      BY <1>1, <1>2, <3>1, SubSeqOfConcat2
    <3> QED BY <3>1, <3>2 DEF From
  <2> QED BY <2>2, <2>3, <2>4
<1> QED BY <1>2, <1>3, <1>4, <1>5, <1>6, <1>7 DEF IsType

LEMMA BaseType ==
  ASSUME TypeOK, NEW e \in Expr, Known(e)
  PROVE  IsType(Base(e[Len(e)]))
<1>1. PICK n : n = e[Len(e)]
  OBVIOUS
<1>2. n \in DOMAIN types \cup DOMAIN Fun \cup {"ptr"}
  BY <1>1 DEF Known
<1>3. CASE n = "ptr"
  <2>1. Pointer \in Prop /\ Pointer[1] = "pointer"
    BY DEF Pointer, Prop
  <2>2. Base(n) = <<Pointer>>
    BY <1>3 DEF Base, Untyped
  <2> QED BY <1>1, <2>1, <2>2, OneType
<1>4. CASE n # "ptr" /\ n \in DOMAIN Fun
  <2>1. FunptrOf(n) \in Prop /\ FunptrOf(n)[1] = "funptr"
    BY <1>4 DEF FunptrOf, Prop
  <2>2. Base(n) = <<FunptrOf(n)>>
    BY <1>4 DEF Base
  <2> QED BY <1>1, <2>1, <2>2, OneType
<1>5. CASE n # "ptr" /\ n \notin DOMAIN Fun
  <2>1. Base(n) = types[n] /\ n \in DOMAIN types
    BY <1>2, <1>5 DEF Base
  <2> QED BY <1>1, <2>1 DEF TypeOK
<1> QED BY <1>3, <1>4, <1>5

\* A type expression that is evaluated gives a type.
LEMMA EvalIsType ==
  ASSUME TypeOK, NEW e \in Expr, Known(e), NEW owner \in Owner
  PROVE  IsType(EvalType(e, owner))
<1>1. PICK w : w = [i \in 1..(Len(e) - 1) |->
                      IF e[i] = "ptr" THEN Pointer ELSE Array(owner)]
  OBVIOUS
<1>2. PICK b : b = Base(e[Len(e)]) /\ IsType(b)
  BY BaseType
<1>3. Len(e) \in Nat \ {0}
  <2>1. e \in Seq(STRING) /\ e # << >>
    BY DEF Expr
  <2> QED BY <2>1, EmptySeq
<1>4. Pointer \in Prop /\ Array(owner) \in Prop
  BY DEF Pointer, Array, Prop
<1>5. w \in Seq(Prop) /\ Len(w) = Len(e) - 1
  BY <1>1, <1>3, <1>4
<1>6. \A i \in 1..Len(w) : w[i][1] \in {"pointer", "array"}
  BY <1>1, <1>5 DEF Pointer, Array
<1>7. EvalType(e, owner) = w \o b
  BY <1>1, <1>2 DEF EvalType
<1> QED BY <1>2, <1>5, <1>6, <1>7, WrappedType
-----------------------------------------------------------------------------
\* The LLVM type of an alias is the one that it was created with.
LEMMA LowerAlias ==
  ASSUME TypeOK, NEW t, IsType(t), t[1][1] = "alias"
  PROVE  /\ t[1][2] \in DOMAIN aliases
         /\ Lower(t) = aliases[t[1][2]]
         /\ types[t[1][2]] = t
<1>1. Len(t) \in Nat \ {0} /\ t[1] \in Prop /\ From(t, 1) = t
  BY TypeForm
<1>2. t[1][2] \in DOMAIN aliases /\ aliases[t[1][2]] \in Seq(LProp)
  BY <1>1, PropForm DEF TypeOK
<1>3. types[t[1][2]] = t
  BY <1>1 DEF IsType
<1>4. PICK k : k = Visible(t)
  OBVIOUS
<1>5. k = 0
  <2>1. PICK S : S = {i \in DOMAIN t : t[i][1] # "alias"}
    OBVIOUS
  <2>2. 0 + 1 \notin S
    BY <2>1
  <2>3. Leading(Len(t), S) = 0
    BY <1>1, <2>2, LeadingIs
  <2> QED BY <1>4, <2>1, <2>3 DEF Visible
<1>6. PICK a : a = aliases[t[1][2]]
  OBVIOUS
<1>7. Lower(t) = [i \in 1..0 |-> LowerProp(t[i])] \o a
  <2>1. PICK r : r = CASE k < Len(t)                   -> aliases[t[k + 1][2]]
                       [] k = Len(t) /\ t[k] = Pointer -> Byte
                       [] k = Len(t) /\ t[k] # Pointer -> << >>
    OBVIOUS
  <2>2. Lower(t) = [i \in 1..k |-> LowerProp(t[i])] \o r
    BY <1>4, <2>1 DEF Lower
  <2>3. k < Len(t) /\ k # Len(t) /\ k + 1 = 1
    BY <1>1, <1>5
  <2>4. r = aliases[t[k + 1][2]]
    BY <2>1, <2>3
  <2> QED BY <1>5, <1>6, <2>2, <2>3, <2>4
<1>8. [i \in 1..0 |-> LowerProp(t[i])] = << >>
  OBVIOUS
<1>9. << >> \o a = a
  BY <1>2, <1>6, ConcatEmptySeq
<1> QED BY <1>2, <1>3, <1>6, <1>7, <1>8, <1>9

LEMMA LoweredProps ==
  ASSUME NEW n \in Nat, NEW s, \A i \in 1..n : LowerProp(s[i]) \in LProp,
         NEW a, a = [i \in 1..n |-> LowerProp(s[i])]
  PROVE  a \in Seq(LProp) /\ Len(a) = n /\ \A i \in 1..n : a[i] = LowerProp(s[i])
OBVIOUS

\* What Lower puts behind the part of a type that has no alias.
LEMMA LowerSplit ==
  ASSUME TypeOK, NEW t, IsType(t)
  PROVE  \E k \in 0..Len(t), r \in Seq(LProp) :
           /\ k = Visible(t)
           /\ \A i \in 1..k : t[i][1] # "alias" /\ LowerProp(t[i]) \in LProp
           /\ k < Len(t) => t[k + 1][1] = "alias" /\ r = aliases[t[k + 1][2]]
           /\ k = Len(t) /\ t[k] = Pointer => r = Byte
           /\ k = Len(t) /\ t[k] # Pointer => r = << >>
           /\ Lower(t) = [i \in 1..k |-> LowerProp(t[i])] \o r
<1>1. /\ Len(t) \in Nat \ {0} /\ DOMAIN t = 1..Len(t)
      /\ \A i \in 1..Len(t) : t[i] \in Prop
  <2>1. t \in Seq(Prop)
    BY TypeForm
  <2> QED BY <2>1, TypeForm
<1>2. PICK S : S = {i \in DOMAIN t : t[i][1] # "alias"}
  OBVIOUS
<1>3. PICK k : k = Leading(Len(t), S)
  OBVIOUS
<1>4. /\ k \in 0..Len(t) /\ \A i \in 1..k : i \in S
      /\ k < Len(t) => k + 1 \notin S
  BY <1>1, <1>3, LeadingProps
<1>5. k = Visible(t)
  BY <1>2, <1>3 DEF Visible
<1>6. \A i \in 1..k : t[i][1] # "alias" /\ LowerProp(t[i]) \in LProp
  <2> SUFFICES ASSUME NEW i \in 1..k
               PROVE  t[i][1] # "alias" /\ LowerProp(t[i]) \in LProp
    OBVIOUS
  <2>1. t[i][1] # "alias" /\ t[i] \in Prop
    BY <1>1, <1>2, <1>4
  <2> QED BY <2>1, LowerPropForm
<1>7. k < Len(t) => t[k + 1][1] = "alias" /\ t[k + 1] \in Prop
  BY <1>1, <1>2, <1>4
<1>8. PICK r : r = CASE k < Len(t)                   -> aliases[t[k + 1][2]]
                     [] k = Len(t) /\ t[k] = Pointer -> Byte
                     [] k = Len(t) /\ t[k] # Pointer -> << >>
  OBVIOUS
<1>9. Lower(t) = [i \in 1..k |-> LowerProp(t[i])] \o r
  BY <1>5, <1>8 DEF Lower
<1>10. /\ k < Len(t) => r = aliases[t[k + 1][2]]
       /\ k = Len(t) /\ t[k] = Pointer => r = Byte
       /\ k = Len(t) /\ t[k] # Pointer => r = << >>
  BY <1>1, <1>4, <1>8
<1>11. r \in Seq(LProp)
  <2>1. CASE k < Len(t)
    BY <1>7, <1>10, <2>1, PropForm DEF TypeOK
  <2>2. CASE k = Len(t) /\ t[k] = Pointer
    <3>1. <<"i", 8>> \in LProp
      BY DEF LProp
    <3>2. Byte \in Seq(LProp)
      BY <3>1 DEF Byte
    <3> QED BY <1>10, <2>2, <3>2
  <2>3. CASE k = Len(t) /\ t[k] # Pointer
    BY <1>10, <2>3, EmptySeq
  <2>4. k < Len(t) \/ k = Len(t)
    <3>1. k \in 0..Len(t) /\ Len(t) \in Nat
      BY <1>1, <1>4
    <3> QED BY ONLY <3>1
  <2> QED BY <2>1, <2>2, <2>3, <2>4
<1> QED BY <1>4, <1>5, <1>6, <1>7, <1>9, <1>10, <1>11

LEMMA LowerType ==
  ASSUME TypeOK, NEW t, IsType(t)
  PROVE  Lower(t) \in Seq(LProp)
<1>1. PICK k \in 0..Len(t), r \in Seq(LProp) :
        /\ \A i \in 1..k : LowerProp(t[i]) \in LProp
        /\ Lower(t) = [i \in 1..k |-> LowerProp(t[i])] \o r
  BY LowerSplit
<1>2. [i \in 1..k |-> LowerProp(t[i])] \in Seq(LProp)
  <2>1. Len(t) \in Nat
    BY TypeForm
  <2> QED BY <1>1, <2>1
<1> QED BY <1>1, <1>2, ConcatProperties

\* A number, a struct or a function has a type of one prop.
LEMMA LowerOne ==
  ASSUME TypeOK, NEW t, IsType(t),
         t[1][1] \in {"integer", "float", "struct", "funptr"}
  PROVE  Len(t) = 1 /\ Lower(t) = <<LowerProp(t[1])>>
<1>1. Len(t) \in Nat \ {0}
  BY TypeForm
<1>2. Len(t) = 1
  <2>1. ASSUME Len(t) # 1 PROVE FALSE
    <3>1. 1 \in 1..(Len(t) - 1)
      BY <1>1, <2>1
    <3>2. t[1][1] \in {"pointer", "array", "alias"}
      BY <3>1 DEF IsType
    <3> QED BY <3>2
  <2> QED BY <2>1
<1>3. PICK k \in 0..Len(t), r \in Seq(LProp) :
        /\ \A i \in 1..k : LowerProp(t[i]) \in LProp
        /\ k < Len(t) => t[k + 1][1] = "alias"
        /\ k = Len(t) /\ t[k] # Pointer => r = << >>
        /\ Lower(t) = [i \in 1..k |-> LowerProp(t[i])] \o r
  BY LowerSplit
<1>4. k = 1
  <2>1. k # 0
    BY <1>2, <1>3
  <2> QED BY <1>2, <2>1
<1>5. r = << >>
  <2>1. t[1] # Pointer
    BY DEF Pointer
  <2> QED BY <1>2, <1>3, <1>4, <2>1
<1>6. PICK a : a = [i \in 1..k |-> LowerProp(t[i])]
  OBVIOUS
<1>7. a \in Seq(LProp) /\ a = <<LowerProp(t[1])>>
  <2>1. PICK p : p = LowerProp(t[1]) /\ p \in LProp
    BY <1>3, <1>4
  <2>2. a \in Seq(LProp) /\ Len(a) = 1 /\ a[1] = p
    BY <1>3, <1>4, <1>6, <2>1
  <2>3. <<p>> \in Seq(LProp) /\ Len(<<p>>) = 1 /\ <<p>>[1] = p
    BY <2>1
  <2> QED BY <2>1, <2>2, <2>3, SeqEqual
<1> QED BY <1>2, <1>3, <1>5, <1>6, <1>7, ConcatEmptySeq

\* The LLVM type of a pointer or an array begins with its own prop.
LEMMA LowerWrapped ==
  ASSUME TypeOK, NEW t, IsType(t), t[1][1] \in {"pointer", "array"}, Len(t) > 1
  PROVE  Lower(t) = <<LowerProp(t[1])>> \o Lower(From(t, 2))
<1>1. /\ t \in Seq(Prop) /\ Len(t) \in Nat \ {0} /\ DOMAIN t = 1..Len(t)
      /\ t[1] \in Prop
  BY TypeForm
<1>2. PICK u : u = From(t, 2)
  OBVIOUS
<1>3. /\ u \in Seq(Prop) /\ Len(u) = Len(t) - 1 /\ DOMAIN u = 1..Len(u)
      /\ \A i \in 1..Len(u) : u[i] = t[i + 1]
      /\ IsType(u)
  <2>1. 2 \in 1..(Len(t) + 1) /\ 2 \in 1..Len(t)
    BY <1>1
  <2>2. /\ u \in Seq(Prop) /\ Len(u) = Len(t) + 1 - 2
        /\ \A i \in 1..(Len(t) + 1 - 2) : u[i] = t[2 + i - 1]
    BY <1>1, <1>2, <2>1, FromProps
  <2>3. IsType(u)
    BY <1>2, <2>1, FromType
  <2> QED BY <1>1, <2>2, <2>3
<1>4. PICK k \in 0..Len(u), r \in Seq(LProp) :
        /\ k = Visible(u)
        /\ \A i \in 1..k : u[i][1] # "alias" /\ LowerProp(u[i]) \in LProp
        /\ k < Len(u) => u[k + 1][1] = "alias" /\ r = aliases[u[k + 1][2]]
        /\ k = Len(u) /\ u[k] = Pointer => r = Byte
        /\ k = Len(u) /\ u[k] # Pointer => r = << >>
        /\ Lower(u) = [i \in 1..k |-> LowerProp(u[i])] \o r
  BY <1>3, LowerSplit
<1>5. PICK m \in 0..Len(t), q \in Seq(LProp) :
        /\ m = Visible(t)
        /\ \A i \in 1..m : t[i][1] # "alias" /\ LowerProp(t[i]) \in LProp
        /\ m < Len(t) => t[m + 1][1] = "alias" /\ q = aliases[t[m + 1][2]]
        /\ m = Len(t) /\ t[m] = Pointer => q = Byte
        /\ m = Len(t) /\ t[m] # Pointer => q = << >>
        /\ Lower(t) = [i \in 1..m |-> LowerProp(t[i])] \o q
  BY LowerSplit
<1>6. m = k + 1
  <2>1. PICK S : S = {i \in DOMAIN t : t[i][1] # "alias"}
    OBVIOUS
  <2>2. k + 1 \in 0..Len(t)
    BY <1>1, <1>3, <1>4
  <2>3. \A i \in 1..(k + 1) : i \in S
    <3> SUFFICES ASSUME NEW i \in 1..(k + 1) PROVE i \in S
      OBVIOUS
    <3>1. CASE i = 1
      BY <1>1, <2>1, <3>1
    <3>2. CASE i # 1
      <4>1. i - 1 \in 1..k /\ i - 1 \in 1..Len(u) /\ u[i - 1] = t[i] /\ i \in 1..Len(t)
        BY <1>1, <1>3, <1>4, <3>2
      <4> QED BY <1>1, <1>4, <2>1, <4>1
    <3> QED BY <3>1, <3>2
  <2>4. k + 1 < Len(t) => (k + 1) + 1 \notin S
    <3> SUFFICES ASSUME k + 1 < Len(t) PROVE (k + 1) + 1 \notin S
      OBVIOUS
    <3>1. k < Len(u) /\ k + 1 \in 1..Len(u) /\ u[k + 1] = t[(k + 1) + 1]
      BY <1>1, <1>3, <1>4
    <3> QED BY <1>4, <2>1, <3>1
  <2>5. Leading(Len(t), S) = k + 1
    BY <1>1, <2>2, <2>3, <2>4, LeadingIs
  <2> QED BY <1>5, <2>1, <2>5 DEF Visible
<1>7. q = r
  <2>1. CASE k < Len(u)
    <3>1. m < Len(t) /\ k + 1 \in 1..Len(u) /\ u[k + 1] = t[m + 1]
      BY <1>1, <1>3, <1>4, <1>6, <2>1
    <3> QED BY <1>4, <1>5, <2>1, <3>1
  <2>2. CASE k = Len(u)
    <3>1. m = Len(t) /\ k \in 1..Len(u) /\ u[k] = t[m]
      BY <1>1, <1>3, <1>4, <1>6, <2>2
    <3> QED BY <1>4, <1>5, <2>2, <3>1
  <2> QED BY <1>3, <1>4, <2>1, <2>2
<1>8. PICK x : x = LowerProp(t[1]) /\ x \in LProp
  BY <1>1, LowerPropForm
<1>9. PICK a, b : /\ a = [i \in 1..m |-> LowerProp(t[i])]
                  /\ b = [i \in 1..k |-> LowerProp(u[i])]
  OBVIOUS
<1>10. /\ a \in Seq(LProp) /\ Len(a) = m /\ \A i \in 1..m : a[i] = LowerProp(t[i])
       /\ b \in Seq(LProp) /\ Len(b) = k /\ \A i \in 1..k : b[i] = LowerProp(u[i])
  <2>1. m \in Nat /\ k \in Nat
    BY <1>1, <1>3
  <2>2. a \in Seq(LProp) /\ Len(a) = m /\ \A i \in 1..m : a[i] = LowerProp(t[i])
    BY <1>5, <1>9, <2>1, LoweredProps
  <2>3. b \in Seq(LProp) /\ Len(b) = k /\ \A i \in 1..k : b[i] = LowerProp(u[i])
    BY <1>4, <1>9, <2>1, LoweredProps
  <2> QED BY <2>2, <2>3
<1>11. a = <<x>> \o b
  <2>1. PICK c : c = <<x>> \o b
    OBVIOUS
  <2>2. /\ c \in Seq(LProp) /\ Len(c) = k + 1 /\ c[1] = x
        /\ \A i \in 2..(k + 1) : c[i] = b[i - 1]
    BY <1>8, <1>10, <2>1, ConsProps
  <2>3. \A i \in 1..Len(a) : a[i] = c[i]
    <3> SUFFICES ASSUME NEW i \in 1..Len(a) PROVE a[i] = c[i]
      OBVIOUS
    <3>1. CASE i = 1
      BY <1>8, <1>10, <2>2, <3>1
    <3>2. CASE i # 1
      <4>1. i - 1 \in 1..k /\ i \in 2..(k + 1) /\ i \in 1..m /\ i - 1 \in 1..Len(u)
        BY <1>4, <1>3, <1>6, <1>10, <3>2
      <4>2. u[i - 1] = t[i]
        BY <1>3, <4>1
      <4> QED BY <1>10, <2>2, <4>1, <4>2
    <3> QED BY <3>1, <3>2
  <2> QED BY <1>6, <1>10, <2>1, <2>2, <2>3, SeqEqual
<1>12. <<x>> \in Seq(LProp)
  BY <1>8
<1>13. (<<x>> \o b) \o r = <<x>> \o (b \o r)
  BY <1>10, <1>12, ConcatAssociative
<1> QED BY <1>2, <1>4, <1>5, <1>7, <1>8, <1>9, <1>11, <1>13
-----------------------------------------------------------------------------
\* An alias has the LLVM type of what it stands for.
AliasesAgree ==
  \A n \in DOMAIN aliases :
    Len(types[n]) > 1 => aliases[n] = Lower(From(types[n], 2))

LEMMA LowerStep ==
  ASSUME TypeOK, AliasesAgree, NEW t, IsType(t), t[1][1] = "alias", Len(t) > 1
  PROVE  Lower(t) = Lower(From(t, 2))
<1>1. /\ t[1][2] \in DOMAIN aliases
      /\ Lower(t) = aliases[t[1][2]]
      /\ types[t[1][2]] = t
  BY LowerAlias
<1> QED BY <1>1 DEF AliasesAgree

LEMMA DepthProps ==
  ASSUME NEW t, IsType(t)
  PROVE  /\ Depth(t) \in 0..(Len(t) - 1)
         /\ \A i \in 1..Depth(t) : t[i][1] = "alias"
         /\ Depth(t) < Len(t) - 1 => t[Depth(t) + 1][1] # "alias"
<1>1. Len(t) \in Nat \ {0}
  BY TypeForm
<1>2. PICK S : S = {i \in 1..(Len(t) - 1) : t[i][1] = "alias"}
  OBVIOUS
<1>3. PICK k : k = Leading(Len(t), S)
  OBVIOUS
<1>4. /\ k \in 0..Len(t)
      /\ \A i \in 1..k : i \in S
      /\ k < Len(t) => k + 1 \notin S
  BY <1>1, <1>3, LeadingProps
<1>5. k = Depth(t)
  BY <1>2, <1>3 DEF Depth
<1>6. k # Len(t)
  <2>1. Len(t) \notin S
    BY <1>1, <1>2
  <2> QED BY <1>1, <1>4, <2>1
<1>7. k < Len(t) - 1 => k + 1 \in 1..(Len(t) - 1) /\ k + 1 \notin S
  BY <1>1, <1>4
<1>8. k \in 0..(Len(t) - 1)
  <2>1. k \in 0..Len(t) /\ Len(t) \in Nat /\ k # Len(t)
    BY <1>1, <1>4, <1>6
  <2> QED BY ONLY <2>1
<1>9. \A i \in 1..k : t[i][1] = "alias"
  BY <1>2, <1>4
<1>10. k < Len(t) - 1 => t[k + 1][1] # "alias"
  BY <1>2, <1>7
<1> QED BY <1>5, <1>8, <1>9, <1>10

\* However many of its aliases are unwrapped, a type keeps its LLVM type.
LEMMA LowerUnwrapped ==
  ASSUME TypeOK, AliasesAgree, NEW t, IsType(t), NEW j \in 0..Depth(t)
  PROVE  /\ IsType(From(t, j + 1))
         /\ Lower(From(t, j + 1)) = Lower(t)
         /\ j > 0 => aliases[t[j][2]] = Lower(From(t, j + 1))
<1>1. t \in Seq(Prop) /\ Len(t) \in Nat \ {0} /\ From(t, 1) = t
  BY TypeForm
<1>2. PICK d : d = Depth(t)
  OBVIOUS
<1>3. d \in 0..(Len(t) - 1) /\ \A i \in 1..d : t[i][1] = "alias"
  BY <1>2, DepthProps
<1>4. \A i \in 0..d : IsType(From(t, i + 1))
  <2> SUFFICES ASSUME NEW i \in 0..d PROVE IsType(From(t, i + 1))
    OBVIOUS
  <2>1. i + 1 \in 1..Len(t)
    BY <1>1, <1>3
  <2> QED BY <2>1, FromType
<1>5. \A i \in 1..d : /\ aliases[t[i][2]] = Lower(From(t, i))
                      /\ Lower(From(t, i)) = Lower(From(t, i + 1))
  <2> SUFFICES ASSUME NEW i \in 1..d
               PROVE  /\ aliases[t[i][2]] = Lower(From(t, i))
                      /\ Lower(From(t, i)) = Lower(From(t, i + 1))
    OBVIOUS
  <2>1. i \in 1..(Len(t) + 1) /\ i \in 1..Len(t) /\ i - 1 \in 0..d
    BY <1>1, <1>3
  <2>2. PICK u : u = From(t, i)
    OBVIOUS
  <2>3. /\ Len(u) = Len(t) + 1 - i
        /\ \A l \in 1..(Len(t) + 1 - i) : u[l] = t[i + l - 1]
    BY <1>1, <2>1, <2>2, FromProps
  <2>4. u[1] = t[i] /\ Len(u) > 1
    BY <1>1, <1>3, <2>3
  <2>5. u[1][1] = "alias" /\ IsType(u)
    BY <1>3, <2>1, <2>2, <2>4, FromType
  <2>6. From(u, 2) = From(t, i + 1)
    <3>1. 2 \in 1..(Len(t) + 2 - i) /\ i + 2 - 1 = i + 1
      BY <1>1, <1>3
    <3> QED BY <1>1, <2>1, <2>2, <3>1, FromFrom
  <2>7. Lower(u) = aliases[u[1][2]]
    BY <2>5, LowerAlias
  <2>8. Lower(u) = Lower(From(u, 2))
    BY <2>4, <2>5, LowerStep
  <2> QED BY <2>2, <2>4, <2>6, <2>7, <2>8
<1>6. \A i \in 0..d : Lower(From(t, i + 1)) = Lower(t)
  <2>1. PICK T : T = {i \in 0..d : Lower(From(t, i + 1)) # Lower(t)}
    OBVIOUS
  <2>2. CASE T = {}
    BY <2>1, <2>2
  <2>3. CASE T # {}
    <3>1. T \in SUBSET Nat
      BY <1>3, <2>1
    <3>2. PICK m \in T : \A i \in T : m <= i
      BY ONLY <2>3, <3>1, LeastOf
    <3>3. m \in 0..d /\ Lower(From(t, m + 1)) # Lower(t)
      BY <2>1, <3>2
    <3>4. m # 0
      BY <1>1, <3>3
    <3>5. m - 1 \in 0..d /\ m \in 1..d /\ ~(m <= m - 1) /\ (m - 1) + 1 = m
      BY <1>3, <3>3, <3>4
    <3>6. Lower(From(t, (m - 1) + 1)) = Lower(t)
      BY <2>1, <3>2, <3>5
    <3> QED BY <1>5, <3>3, <3>5, <3>6
  <2> QED BY <2>2, <2>3
<1>7. j \in 0..d /\ (j > 0 => j \in 1..d)
  BY <1>2, <1>3
<1> QED BY <1>4, <1>5, <1>6, <1>7
-----------------------------------------------------------------------------
\* No step takes a name its meaning.
Keeps ==
  /\ \A n \in DOMAIN types : n \in DOMAIN types' /\ types'[n] = types[n]
  /\ \A n \in DOMAIN aliases : n \in DOMAIN aliases' /\ aliases'[n] = aliases[n]
  /\ \A n \in DOMAIN structs : n \in DOMAIN structs' /\ structs'[n] = structs[n]

LEMMA TypeKeeps ==
  ASSUME TypeOK, Keeps, NEW t, IsType(t)
  PROVE  IsType(t)'
<1>1. Prop \subseteq Prop'
  BY DEF Prop, Keeps
<1>2. t \in Seq(Prop) /\ \A i \in 1..Len(t) : t[i] \in Prop
  BY TypeForm
<1>3. t \in Seq(Prop')
  BY <1>1, <1>2, SeqMonotonic
<1>4. \A i \in 1..Len(t) : t[i][1] = "alias" => types'[t[i][2]] = From(t, i)
  <2> SUFFICES ASSUME NEW i \in 1..Len(t), t[i][1] = "alias"
               PROVE  types'[t[i][2]] = From(t, i)
    OBVIOUS
  <2>1. t[i][2] \in DOMAIN aliases
    BY <1>2, PropForm
  <2>2. t[i][2] \in DOMAIN types /\ types[t[i][2]] = From(t, i)
    BY <2>1 DEF TypeOK, IsType
  <2> QED BY <2>2 DEF Keeps
<1> QED BY <1>3, <1>4 DEF IsType

LEMMA LowerKeeps ==
  ASSUME TypeOK, Keeps, NEW t, IsType(t)
  PROVE  Lower(t)' = Lower(t)
<1>1. PICK k \in 0..Len(t) :
        k = Visible(t) /\ (k < Len(t) => t[k + 1][1] = "alias")
  BY LowerSplit
<1>2. /\ Len(t) \in Nat \ {0}
      /\ \A i \in 1..Len(t) : t[i] \in Prop
  BY TypeForm
<1>3. k < Len(t) => aliases'[t[k + 1][2]] = aliases[t[k + 1][2]]
  <2> SUFFICES ASSUME k < Len(t)
               PROVE  aliases'[t[k + 1][2]] = aliases[t[k + 1][2]]
    OBVIOUS
  <2>1. k + 1 \in 1..Len(t)
    BY <1>1, <1>2
  <2>2. t[k + 1][2] \in DOMAIN aliases
    BY <1>1, <1>2, <2>1, PropForm
  <2> QED BY <2>2 DEF Keeps
<1>4. PICK r : r = CASE k < Len(t)                   -> aliases[t[k + 1][2]]
                     [] k = Len(t) /\ t[k] = Pointer -> Byte
                     [] k = Len(t) /\ t[k] # Pointer -> << >>
  OBVIOUS
<1>5. PICK q : q = CASE k < Len(t)                   -> aliases'[t[k + 1][2]]
                     [] k = Len(t) /\ t[k] = Pointer -> Byte
                     [] k = Len(t) /\ t[k] # Pointer -> << >>
  OBVIOUS
<1>6. q = r
  BY <1>1, <1>2, <1>3, <1>4, <1>5
<1>7. Lower(t) = [i \in 1..k |-> LowerProp(t[i])] \o r
  BY <1>1, <1>4 DEF Lower
<1>8. Lower(t)' = [i \in 1..k |-> LowerProp(t[i])] \o q
  BY <1>1, <1>5 DEF Lower
<1> QED BY <1>6, <1>7, <1>8
-----------------------------------------------------------------------------
\* Values, and what they are converted to, of which the two types agree.
IsValue(v) ==
  /\ v \in [l: Seq(LProp), t: Seq(Prop), lv: BOOLEAN, loose: BOOLEAN]
  /\ IsType(v.t)
  /\ v.lv => v.l # << >> /\ v.l[1] = <<"ptr">>
Agrees(v) == v.loose \/ v.l = (IF v.lv THEN Ptr(Lower(v.t)) ELSE Lower(v.t))
Good(v)   == IsValue(v) /\ Agrees(v)
IsRead(v) == Good(v) /\ ~v.lv
IsTarget(to) ==
  /\ to \in [l: Seq(LProp), t: Seq(Prop), loose: BOOLEAN]
  /\ IsType(to.t)
  /\ to.loose \/ to.l = Lower(to.t)

LEMMA PtrProps ==
  ASSUME NEW l \in Seq(LProp)
  PROVE  /\ Ptr(l) \in Seq(LProp) /\ Ptr(l) # << >> /\ Ptr(l)[1] = <<"ptr">>
         /\ Tail(Ptr(l)) = l
<1>1. <<"ptr">> \in LProp
  BY DEF LProp
<1>2. PICK u : u = <<<<"ptr">>>> \o l
  OBVIOUS
<1>3. u \in Seq(LProp) /\ Len(u) = Len(l) + 1 /\ u[1] = <<"ptr">> /\ Tail(u) = l
  BY <1>1, <1>2, ConsProps
<1>4. u # << >>
  BY <1>3
<1> QED BY <1>2, <1>3, <1>4 DEF Ptr

LEMMA PointeeProps ==
  ASSUME TypeOK, NEW v, Good(v), v.lv
  PROVE  /\ Pointee(v) \in Seq(LProp)
         /\ v.loose \/ Pointee(v) = Lower(v.t)
<1>1. v.l \in Seq(LProp) /\ v.l # << >> /\ IsType(v.t)
  BY DEF Good, IsValue
<1>2. Tail(v.l) \in Seq(LProp)
  BY <1>1, HeadTailProperties
<1>3. v.loose \/ v.l = Ptr(Lower(v.t))
  BY DEF Good, Agrees
<1>4. Tail(Ptr(Lower(v.t))) = Lower(v.t)
  BY <1>1, LowerType, PtrProps
<1> QED BY <1>2, <1>3, <1>4 DEF Pointee

LEMMA ReadProps ==
  ASSUME TypeOK, NEW v, Good(v)
  PROVE  /\ IsRead(PrepareRead(v)) /\ PrepareRead(v).t = v.t
         /\ PrepareRead(v).loose = v.loose
         /\ ~v.lv => PrepareRead(v) = v
<1>1. CASE v.lv
  <2>1. PICK p : p = Pointee(v)
    OBVIOUS
  <2>2. p \in Seq(LProp) /\ (v.loose \/ p = Lower(v.t))
    BY <1>1, <2>1, PointeeProps
  <2>3. PICK w : w = [l |-> p, t |-> v.t, lv |-> FALSE, loose |-> v.loose]
    OBVIOUS
  <2>4. w = PrepareRead(v)
    BY <1>1, <2>1, <2>3 DEF PrepareRead, Rtv
  <2>5. w.l = p /\ w.t = v.t /\ w.lv = FALSE /\ w.loose = v.loose
    BY <2>3
  <2>6. w \in [l: Seq(LProp), t: Seq(Prop), lv: BOOLEAN, loose: BOOLEAN]
    BY <2>2, <2>3 DEF Good, IsValue
  <2>7. IsValue(w)
    BY <2>5, <2>6 DEF Good, IsValue
  <2>8. Agrees(w)
    BY <2>2, <2>5 DEF Agrees
  <2> QED BY <1>1, <2>4, <2>5, <2>7, <2>8 DEF IsRead, Good
<1>2. CASE ~v.lv
  BY <1>2 DEF PrepareRead, IsRead
<1> QED BY <1>1, <1>2

LEMMA UnwrapTypeProps ==
  ASSUME TypeOK, NEW v, Good(v)
  PROVE  /\ IsTarget(UnwrapType(v)) /\ UnwrapType(v).t = v.t
         /\ UnwrapType(v).loose = v.loose
         /\ v.lv => UnwrapType(v).l = Pointee(v)
         /\ ~v.lv => UnwrapType(v).l = v.l
<1>1. PICK p : p = IF v.lv THEN Pointee(v) ELSE v.l
  OBVIOUS
<1>2. v \in [l: Seq(LProp), t: Seq(Prop), lv: BOOLEAN, loose: BOOLEAN] /\ IsType(v.t)
  BY DEF Good, IsValue
<1>3. p \in Seq(LProp) /\ (v.loose \/ p = Lower(v.t))
  BY <1>1, <1>2, PointeeProps DEF Good, Agrees
<1>4. PICK w : w = [l |-> p, t |-> v.t, loose |-> v.loose]
  OBVIOUS
<1>5. w = UnwrapType(v)
  BY <1>1, <1>4 DEF UnwrapType
<1>6. w.l = p /\ w.t = v.t /\ w.loose = v.loose
  BY <1>4
<1>7. w \in [l: Seq(LProp), t: Seq(Prop), loose: BOOLEAN]
  BY <1>2, <1>3, <1>4
<1> QED BY <1>1, <1>2, <1>3, <1>5, <1>6, <1>7 DEF IsTarget

LEMMA UnwrappedProps ==
  ASSUME NEW t, IsType(t), NEW k \in Nat
  PROVE  Unwrapped(t, k) \in 0..Depth(t) /\ (k = 0 => Unwrapped(t, k) = 0)
<1>1. Depth(t) \in Nat
  <2>1. Depth(t) \in 0..(Len(t) - 1) /\ Len(t) \in Nat \ {0}
    BY DepthProps, TypeForm
  <2> QED BY ONLY <2>1
<1> QED BY <1>1 DEF Unwrapped

LEMMA UnwrapProps ==
  ASSUME TypeOK, AliasesAgree, NEW v, IsRead(v), NEW k \in Nat
  PROVE  /\ IsRead(Unwrap(v, k))
         /\ Lower(Unwrap(v, k).t) = Lower(v.t)
<1>1. PICK j : j = Unwrapped(v.t, k)
  OBVIOUS
<1>2. IsType(v.t) /\ v \in [l: Seq(LProp), t: Seq(Prop), lv: BOOLEAN, loose: BOOLEAN]
  BY DEF IsRead, Good, IsValue
<1>3. j \in 0..Depth(v.t)
  BY <1>1, <1>2, UnwrappedProps
<1>4. PICK t : t = From(v.t, j + 1)
  OBVIOUS
<1>5. IsType(t) /\ Lower(t) = Lower(v.t)
  BY <1>2, <1>3, <1>4, LowerUnwrapped
<1>6. PICK w : w = [v EXCEPT !.t = t]
  OBVIOUS
<1>7. w = Unwrap(v, k)
  BY <1>1, <1>4, <1>6 DEF Unwrap
<1>8. w.l = v.l /\ w.t = t /\ w.lv = v.lv /\ w.loose = v.loose
  BY <1>2, <1>6
<1>9. w \in [l: Seq(LProp), t: Seq(Prop), lv: BOOLEAN, loose: BOOLEAN]
  BY <1>2, <1>5, <1>6 DEF IsType
<1> QED BY <1>5, <1>7, <1>8, <1>9 DEF IsRead, Good, IsValue, Agrees

LEMMA UnwrapToProps ==
  ASSUME TypeOK, AliasesAgree, NEW to, IsTarget(to), NEW k \in Nat
  PROVE  /\ IsTarget(UnwrapTo(to, k))
         /\ Lower(UnwrapTo(to, k).t) = Lower(to.t)
         /\ k = 0 => UnwrapTo(to, k) = to
<1>1. PICK j : j = Unwrapped(to.t, k)
  OBVIOUS
<1>2. IsType(to.t)
  BY DEF IsTarget
<1>3. j \in 0..Depth(to.t) /\ (k = 0 => j = 0)
  BY <1>1, <1>2, UnwrappedProps
<1>4. CASE j = 0
  BY <1>1, <1>4 DEF UnwrapTo
<1>5. CASE j # 0
  <2>1. PICK t, l : t = From(to.t, j + 1) /\ l = aliases[to.t[j][2]]
    OBVIOUS
  <2>2. j > 0
    BY <1>2, <1>3, <1>5, DepthProps, TypeForm
  <2>3. IsType(t) /\ Lower(t) = Lower(to.t) /\ l = Lower(t)
    BY <1>2, <1>3, <2>1, <2>2, LowerUnwrapped
  <2>4. PICK w : w = [l |-> l, t |-> t, loose |-> FALSE]
    OBVIOUS
  <2>5. w = UnwrapTo(to, k)
    BY <1>1, <1>5, <2>1, <2>4 DEF UnwrapTo, Rtt
  <2>6. w.l = l /\ w.t = t /\ w.loose = FALSE
    BY <2>4
  <2>7. l \in Seq(LProp) /\ t \in Seq(Prop)
    BY <2>3, LowerType DEF IsType
  <2>8. w \in [l: Seq(LProp), t: Seq(Prop), loose: BOOLEAN]
    BY <2>4, <2>7
  <2>9. IsTarget(w)
    BY <2>3, <2>6, <2>8 DEF IsTarget
  <2> QED BY <1>3, <1>5, <2>3, <2>5, <2>6, <2>9
<1> QED BY <1>4, <1>5

\* What is converted has the LLVM type of the type it was converted to.
LEMMA PlainAgrees ==
  ASSUME TypeOK, NEW v, IsRead(v), NEW to, IsTarget(to), NEW explicit \in BOOLEAN,
         explicit /\ Class(to.t) = "funptr" => ~to.loose,
         ConvertPlain(v, to, explicit) # None
  PROVE  /\ IsRead(ConvertPlain(v, to, explicit))
         /\ \/ ConvertPlain(v, to, explicit).loose
            \/ ConvertPlain(v, to, explicit).l = Lower(to.t)
<1>1. PICK c : c = ConvertPlain(v, to, explicit)
  OBVIOUS
<1>2. /\ v \in [l: Seq(LProp), t: Seq(Prop), lv: BOOLEAN, loose: BOOLEAN]
      /\ IsType(v.t) /\ ~v.lv /\ (v.loose \/ v.l = Lower(v.t))
  BY DEF IsRead, Good, IsValue, Agrees
<1>3. /\ to \in [l: Seq(LProp), t: Seq(Prop), loose: BOOLEAN]
      /\ IsType(to.t) /\ (to.loose \/ to.l = Lower(to.t))
  BY DEF IsTarget
<1>4. CASE Equal(v.t, to.t)
  <2>1. c = [v EXCEPT !.loose = @ \/ v.t # to.t]
    BY <1>1, <1>4 DEF ConvertPlain
  <2>2. PICK b \in BOOLEAN : b = (v.loose \/ v.t # to.t)
    OBVIOUS
  <2>3. c = [v EXCEPT !.loose = b]
    BY <1>2, <2>1, <2>2
  <2>4. c.l = v.l /\ c.t = v.t /\ c.lv = v.lv /\ c.loose = b
    BY <1>2, <2>3
  <2>5. c \in [l: Seq(LProp), t: Seq(Prop), lv: BOOLEAN, loose: BOOLEAN]
    BY <1>2, <2>3
  <2>6. IsRead(c)
    BY <1>2, <2>2, <2>4, <2>5 DEF IsRead, Good, IsValue, Agrees
  <2> QED BY <1>1, <1>2, <2>2, <2>4, <2>6
<1>5. CASE ~Equal(v.t, to.t) /\ IsPointer(v.t) /\ IsPointer(to.t)
  <2>1. c = [v EXCEPT !.t = to.t, !.loose = @ \/ v.t # to.t]
    BY <1>1, <1>5 DEF ConvertPlain
  <2>2. PICK b \in BOOLEAN : b = (v.loose \/ v.t # to.t)
    OBVIOUS
  <2>3. c = [v EXCEPT !.t = to.t, !.loose = b]
    BY <1>2, <2>1, <2>2
  <2>4. c.l = v.l /\ c.t = to.t /\ c.lv = v.lv /\ c.loose = b
    BY <1>2, <2>3
  <2>5. c \in [l: Seq(LProp), t: Seq(Prop), lv: BOOLEAN, loose: BOOLEAN]
    BY <1>2, <1>3, <2>3
  <2>6. IsRead(c)
    BY <1>2, <1>3, <2>2, <2>4, <2>5 DEF IsRead, Good, IsValue, Agrees
  <2> QED BY <1>1, <1>2, <2>2, <2>4, <2>6
<1>6. ASSUME NEW b \in BOOLEAN, c = Rtv(to.l, to.t, FALSE, b), to.loose => b
      PROVE  IsRead(c) /\ (c.loose \/ c.l = Lower(to.t))
  <2>1. c = [l |-> to.l, t |-> to.t, lv |-> FALSE, loose |-> b]
    BY <1>6 DEF Rtv
  <2>2. c.l = to.l /\ c.t = to.t /\ c.lv = FALSE /\ c.loose = b
    BY <2>1
  <2>3. c \in [l: Seq(LProp), t: Seq(Prop), lv: BOOLEAN, loose: BOOLEAN]
    BY <1>3, <2>1
  <2> QED BY <1>3, <1>6, <2>2, <2>3 DEF IsRead, Good, IsValue, Agrees
<1>7. CASE ~Equal(v.t, to.t) /\ ~(IsPointer(v.t) /\ IsPointer(to.t))
  <2>1. CASE IsDirect(v.t, to.t, explicit)
    <3>1. c = Rtv(to.l, to.t, FALSE, FALSE)
      BY <1>1, <1>7, <2>1 DEF ConvertPlain
    <3>2. ~to.loose
      BY <1>7, <2>1 DEF IsDirect
    <3> QED BY <1>1, <1>6, <3>1, <3>2
  <2>2. CASE ~IsDirect(v.t, to.t, explicit)
    <3>1. c = Rtv(to.l, to.t, FALSE, to.loose)
      BY <1>1, <1>7, <2>2 DEF ConvertPlain
    <3> QED BY <1>1, <1>3, <1>6, <3>1
  <2> QED BY <2>1, <2>2
<1> QED BY <1>4, <1>5, <1>7

LEMMA RoundOf ==
  ASSUME NEW v, IsType(v.t), NEW to, IsType(to.t), NEW explicit
  PROVE  \E k \in Nat : ConvertRead(v, to, explicit)
           = ConvertPlain(Unwrap(v, k), UnwrapTo(to, k), explicit /\ k = 0)
<1>1. PICK n : n = Calls(v.t, to.t)
  OBVIOUS
<1>2. n \in Nat
  <2>1. /\ Depth(v.t) \in 0..(Len(v.t) - 1) /\ Len(v.t) \in Nat \ {0}
        /\ Depth(to.t) \in 0..(Len(to.t) - 1) /\ Len(to.t) \in Nat \ {0}
    BY DepthProps, TypeForm
  <2>2. Depth(v.t) \in Nat /\ Depth(to.t) \in Nat
    BY ONLY <2>1
  <2> QED BY <1>1, <2>2 DEF Calls
<1>3. PICK S : S = {i \in 1..n : ~IsDirect(Unwrap(v, i - 1).t, UnwrapTo(to, i - 1).t,
                                           explicit /\ i = 1)}
  OBVIOUS
<1>4. PICK k : k = Leading(n, S)
  OBVIOUS
<1>5. k \in Nat
  BY <1>2, <1>4, LeadingProps
<1>6. ConvertRead(v, to, explicit)
        = ConvertPlain(Unwrap(v, k), UnwrapTo(to, k), explicit /\ k = 0)
  BY <1>1, <1>3, <1>4 DEF ConvertRead
<1> QED BY <1>5, <1>6

LEMMA ConvertAgrees ==
  ASSUME TypeOK, AliasesAgree, NEW v, Good(v), NEW to, IsTarget(to),
         NEW explicit \in BOOLEAN,
         explicit /\ Class(to.t) = "funptr" => ~to.loose,
         ConvertType(v, to, explicit) # None
  PROVE  /\ IsRead(ConvertType(v, to, explicit))
         /\ \/ ConvertType(v, to, explicit).loose
            \/ ConvertType(v, to, explicit).l = Lower(to.t)
<1>1. PICK w : w = PrepareRead(v)
  OBVIOUS
<1>2. IsRead(w)
  BY <1>1, ReadProps
<1>3. PICK c : c = ConvertType(v, to, explicit)
  OBVIOUS
<1>4. c = ConvertRead(w, to, explicit)
  BY <1>1, <1>3 DEF ConvertType
<1>5. IsType(w.t) /\ IsType(to.t)
  BY <1>2 DEF IsRead, Good, IsValue, IsTarget
<1>6. PICK k \in Nat :
        c = ConvertPlain(Unwrap(w, k), UnwrapTo(to, k), explicit /\ k = 0)
  BY <1>4, <1>5, RoundOf
<1>7. PICK x : x = Unwrap(w, k) /\ IsRead(x)
  BY <1>2, UnwrapProps
<1>8. PICK u : /\ u = UnwrapTo(to, k) /\ IsTarget(u) /\ Lower(u.t) = Lower(to.t)
               /\ k = 0 => u = to
  BY UnwrapToProps
<1>9. PICK b \in BOOLEAN : b = (explicit /\ k = 0)
  OBVIOUS
<1>10. c = ConvertPlain(x, u, b) /\ c # None
  BY <1>3, <1>6, <1>7, <1>8, <1>9
<1>11. b /\ Class(u.t) = "funptr" => ~u.loose
  BY <1>8, <1>9
<1>12. IsRead(c) /\ (c.loose \/ c.l = Lower(u.t))
  BY <1>7, <1>8, <1>10, <1>11, PlainAgrees
<1> QED BY <1>3, <1>8, <1>12

\* The target of a declared type, and the numbers of the compiler.
LEMMA TargetOf ==
  ASSUME TypeOK, NEW t, IsType(t)
  PROVE  /\ IsTarget(Rtt(Lower(t), t)) /\ Rtt(Lower(t), t).t = t
         /\ Rtt(Lower(t), t).l = Lower(t) /\ Rtt(Lower(t), t).loose = FALSE
<1>1. PICK l : l = Lower(t) /\ l \in Seq(LProp)
  BY LowerType
<1>2. t \in Seq(Prop)
  BY TypeForm
<1>3. PICK to : to = [l |-> l, t |-> t, loose |-> FALSE]
  OBVIOUS
<1>4. to = Rtt(Lower(t), t) /\ to.l = l /\ to.t = t /\ to.loose = FALSE
  BY <1>1, <1>3 DEF Rtt
<1>5. to \in [l: Seq(LProp), t: Seq(Prop), loose: BOOLEAN]
  BY <1>1, <1>2, <1>3
<1> QED BY <1>1, <1>4, <1>5 DEF IsTarget

LEMMA ValueOf ==
  ASSUME TypeOK, NEW t, IsType(t), NEW l \in Seq(LProp), NEW lv \in BOOLEAN,
         NEW loose \in BOOLEAN,
         lv => l # << >> /\ l[1] = <<"ptr">>,
         loose \/ l = (IF lv THEN Ptr(Lower(t)) ELSE Lower(t))
  PROVE  /\ Good(Rtv(l, t, lv, loose)) /\ Rtv(l, t, lv, loose).lv = lv
         /\ Rtv(l, t, lv, loose).loose = loose
<1>1. t \in Seq(Prop)
  BY TypeForm
<1>2. PICK v : v = [l |-> l, t |-> t, lv |-> lv, loose |-> loose]
  OBVIOUS
<1>3. v = Rtv(l, t, lv, loose)
  BY <1>2 DEF Rtv
<1>4. v.l = l /\ v.t = t /\ v.lv = lv /\ v.loose = loose
  BY <1>2
<1>5. v \in [l: Seq(LProp), t: Seq(Prop), lv: BOOLEAN, loose: BOOLEAN]
  BY <1>1, <1>2
<1>6. IsValue(v)
  BY <1>4, <1>5 DEF IsValue
<1>7. Agrees(v)
  BY <1>4 DEF Agrees
<1> QED BY <1>3, <1>4, <1>6, <1>7 DEF Good

LEMMA NumberTypes ==
  ASSUME TypeOK
  PROVE  /\ \A n \in {1, 8, 32, 64}, signed \in BOOLEAN :
              /\ IsType(<<Integer(n, signed)>>)
              /\ Lower(<<Integer(n, signed)>>) = <<<<"i", n>>>>
         /\ \A n \in {1, 2} : IsType(<<Float(n)>>)
<1>1. ASSUME NEW n \in {1, 8, 32, 64}, NEW signed \in BOOLEAN
      PROVE  /\ IsType(<<Integer(n, signed)>>)
             /\ Lower(<<Integer(n, signed)>>) = <<<<"i", n>>>>
  <2>1. PICK p : p = Integer(n, signed)
    OBVIOUS
  <2>2. p \in Prop /\ p[1] = "integer" /\ p[2] = n
    BY <2>1 DEF Integer, Prop
  <2>3. IsType(<<p>>)
    BY <2>2, OneType
  <2>4. PICK t : t = <<p>>
    OBVIOUS
  <2>7. t[1] = p
    BY <2>4
  <2>5. Lower(t) = <<LowerProp(p)>>
    BY <2>2, <2>3, <2>4, <2>7, LowerOne
  <2>6. LowerProp(p) = <<"i", n>>
    BY <2>2 DEF LowerProp
  <2> QED BY <2>1, <2>3, <2>4, <2>5, <2>6
<1>2. ASSUME NEW n \in {1, 2} PROVE IsType(<<Float(n)>>)
  <2>1. Float(n) \in Prop /\ Float(n)[1] = "float"
    BY DEF Float, Prop
  <2> QED BY <2>1, OneType
<1> QED BY <1>1, <1>2

LEMMA NumberTargets ==
  ASSUME TypeOK
  PROVE  /\ IsTarget(Index) /\ IsTarget(Truth)
         /\ Index.l = Lower(Index.t) /\ Truth.l = Lower(Truth.t)
         /\ Class(Truth.t) = "integer"
<1>1. /\ IsType(<<Integer(64, FALSE)>>) /\ Lower(<<Integer(64, FALSE)>>) = <<<<"i", 64>>>>
      /\ IsType(<<Integer(1, FALSE)>>) /\ Lower(<<Integer(1, FALSE)>>) = <<<<"i", 1>>>>
  BY NumberTypes
<1>2. /\ Index = Rtt(Lower(<<Integer(64, FALSE)>>), <<Integer(64, FALSE)>>)
      /\ Truth = Rtt(Lower(<<Integer(1, FALSE)>>), <<Integer(1, FALSE)>>)
  BY <1>1 DEF Index, Truth
<1>3. /\ IsTarget(Index) /\ Index.t = <<Integer(64, FALSE)>>
      /\ Index.l = Lower(<<Integer(64, FALSE)>>)
  BY <1>1, <1>2, TargetOf
<1>4. /\ IsTarget(Truth) /\ Truth.t = <<Integer(1, FALSE)>>
      /\ Truth.l = Lower(<<Integer(1, FALSE)>>)
  BY <1>1, <1>2, TargetOf
<1>5. Class(<<Integer(1, FALSE)>>) = "integer"
  BY DEF Class, Integer
<1> QED BY <1>3, <1>4, <1>5

LEMMA TowardAgrees ==
  ASSUME TypeOK, AliasesAgree, NEW v, IsRead(v), NEW w, IsRead(w),
         NEW explicit \in BOOLEAN, Class(w.t) # "funptr",
         NEW c, c = ConvertType(v, UnwrapType(w), explicit), c # None
  PROVE  IsRead(c) /\ (c.loose \/ w.loose \/ c.l = w.l)
<1>1. PICK to : /\ to = UnwrapType(w) /\ IsTarget(to) /\ to.t = w.t
                /\ to.loose = w.loose /\ to.l = w.l
  BY UnwrapTypeProps DEF IsRead
<1>2. IsRead(c) /\ (c.loose \/ c.l = Lower(to.t))
  <2>1. explicit /\ Class(to.t) = "funptr" => ~to.loose
    BY <1>1
  <2>2. ConvertType(v, to, explicit) # None /\ Good(v)
    BY <1>1 DEF IsRead
  <2> QED BY <1>1, <2>1, <2>2, ConvertAgrees
<1>3. to.loose \/ to.l = Lower(to.t)
  BY <1>1 DEF IsTarget
<1> QED BY <1>1, <1>2, <1>3

\* expect_same_number makes two operands of one LLVM type.
LEMMA SameNumberAgrees ==
  ASSUME TypeOK, AliasesAgree, NEW v, IsRead(v), NEW w, IsRead(w),
         ExpectSameNumber(v, w) # None
  PROVE  \E a, b : /\ ExpectSameNumber(v, w) = <<a, b>>
                   /\ IsRead(a) /\ IsRead(b)
                   /\ a.loose \/ b.loose \/ a.l = b.l
<1> DEFINE Both(x, y) == IF x = None \/ y = None THEN None ELSE <<x, y>>
<1>1. PICK r : r = ExpectSameNumber(v, w)
  OBVIOUS
<1>2. /\ IsType(v.t) /\ IsType(w.t)
      /\ v.loose \/ v.l = Lower(v.t)
      /\ w.loose \/ w.l = Lower(w.t)
  BY DEF IsRead, Good, IsValue, Agrees
<1>3. ASSUME NEW explicit \in BOOLEAN, Class(w.t) # "funptr",
             r = Both(ConvertType(v, UnwrapType(w), explicit), w)
      PROVE  \E a, b : /\ r = <<a, b>> /\ IsRead(a) /\ IsRead(b)
                       /\ a.loose \/ b.loose \/ a.l = b.l
  <2>1. PICK c : c = ConvertType(v, UnwrapType(w), explicit)
    OBVIOUS
  <2>2. r = Both(c, w)
    BY <1>3, <2>1
  <2>3. c # None /\ r = <<c, w>>
    BY <1>1, <2>2
  <2>4. IsRead(c) /\ (c.loose \/ w.loose \/ c.l = w.l)
    BY <1>3, <2>1, <2>3, TowardAgrees
  <2> QED BY <2>3, <2>4
<1>4. ASSUME NEW explicit \in BOOLEAN, Class(v.t) # "funptr",
             r = Both(v, ConvertType(w, UnwrapType(v), explicit))
      PROVE  \E a, b : /\ r = <<a, b>> /\ IsRead(a) /\ IsRead(b)
                       /\ a.loose \/ b.loose \/ a.l = b.l
  <2>1. PICK c : c = ConvertType(w, UnwrapType(v), explicit)
    OBVIOUS
  <2>2. r = Both(v, c)
    BY <1>4, <2>1
  <2>3. c # None /\ r = <<v, c>>
    BY <1>1, <2>2
  <2>4. IsRead(c) /\ (c.loose \/ v.loose \/ c.l = v.l)
    BY <1>4, <2>1, <2>3, TowardAgrees
  <2> QED BY <2>3, <2>4
<1>5. CASE (IsInt(v.t) /\ IsInt(w.t)) \/ (IsFloat(v.t) /\ IsFloat(w.t))
  <2>1. Class(v.t) # "funptr" /\ Class(w.t) # "funptr"
    BY <1>5 DEF IsInt, IsFloat
  <2>2. r = IF Num(v.t) = Num(w.t) THEN <<v, w>>
            ELSE IF Num(v.t) < Num(w.t)
                 THEN Both(ConvertType(v, UnwrapType(w), FALSE), w)
                 ELSE Both(v, ConvertType(w, UnwrapType(v), FALSE))
    BY <1>1, <1>5 DEF ExpectSameNumber, SameNumber, IsInt, IsFloat
  <2>3. CASE Num(v.t) = Num(w.t)
    <3>1. /\ v.t[1][1] \in {"integer", "float"} /\ v.t[1][1] = w.t[1][1]
          /\ v.t[1][2] = w.t[1][2]
      BY <1>5, <2>3 DEF IsInt, IsFloat, Class, Num
    <3>2. LowerProp(v.t[1]) = LowerProp(w.t[1])
      <4>1. CASE v.t[1][1] = "integer"
        BY <3>1, <4>1 DEF LowerProp
      <4>2. CASE v.t[1][1] = "float"
        BY <3>1, <4>2 DEF LowerProp
      <4> QED BY <3>1, <4>1, <4>2
    <3>3. Lower(v.t) = Lower(w.t)
      BY <1>2, <3>1, <3>2, LowerOne
    <3>4. r = <<v, w>>
      BY <2>2, <2>3
    <3> QED BY <1>1, <1>2, <3>3, <3>4
  <2>4. CASE Num(v.t) # Num(w.t) /\ Num(v.t) < Num(w.t)
    <3>1. r = Both(ConvertType(v, UnwrapType(w), FALSE), w)
      BY <2>2, <2>4
    <3> QED BY <1>1, <1>3, <2>1, <3>1
  <2>5. CASE Num(v.t) # Num(w.t) /\ ~(Num(v.t) < Num(w.t))
    <3>1. r = Both(v, ConvertType(w, UnwrapType(v), FALSE))
      BY <2>2, <2>5
    <3> QED BY <1>1, <1>4, <2>1, <3>1
  <2> QED BY <2>3, <2>4, <2>5
<1>6. CASE IsFloat(v.t) /\ IsInt(w.t)
  <2>1. r = Both(v, ConvertType(w, UnwrapType(v), TRUE))
    BY <1>1, <1>6 DEF ExpectSameNumber, SameNumber, IsInt, IsFloat
  <2>2. Class(v.t) # "funptr"
    BY <1>6 DEF IsFloat
  <2> QED BY <1>1, <1>4, <2>1, <2>2
<1>7. CASE IsInt(v.t) /\ IsFloat(w.t)
  <2>1. r = Both(ConvertType(v, UnwrapType(w), TRUE), w)
    BY <1>1, <1>7 DEF ExpectSameNumber, SameNumber, IsInt, IsFloat
  <2>2. Class(w.t) # "funptr"
    BY <1>7 DEF IsFloat
  <2> QED BY <1>1, <1>3, <2>1, <2>2
<1>8. CASE /\ ~((IsInt(v.t) /\ IsInt(w.t)) \/ (IsFloat(v.t) /\ IsFloat(w.t)))
           /\ ~(IsFloat(v.t) /\ IsInt(w.t)) /\ ~(IsInt(v.t) /\ IsFloat(w.t))
  <2>1. r = None
    BY <1>1, <1>8 DEF ExpectSameNumber, SameNumber
  <2> QED BY <1>1, <2>1
<1> QED BY <1>5, <1>6, <1>7, <1>8
-----------------------------------------------------------------------------
IInv == TypeOK /\ AliasesAgree /\ ValuesAgree /\ InstructionsTyped /\ FieldsHold

LEMMA ValuesGood ==
  ASSUME TypeOK, ValuesAgree
  PROVE  /\ \A s \in Slot : slot[s] # None => Good(slot[s])
         /\ \A x \in DOMAIN locals : Good(locals[x])
<1>1. ASSUME NEW v \in Values PROVE Good(v)
  <2>1. IsValue(v)
    BY DEF TypeOK, IsValue
  <2>2. Agrees(v)
    BY DEF ValuesAgree, Agrees
  <2> QED BY <2>1, <2>2 DEF Good
<1>2. \A s \in Slot : slot[s] # None => slot[s] \in Values
  BY DEF Values
<1>3. \A x \in DOMAIN locals : locals[x] \in Values
  BY DEF Values
<1> QED BY <1>1, <1>2, <1>3

\* The values after a step have types as they were before it, and its
\* instruction gets the type it wants.
Follows ==
  /\ \A v \in Values' : Good(v)
  /\ InstructionsTyped'
  /\ DOMAIN slot' = Slot

LEMMA FollowsFrom ==
  ASSUME TypeOK, ValuesAgree, InstructionsTyped', DOMAIN slot' = Slot,
         \A s \in Slot : slot'[s] \in {slot[s], None} \/ Good(slot'[s]),
         \A x \in DOMAIN locals' :
           (x \in DOMAIN locals /\ locals'[x] = locals[x]) \/ Good(locals'[x])
  PROVE  Follows
<1>1. ASSUME NEW v \in Values' PROVE Good(v)
  <2>1. CASE v # None /\ \E s \in Slot : v = slot'[s]
    BY <2>1, ValuesGood
  <2>2. CASE \E x \in DOMAIN locals' : v = locals'[x]
    BY <2>2, ValuesGood
  <2> QED BY <2>1, <2>2 DEF Values
<1> QED BY <1>1 DEF Follows

LEMMA ResultFollows ==
  ASSUME IInv, NEW s \in Slot, NEW v, Good(v), Result(s, v), built' = None
  PROVE  Follows
<1>1. DOMAIN slot = Slot /\ TypeOK /\ ValuesAgree
  BY DEF IInv, TypeOK
<1>2. slot' = [slot EXCEPT ![s] = v] /\ locals' = locals
  BY DEF Result
<1>3. DOMAIN slot' = Slot /\ \A r \in Slot : slot'[r] \in {slot[r], None} \/ Good(slot'[r])
  BY <1>1, <1>2
<1>4. InstructionsTyped'
  BY DEF InstructionsTyped
<1> QED BY <1>1, <1>2, <1>3, <1>4, FollowsFrom

LEMMA LiteralFollows ==
  ASSUME IInv, NEW s \in Slot, NEW t \in Literals, Literal(s, t)
  PROVE  Follows
<1>1. TypeOK
  BY DEF IInv
<1>2. IsType(t)
  BY <1>1, NumberTypes DEF Literals
<1>3. PICK l : l = Lower(t) /\ l \in Seq(LProp)
  BY <1>1, <1>2, LowerType
<1>4. Good(Rtv(l, t, FALSE, FALSE))
  BY <1>1, <1>2, <1>3, ValueOf
<1> QED BY <1>3, <1>4, ResultFollows DEF Literal

LEMMA IdentFollows ==
  ASSUME IInv, NEW s \in Slot, NEW x \in Var, Ident(s, x)
  PROVE  Follows
<1>1. Good(locals[x])
  BY ValuesGood DEF IInv, Ident
<1> QED BY <1>1, ResultFollows DEF Ident

LEMMA ConvertFollows ==
  ASSUME IInv, NEW s \in Slot, NEW e \in TypeExpr, Convert(s, e)
  PROVE  Follows
<1>1. TypeOK /\ AliasesAgree /\ ValuesAgree
  BY DEF IInv
<1>2. PICK t, to : t = EvalType(e, "convert") /\ to = Rtt(Lower(t), t)
  OBVIOUS
<1>3. IsType(t) /\ IsTarget(to) /\ to.loose = FALSE
  <2>1. e \in Expr
    BY ExprAssumption
  <2>2. Known(e)
    BY DEF Convert
  <2>3. "convert" \in Owner
    BY DEF Owner
  <2>4. IsType(t)
    BY <1>1, <1>2, <2>1, <2>2, <2>3, EvalIsType
  <2> QED BY <1>1, <1>2, <2>4, TargetOf
<1>4. PICK c : c = ConvertType(slot[s], to, TRUE)
  OBVIOUS
<1>5. c # None /\ Result(s, c) /\ built' = None
  BY <1>2, <1>4 DEF Convert
<1>6. Good(slot[s])
  BY <1>1, ValuesGood DEF Convert
<1>7. IsRead(c)
  BY <1>1, <1>3, <1>4, <1>5, <1>6, ConvertAgrees
<1> QED BY <1>5, <1>7, ResultFollows DEF IsRead

\* lower_ptr_to
LEMMA PtrToAgrees ==
  ASSUME TypeOK, NEW v, Good(v), v.lv, Class(v.t) = "array" => ~v.loose
  PROVE  /\ Good(LowerPtrTo(v)) /\ Class(LowerPtrTo(v).t) = "pointer"
         /\ LowerPtrTo(v).loose = v.loose /\ ~LowerPtrTo(v).lv
         /\ LowerPtrTo(v).t # Untyped
<1>1. /\ v.l \in Seq(LProp) /\ v.loose \in BOOLEAN
      /\ IsType(v.t)
      /\ v.loose \/ v.l = Ptr(Lower(v.t))
  BY DEF Good, IsValue, Agrees
<1>2. ASSUME NEW t, IsType(t), NEW l \in Seq(LProp), v.loose \/ l = Ptr(Lower(t)),
             NEW p, p = Rtv(l, PointerTo(t), FALSE, v.loose)
      PROVE  /\ Good(p) /\ Class(p.t) = "pointer"
             /\ p.loose = v.loose /\ ~p.lv /\ p.t # Untyped
  <2>1. PICK u : u = PointerTo(t)
    OBVIOUS
  <2>2. Pointer \in Prop /\ Pointer[1] = "pointer"
    BY DEF Pointer, Prop
  <2>3. t \in Seq(Prop) /\ Len(t) \in Nat \ {0}
    BY <1>2, TypeForm
  <2>4. Len(u) = Len(t) + 1 /\ u[1] = Pointer /\ From(u, 2) = t
    BY <2>1, <2>2, <2>3, ConsProps DEF PointerTo
  <2>5. IsType(u)
    BY <1>2, <2>1, <2>2, ConsType DEF PointerTo
  <2>6. Len(u) > 1 /\ Class(u) = "pointer"
    BY <2>2, <2>3, <2>4 DEF Class
  <2>7. Lower(u) = <<LowerProp(u[1])>> \o Lower(From(u, 2))
    BY <2>5, <2>6, LowerWrapped DEF Class
  <2>8. LowerProp(u[1]) = <<"ptr">>
    BY <2>2, <2>4 DEF LowerProp
  <2>9. Lower(u) = Ptr(Lower(t))
    BY <2>4, <2>7, <2>8 DEF Ptr
  <2>10. PICK b \in BOOLEAN : b = v.loose
    BY <1>1
  <2>11. p = Rtv(l, u, FALSE, b) /\ (b \/ l = Lower(u))
    BY <1>2, <2>1, <2>9, <2>10
  <2>12. Good(Rtv(l, u, FALSE, b)) /\ Rtv(l, u, FALSE, b).lv = FALSE
         /\ Rtv(l, u, FALSE, b).loose = b
    BY <2>5, <2>11, ValueOf
  <2>13. p.t = u
    BY <2>11 DEF Rtv
  <2>14. u # Untyped
    <3>1. Len(Untyped) = 1
      BY DEF Untyped
    <3>2. Len(u) # 1
      BY <2>3, <2>4
    <3> QED BY <3>1, <3>2
  <2> QED BY <2>6, <2>10, <2>11, <2>12, <2>13, <2>14
<1>3. CASE Class(v.t) = "array"
  <2>1. /\ v.t \in Seq(Prop) /\ Len(v.t) \in Nat \ {0} /\ v.t # << >>
        /\ v.t[1][1] = "array" /\ v.t[1] \in Prop
    BY <1>1, <1>3, TypeForm DEF Class
  <2>2. Len(v.t) > 1
    <3>1. Len(v.t) # 1
      BY <1>1, <2>1 DEF IsType
    <3> QED BY <2>1, <3>1, MoreThanOne
  <2>3. PICK t : t = From(v.t, 2)
    OBVIOUS
  <2>4. t = Tail(v.t) /\ IsType(t)
    <3>1. 2 \in 1..Len(v.t)
      BY <2>1, <2>2
    <3> QED BY <1>1, <2>1, <2>3, <3>1, FromType, TailIsFrom
  <2>5. Lower(v.t) = <<LowerProp(v.t[1])>> \o Lower(t)
    BY <1>1, <2>1, <2>2, <2>3, LowerWrapped
  <2>6. Lower(t) \in Seq(LProp) /\ LowerProp(v.t[1]) \in LProp
    BY <2>1, <2>4, LowerType, LowerPropForm
  <2>7. Tail(Lower(v.t)) = Lower(t)
    BY <2>5, <2>6, ConsProps
  <2>8. Pointee(v) = Lower(v.t)
    BY <1>3, PointeeProps
  <2>9. PICK l : l = Ptr(Tail(Pointee(v))) /\ l = Ptr(Lower(t)) /\ l \in Seq(LProp)
    BY <2>6, <2>7, <2>8, PtrProps
  <2>10. LowerPtrTo(v) = Rtv(l, PointerTo(t), FALSE, v.loose)
    BY <1>3, <2>4, <2>9 DEF LowerPtrTo
  <2> QED BY <1>2, <2>4, <2>9, <2>10
<1>4. CASE Class(v.t) # "array"
  <2>1. LowerPtrTo(v) = Rtv(v.l, PointerTo(v.t), FALSE, v.loose)
    BY <1>4 DEF LowerPtrTo
  <2> QED BY <1>1, <1>2, <2>1
<1> QED BY <1>3, <1>4

LEMMA PtrToFollows ==
  ASSUME IInv, NEW s \in Slot, PtrTo(s)
  PROVE  Follows
<1>1. TypeOK /\ Good(slot[s])
  BY ValuesGood DEF IInv, PtrTo
<1>2. Good(LowerPtrTo(slot[s]))
  BY <1>1, PtrToAgrees DEF PtrTo
<1> QED BY <1>2, ResultFollows DEF PtrTo

\* What a pointer of a type points to is of that type.
LEMMA LvalueAgrees ==
  ASSUME TypeOK, NEW v, IsRead(v), Class(v.t) = "pointer", v.t # Untyped,
         ~v.loose
  PROVE  Good(AsLvalue(v))
<1>1. v.l \in Seq(LProp) /\ IsType(v.t) /\ v.l = Lower(v.t)
  BY DEF IsRead, Good, IsValue, Agrees
<1>2. /\ v.t \in Seq(Prop) /\ Len(v.t) \in Nat \ {0} /\ v.t # << >>
      /\ v.t[1] \in Prop /\ v.t[1][1] = "pointer"
  BY <1>1, TypeForm DEF Class
<1>3. v.t[1] = Pointer
  BY <1>2, PropForm
<1>4. Len(v.t) > 1
  <2>1. ASSUME Len(v.t) = 1 PROVE FALSE
    <3>1. Untyped \in Seq(Prop) /\ Len(Untyped) = 1 /\ Untyped[1] = Pointer
      BY <1>2, <1>3 DEF Untyped
    <3>2. v.t = Untyped
      BY <1>2, <1>3, <2>1, <3>1, SeqEqual
    <3> QED BY <3>2
  <2>2. Len(v.t) # 1
    BY <2>1
  <2> QED BY <1>2, <2>2, MoreThanOne
<1>5. PICK t : t = From(v.t, 2)
  OBVIOUS
<1>6. t = Tail(v.t) /\ IsType(t)
  <2>1. 2 \in 1..Len(v.t)
    BY <1>2, <1>4
  <2> QED BY <1>1, <1>2, <1>5, <2>1, FromType, TailIsFrom
<1>7. Lower(v.t) = <<LowerProp(v.t[1])>> \o Lower(t)
  BY <1>1, <1>2, <1>4, <1>5, LowerWrapped
<1>8. LowerProp(v.t[1]) = <<"ptr">>
  BY <1>2 DEF LowerProp
<1>9. v.l = Ptr(Lower(t))
  BY <1>1, <1>7, <1>8 DEF Ptr
<1>10. Lower(t) \in Seq(LProp)
  BY <1>6, LowerType
<1>11. v.l # << >> /\ v.l[1] = <<"ptr">>
  BY <1>9, <1>10, PtrProps
<1>12. Good(Rtv(v.l, t, TRUE, FALSE))
  BY <1>1, <1>6, <1>9, <1>11, ValueOf
<1>13. AsLvalue(v) = Rtv(v.l, t, TRUE, FALSE)
  <2>1. v.loose = FALSE
    BY DEF IsRead, Good, IsValue
  <2> QED BY <1>6, <2>1 DEF AsLvalue
<1> QED BY <1>12, <1>13

LEMMA PtrDerefFollows ==
  ASSUME IInv, NEW s \in Slot, PtrDeref(s)
  PROVE  Follows
<1>1. TypeOK /\ Good(slot[s])
  BY ValuesGood DEF IInv, PtrDeref
<1>2. PICK v : v = PrepareRead(slot[s])
  OBVIOUS
<1>3. IsRead(v)
  BY <1>1, <1>2, ReadProps
<1>4. IsPointer(v.t) /\ v.t # Untyped /\ ~v.loose /\ Result(s, AsLvalue(v)) /\ built' = None
  BY <1>2 DEF PtrDeref, Dereferenced
<1>5. Good(AsLvalue(v))
  BY <1>1, <1>3, <1>4, LvalueAgrees DEF IsPointer
<1> QED BY <1>4, <1>5, ResultFollows

\* A member has the field that LLVM made for its type, or the type of the
\* longest member of its union.
LEMMA MembStructFollows ==
  ASSUME IInv, NEW s \in Slot, NEW name, MembStruct(s, name)
  PROVE  Follows
<1>1. PICK o : o = slot[s]
  OBVIOUS
<1>2. PICK n : n = Num(o.t)
  OBVIOUS
<1>3. PICK p : p = structs[n]
  OBVIOUS
<1>4. TypeOK /\ FieldsHold /\ Good(o) /\ Class(o.t) = "struct"
  BY <1>1, ValuesGood DEF IInv, MembStruct
<1>5. n \in DOMAIN structs
  <2>1. o.t[1] \in Prop
    BY <1>4, TypeForm DEF Good, IsValue
  <2> QED BY <1>2, <1>4, <2>1, PropForm DEF Class, Num
<1>6. PICK i \in DOMAIN p.memb :
        LET m    == p.memb[i]
            main == p.memb[m.unionmain]
        IN  IF m.unionmain = None
            THEN Result(s, Rtv(Ptr(p.body[m.llvmnum + 1]), m.type, TRUE, o.loose))
            ELSE Result(s, Rtv(Ptr(Lower(m.type)), main.type, TRUE,
                               o.loose \/ m.type # main.type))
  BY <1>1, <1>2, <1>3 DEF MembStruct
<1>7. PICK m : m = p.memb[i]
  OBVIOUS
<1>8. PICK k : k = m.unionmain
  OBVIOUS
<1>9. \A j \in DOMAIN p.memb : IsType(p.memb[j].type)
  BY <1>3, <1>4, <1>5 DEF TypeOK
<1>10. IsType(m.type) /\ o.loose \in BOOLEAN /\ built' = None
  BY <1>4, <1>7, <1>9 DEF MembStruct, Good, IsValue
<1>11. PICK l : l = Ptr(Lower(m.type)) /\ l \in Seq(LProp) /\ l # << >> /\ l[1] = <<"ptr">>
  BY <1>4, <1>10, LowerType, PtrProps
<1>12. PICK main : main = {j \in DOMAIN p.memb : p.memb[j].unionmain \in {None, j}}
  OBVIOUS
<1>13. /\ \A j \in main : p.body[p.memb[j].llvmnum + 1] = Lower(p.memb[j].type)
       /\ \A j \in DOMAIN p.memb \ main : p.memb[j].unionmain \in main
  BY <1>3, <1>4, <1>5, <1>12 DEF FieldsHold
<1>14. CASE k = None
  <2>1. i \in main
    BY <1>7, <1>8, <1>12, <1>14
  <2>2. p.body[m.llvmnum + 1] = Lower(m.type)
    BY <1>7, <1>13, <2>1
  <2>3. Result(s, Rtv(l, m.type, TRUE, o.loose))
    BY <1>6, <1>7, <1>8, <1>11, <1>14, <2>2
  <2>4. Good(Rtv(l, m.type, TRUE, o.loose))
    BY <1>4, <1>10, <1>11, ValueOf
  <2> QED BY <1>10, <2>3, <2>4, ResultFollows
<1>15. CASE k # None
  <2>1. k \in DOMAIN p.memb
    BY <1>7, <1>8, <1>12, <1>13, <1>15
  <2>2. PICK u : u = p.memb[k].type /\ IsType(u)
    BY <1>9, <2>1
  <2>3. PICK b \in BOOLEAN : b = (o.loose \/ m.type # u)
    OBVIOUS
  <2>4. Result(s, Rtv(l, u, TRUE, b))
    BY <1>6, <1>7, <1>8, <1>11, <1>15, <2>2, <2>3
  <2>5. b \/ l = Ptr(Lower(u))
    BY <1>10, <1>11, <2>3
  <2>6. Good(Rtv(l, u, TRUE, b))
    BY <1>4, <1>11, <2>2, <2>5, ValueOf
  <2> QED BY <1>10, <2>4, <2>6, ResultFollows
<1> QED BY <1>14, <1>15

LEMMA MembArrayFollows ==
  ASSUME IInv, NEW s \in Slot, NEW i \in Slot, MembArray(s, i)
  PROVE  Follows
<1>1. TypeOK /\ AliasesAgree /\ ValuesAgree /\ DOMAIN slot = Slot
  BY DEF IInv, TypeOK
<1>2. Good(slot[s]) /\ Good(slot[i]) /\ slot[s].lv /\ ~slot[s].loose
  BY <1>1, ValuesGood DEF MembArray
<1>3. PICK ptr : ptr = LowerPtrTo(slot[s])
  OBVIOUS
<1>4. PICK idx : idx = ConvertType(slot[i], Index, FALSE)
  OBVIOUS
<1>5. /\ idx # None /\ Builds(Index.l, idx.l, idx.loose) /\ s # i
      /\ slot' = [slot EXCEPT ![s] = AsLvalue(ptr), ![i] = None]
      /\ locals' = locals
  BY <1>3, <1>4 DEF MembArray
<1>6. /\ IsRead(ptr) /\ Class(ptr.t) = "pointer" /\ ~ptr.loose
      /\ ptr.t # Untyped
  BY <1>1, <1>2, <1>3, PtrToAgrees DEF IsRead
<1>8. Good(AsLvalue(ptr))
  BY <1>1, <1>6, LvalueAgrees
<1>9. idx.loose \/ idx.l = Index.l
  BY <1>1, <1>2, <1>4, <1>5, NumberTargets, ConvertAgrees
<1>10. InstructionsTyped'
  BY <1>5, <1>9 DEF Builds, InstructionsTyped
<1>11. DOMAIN slot' = Slot /\ \A r \in Slot : slot'[r] \in {slot[r], None} \/ Good(slot'[r])
  BY <1>1, <1>5, <1>8
<1> QED BY <1>1, <1>5, <1>10, <1>11, FollowsFrom

LEMMA OperatorFollows ==
  ASSUME IInv, NEW s \in Slot, NEW w \in Slot, NEW comparison \in BOOLEAN,
         Operator(s, w, comparison)
  PROVE  Follows
<1>1. TypeOK /\ AliasesAgree /\ ValuesAgree /\ DOMAIN slot = Slot
  BY DEF IInv, TypeOK
<1>2. Good(slot[s]) /\ Good(slot[w])
  BY <1>1, ValuesGood DEF Operator
<1>3. PICK v, u : v = PrepareRead(slot[s]) /\ u = PrepareRead(slot[w])
  OBVIOUS
<1>4. PICK both : both = ExpectSameNumber(v, u)
  OBVIOUS
<1>5. /\ both # None /\ s # w /\ locals' = locals
      /\ slot' = [slot EXCEPT ![w] = None, ![s] =
           IF comparison THEN Rtv(Truth.l, Truth.t, FALSE, FALSE) ELSE both[1]]
      /\ Builds(both[1].l, both[2].l, both[1].loose \/ both[2].loose)
  BY <1>3, <1>4 DEF Operator
<1>6. IsRead(v) /\ IsRead(u)
  BY <1>1, <1>2, <1>3, ReadProps
<1>7. PICK a, b : /\ both = <<a, b>> /\ IsRead(a) /\ IsRead(b)
                  /\ a.loose \/ b.loose \/ a.l = b.l
  BY <1>1, <1>4, <1>5, <1>6, SameNumberAgrees
<1>8. both[1] = a /\ both[2] = b
  BY <1>7
<1>9. Good(Rtv(Truth.l, Truth.t, FALSE, FALSE))
  <2>1. PICK t, l : t = Truth.t /\ l = Truth.l /\ IsType(t) /\ l = Lower(t) /\ l \in Seq(LProp)
    BY <1>1, NumberTargets, LowerType DEF IsTarget
  <2>2. Good(Rtv(l, t, FALSE, FALSE))
    BY <1>1, <2>1, ValueOf
  <2> QED BY <2>1, <2>2
<1>10. PICK r : r = (IF comparison THEN Rtv(Truth.l, Truth.t, FALSE, FALSE) ELSE a) /\ Good(r)
  BY <1>7, <1>9 DEF IsRead
<1>11. slot' = [slot EXCEPT ![w] = None, ![s] = r]
  BY <1>5, <1>8, <1>10
<1>12. DOMAIN slot' = Slot /\ \A q \in Slot : slot'[q] \in {slot[q], None} \/ Good(slot'[q])
  BY <1>1, <1>5, <1>10, <1>11
<1>13. Builds(a.l, b.l, a.loose \/ b.loose)
  BY <1>5, <1>8
<1>14. InstructionsTyped'
  BY <1>7, <1>13 DEF Builds, InstructionsTyped
<1> QED BY <1>1, <1>5, <1>12, <1>14, FollowsFrom

LEMMA ConditionFollows ==
  ASSUME IInv, NEW s \in Slot, Condition(s)
  PROVE  Follows
<1>1. TypeOK /\ AliasesAgree /\ ValuesAgree /\ DOMAIN slot = Slot
  BY DEF IInv, TypeOK
<1>2. Good(slot[s])
  BY <1>1, ValuesGood DEF Condition
<1>3. PICK c : c = ConvertType(slot[s], Truth, TRUE)
  OBVIOUS
<1>4. /\ c # None /\ Builds(Truth.l, c.l, c.loose)
      /\ slot' = [slot EXCEPT ![s] = None] /\ locals' = locals
  BY <1>3 DEF Condition
<1>5. TRUE /\ Class(Truth.t) = "funptr" => ~Truth.loose
  BY <1>1, NumberTargets
<1>6. c.loose \/ c.l = Truth.l
  BY <1>1, <1>2, <1>3, <1>4, <1>5, NumberTargets, ConvertAgrees
<1>7. InstructionsTyped'
  BY <1>4, <1>6 DEF Builds, InstructionsTyped
<1>8. DOMAIN slot' = Slot /\ \A q \in Slot : slot'[q] \in {slot[q], None} \/ Good(slot'[q])
  BY <1>1, <1>4
<1> QED BY <1>1, <1>4, <1>7, <1>8, FollowsFrom

\* The store of a converted value.
LEMMA StoreAgrees ==
  ASSUME TypeOK, AliasesAgree, NEW lhs, Good(lhs), lhs.lv, NEW v, Good(v),
         Store(lhs, v)
  PROVE  InstructionsTyped'
<1>1. PICK to : to = [UnwrapType(lhs) EXCEPT !.loose = FALSE]
  OBVIOUS
<1>2. PICK c : c = ConvertType(v, to, FALSE)
  OBVIOUS
<1>3. c # None /\ Builds(Pointee(lhs), c.l, c.loose \/ lhs.loose)
  BY <1>1, <1>2 DEF Store
<1>4. lhs.loose \in BOOLEAN
  BY DEF Good, IsValue
<1>5. CASE lhs.loose = TRUE
  BY <1>3, <1>5 DEF Builds, InstructionsTyped
<1>6. CASE lhs.loose = FALSE
  <2>1. PICK u : u = UnwrapType(lhs)
    OBVIOUS
  <2>2. IsTarget(u) /\ u.t = lhs.t /\ u.loose = FALSE /\ u.l = Pointee(lhs)
    BY <1>6, <2>1, UnwrapTypeProps
  <2>3. to = u
    BY <1>1, <2>1, <2>2 DEF IsTarget
  <2>4. c.loose \/ c.l = Lower(u.t)
    BY <1>2, <1>3, <2>2, <2>3, ConvertAgrees
  <2>5. Pointee(lhs) = Lower(u.t)
    BY <1>6, <2>2, PointeeProps
  <2>6. c.loose \/ c.l = Pointee(lhs)
    BY <2>4, <2>5
  <2> QED BY <1>3, <2>6 DEF Builds, InstructionsTyped
<1> QED BY <1>4, <1>5, <1>6

LEMMA AssignFollows ==
  ASSUME IInv, NEW s \in Slot, NEW w \in Slot, Assign(s, w)
  PROVE  Follows
<1>1. TypeOK /\ AliasesAgree /\ ValuesAgree /\ DOMAIN slot = Slot
  BY DEF IInv, TypeOK
<1>2. Good(slot[s]) /\ Good(slot[w]) /\ slot[s].lv
  BY <1>1, ValuesGood DEF Assign
<1>3. InstructionsTyped'
  BY <1>1, <1>2, StoreAgrees DEF Assign
<1>4. slot' = [slot EXCEPT ![s] = None, ![w] = None] /\ locals' = locals
  BY DEF Assign
<1>5. DOMAIN slot' = Slot /\ \A q \in Slot : slot'[q] \in {slot[q], None} \/ Good(slot'[q])
  BY <1>1, <1>4
<1> QED BY <1>1, <1>3, <1>4, <1>5, FollowsFrom

\* What LLVM allocates for a type is an l-value of the type.
LEMMA VariableAgrees ==
  ASSUME TypeOK, NEW to, IsTarget(to)
  PROVE  Good(Variable(to)) /\ Variable(to).lv
<1>1. /\ to.l \in Seq(LProp) /\ to.loose \in BOOLEAN /\ IsType(to.t)
      /\ to.loose \/ to.l = Lower(to.t)
  BY DEF IsTarget
<1>2. PICK l : l = Ptr(to.l) /\ l \in Seq(LProp) /\ l # << >> /\ l[1] = <<"ptr">>
  BY <1>1, PtrProps
<1>3. to.loose \/ l = Ptr(Lower(to.t))
  BY <1>1, <1>2
<1>4. Good(Rtv(l, to.t, TRUE, to.loose)) /\ Rtv(l, to.t, TRUE, to.loose).lv = TRUE
  BY <1>1, <1>2, <1>3, ValueOf
<1> QED BY <1>2, <1>4 DEF Variable, Allocated

LEMMA LocalsFollow ==
  ASSUME NEW x, x \notin DOMAIN locals, NEW v, Good(v),
         locals' = Extended(locals, x, v)
  PROVE  \A y \in DOMAIN locals' :
           (y \in DOMAIN locals /\ locals'[y] = locals[y]) \/ Good(locals'[y])
<1>1. locals' = [y \in DOMAIN locals \cup {x} |-> IF y = x THEN v ELSE locals[y]]
  BY DEF Extended
<1> QED BY <1>1

LEMMA DefineVarFollows ==
  ASSUME IInv, NEW x \in Var, NEW e \in TypeExpr, DefineVar(x, e)
  PROVE  Follows
<1>1. TypeOK /\ ValuesAgree /\ DOMAIN slot = Slot
  BY DEF IInv, TypeOK
<1>2. PICK t : t = EvalType(e, x)
  OBVIOUS
<1>3. PICK v : v = Variable(Rtt(Lower(t), t))
  OBVIOUS
<1>4. /\ x \notin DOMAIN locals /\ Known(e) /\ built' = None /\ slot' = slot
      /\ locals' = Extended(locals, x, v)
  BY <1>2, <1>3 DEF DefineVar
<1>5. Good(v)
  <2>1. e \in Expr
    BY ExprAssumption
  <2>2. x \in Owner
    BY DEF Owner
  <2>3. IsType(t)
    BY <1>1, <1>2, <1>4, <2>1, <2>2, EvalIsType
  <2> QED BY <1>1, <1>3, <2>3, TargetOf, VariableAgrees
<1>6. InstructionsTyped'
  BY <1>4 DEF InstructionsTyped
<1>7. \A y \in DOMAIN locals' :
        (y \in DOMAIN locals /\ locals'[y] = locals[y]) \/ Good(locals'[y])
  BY <1>4, <1>5, LocalsFollow
<1> QED BY <1>1, <1>4, <1>6, <1>7, FollowsFrom

LEMMA IntroduceFollows ==
  ASSUME IInv, NEW s \in Slot, NEW x \in Var, Introduce(x, s)
  PROVE  Follows
<1>1. TypeOK /\ AliasesAgree /\ ValuesAgree /\ DOMAIN slot = Slot
  BY DEF IInv, TypeOK
<1>2. Good(slot[s])
  BY <1>1, ValuesGood DEF Introduce
<1>3. PICK v : v = Variable(UnwrapType(slot[s]))
  OBVIOUS
<1>4. /\ x \notin DOMAIN locals /\ locals' = Extended(locals, x, v)
      /\ Store(v, slot[s]) /\ slot' = [slot EXCEPT ![s] = v]
  BY <1>3 DEF Introduce
<1>5. Good(v) /\ v.lv
  BY <1>1, <1>2, <1>3, UnwrapTypeProps, VariableAgrees
<1>6. InstructionsTyped'
  BY <1>1, <1>2, <1>4, <1>5, StoreAgrees
<1>7. \A y \in DOMAIN locals' :
        (y \in DOMAIN locals /\ locals'[y] = locals[y]) \/ Good(locals'[y])
  BY <1>4, <1>5, LocalsFollow
<1>8. DOMAIN slot' = Slot /\ \A q \in Slot : slot'[q] \in {slot[q], None} \/ Good(slot'[q])
  BY <1>1, <1>4, <1>5
<1> QED BY <1>1, <1>6, <1>7, <1>8, FollowsFrom

LEMMA FunptrToFollows ==
  ASSUME IInv, NEW s \in Slot, NEW f \in DOMAIN Fun, FunptrTo(s, f)
  PROVE  Follows
<1>1. TypeOK
  BY DEF IInv
<1>2. PICK t : t = <<FunptrOf(f)>>
  OBVIOUS
<1>3. IsType(t)
  <2>1. FunptrOf(f) \in Prop /\ FunptrOf(f)[1] = "funptr"
    BY DEF FunptrOf, Prop
  <2> QED BY <1>2, <2>1, OneType
<1>4. PICK l : l = Lower(t) /\ l \in Seq(LProp)
  BY <1>1, <1>3, LowerType
<1>5. Good(Rtv(l, t, FALSE, FALSE))
  BY <1>1, <1>3, <1>4, ValueOf
<1> QED BY <1>2, <1>4, <1>5, ResultFollows DEF FunptrTo

LEMMA CallFunptrFollows ==
  ASSUME IInv, NEW s \in Slot, NEW w \in Slot, CallFunptr(s, w)
  PROVE  Follows
<1>1. TypeOK /\ AliasesAgree /\ ValuesAgree /\ DOMAIN slot = Slot
  BY DEF IInv, TypeOK
<1>2. Good(slot[s]) /\ Good(slot[w])
  BY <1>1, ValuesGood DEF CallFunptr
<1>3. PICK f : f = PrepareRead(slot[s]) /\ IsRead(f)
  BY <1>1, <1>2, ReadProps
<1>4. PICK n : n = Num(f.t)
  OBVIOUS
<1>5. PICK parm, ret : parm = EvalType(Fun[n].parm, "parm") /\ ret = EvalType(Fun[n].ret, "ret")
  OBVIOUS
<1>6. PICK to : to = Rtt(Lower(parm), parm)
  OBVIOUS
<1>7. PICK c : c = ConvertType(slot[w], to, FALSE)
  OBVIOUS
<1>8. /\ Class(f.t) = "funptr" /\ Declared(n) /\ c # None /\ s # w /\ locals' = locals
      /\ Builds(Lower(parm), c.l, c.loose)
      /\ slot' = [slot EXCEPT ![w] = None, ![s] = Rtv(Lower(ret), ret, FALSE, FALSE)]
  BY <1>3, <1>4, <1>5, <1>6, <1>7 DEF CallFunptr
<1>9. n \in DOMAIN Fun
  <2>1. f.t[1] \in Prop
    BY <1>3, TypeForm DEF IsRead, Good, IsValue
  <2> QED BY <1>4, <1>8, <2>1, PropForm DEF Class, Num
<1>10. Fun[n].parm \in Expr /\ Fun[n].ret \in Expr
  BY <1>9, FunAssumption
<1>11. "parm" \in Owner /\ "ret" \in Owner
  BY DEF Owner
<1>12. IsType(parm) /\ IsType(ret)
  BY <1>1, <1>5, <1>8, <1>10, <1>11, EvalIsType DEF Declared
<1>13. c.loose \/ c.l = Lower(parm)
  <2>1. IsTarget(to) /\ to.t = parm
    BY <1>1, <1>6, <1>12, TargetOf
  <2> QED BY <1>1, <1>2, <1>7, <1>8, <2>1, ConvertAgrees
<1>14. InstructionsTyped'
  BY <1>8, <1>13 DEF Builds, InstructionsTyped
<1>15. Good(Rtv(Lower(ret), ret, FALSE, FALSE))
  <2>1. PICK l : l = Lower(ret) /\ l \in Seq(LProp)
    BY <1>1, <1>12, LowerType
  <2>2. Good(Rtv(l, ret, FALSE, FALSE))
    BY <1>1, <1>12, <2>1, ValueOf
  <2> QED BY <2>1, <2>2
<1>16. DOMAIN slot' = Slot /\ \A q \in Slot : slot'[q] \in {slot[q], None} \/ Good(slot'[q])
  BY <1>1, <1>8, <1>15
<1> QED BY <1>1, <1>8, <1>14, <1>16, FollowsFrom

\* A declaration makes no value.
LEMMA DeclarationFollows ==
  ASSUME IInv, built' = None, UNCHANGED <<locals, slot>>
  PROVE  Follows
<1>1. TypeOK /\ ValuesAgree /\ DOMAIN slot = Slot
  BY DEF IInv, TypeOK
<1>2. InstructionsTyped'
  BY DEF InstructionsTyped
<1> QED BY <1>1, <1>2, FollowsFrom
-----------------------------------------------------------------------------
\* What a struct's members and fields have to do with each other.
StructHolds(p) ==
  LET main     == {i \in DOMAIN p.memb : p.memb[i].unionmain \in {None, i}}
      field(i) == p.memb[i].llvmnum + 1
  IN  /\ \A i \in main : /\ field(i) \in DOMAIN p.body
                         /\ p.body[field(i)] = Lower(p.memb[i].type)
      /\ \A i, k \in main : i # k => field(i) # field(k)
      /\ \A i \in DOMAIN p.memb \ main :
           /\ p.memb[i].unionmain \in main
           /\ Size(Lower(p.memb[i].type)) <= Size(p.body[field(p.memb[i].unionmain)])

LEMMA FieldsAreStructs == FieldsHold <=> \A n \in DOMAIN structs : StructHolds(structs[n])
BY DEF FieldsHold, StructHolds

LEMMA DeclProps ==
  ASSUME NEW n \in DOMAIN Struct, NEW decl \in Struct[n], NEW j \in DOMAIN decl
  PROVE  /\ j \in Nat \ {0} /\ decl[j].union \in BOOLEAN
         /\ decl[j].union => Members(decl[j]) = decl[j].memb
         /\ ~decl[j].union => DOMAIN Members(decl[j]) = {1}
         /\ \A i \in DOMAIN Members(decl[j]) :
              i \in Nat /\ Members(decl[j])[i].type \in Expr
<1>1. decl \in Seq([union: BOOLEAN, memb: Seq([type: Expr, name: STRING]) \ {<< >>}])
  BY StructAssumption
<1>2. j \in Nat \ {0} /\ decl[j] \in [union: BOOLEAN,
                                      memb: Seq([type: Expr, name: STRING]) \ {<< >>}]
  BY <1>1, ElementProps
<1>3. PICK m : m = decl[j].memb
  OBVIOUS
<1>4. m \in Seq([type: Expr, name: STRING]) /\ m # << >> /\ decl[j].union \in BOOLEAN
  BY <1>2, <1>3
<1>5. /\ 1 \in DOMAIN m
      /\ \A i \in DOMAIN m : i \in Nat /\ m[i] \in [type: Expr, name: STRING]
  BY <1>4, ElementProps
<1>6. \A i \in DOMAIN m : i \in Nat /\ m[i].type \in Expr
  BY <1>5
<1>7. PICK s : s = Members(decl[j])
  OBVIOUS
<1>8. CASE decl[j].union
  BY <1>2, <1>3, <1>4, <1>6, <1>8 DEF Members
<1>9. CASE ~decl[j].union
  <2>1. s = <<m[1]>>
    BY <1>3, <1>7, <1>9 DEF Members
  <2>2. DOMAIN s = {1} /\ s[1] = m[1]
    BY <2>1
  <2>3. \A i \in DOMAIN s : i \in Nat /\ s[i].type \in Expr
    BY <1>5, <1>6, <2>2
  <2> QED BY <1>2, <1>4, <1>7, <1>9, <2>2, <2>3
<1> QED BY <1>8, <1>9

LEMMA MainProps ==
  ASSUME NEW n \in DOMAIN Struct, NEW decl \in Struct[n], Defstruct(n, decl),
         NEW j \in DOMAIN decl
  PROVE  /\ Main(n, decl, j) \in DOMAIN Members(decl[j])
         /\ decl[j].union => IsLongest(n, decl, j, Main(n, decl, j))
<1>1. CASE decl[j].union
  <2>1. Members(decl[j]) = decl[j].memb
    BY <1>1, DeclProps
  <2>2. \E m \in DOMAIN Members(decl[j]) : IsLongest(n, decl, j, m)
    BY <1>1, <2>1 DEF Defstruct
  <2>3. PICK m : m = Main(n, decl, j)
    OBVIOUS
  <2>4. m = CHOOSE i \in DOMAIN Members(decl[j]) : IsLongest(n, decl, j, i)
    BY <1>1, <2>3 DEF Main
  <2>5. m \in DOMAIN Members(decl[j]) /\ IsLongest(n, decl, j, m)
    BY <2>2, <2>4
  <2> QED BY <2>3, <2>5
<1>2. CASE ~decl[j].union
  BY <1>2, DeclProps DEF Main
<1> QED BY <1>1, <1>2

LEMMA PlaceProps ==
  ASSUME NEW decl, NEW p
  PROVE  p \in Places(decl) <=>
           \E j \in DOMAIN decl : \E i \in DOMAIN Members(decl[j]) : p = <<j, i>>
BY DEF Places

LEMMA MemberType ==
  ASSUME TypeOK, NEW n \in DOMAIN Struct, NEW decl \in Struct[n], Defstruct(n, decl),
         NEW j \in DOMAIN decl, NEW i \in DOMAIN Members(decl[j])
  PROVE  IsType(TypeAt(n, decl, j, i)) /\ <<j, i>> \in Nat \X Nat
<1>1. PICK e : e = Members(decl[j])[i].type
  OBVIOUS
<1>2. e \in Expr /\ j \in Nat /\ i \in Nat
  BY <1>1, DeclProps
<1>3. PICK p : p = <<j, i>> /\ p \in Places(decl)
  BY PlaceProps
<1>4. p[1] = j /\ p[2] = i
  BY <1>3
<1>5. Known(Members(decl[p[1]])[p[2]].type)
  BY <1>3 DEF Defstruct
<1>6. Known(e)
  BY <1>1, <1>4, <1>5
<1>7. n \in Owner
  BY DEF Owner
<1>8. IsType(EvalType(e, n))
  BY <1>2, <1>6, <1>7, EvalIsType
<1> QED BY <1>1, <1>2, <1>8 DEF TypeAt

\* A declaration gives the members their fields.
LEMMA DefstructHolds ==
  ASSUME TypeOK, NEW n \in DOMAIN Struct, NEW decl \in Struct[n], Defstruct(n, decl)
  PROVE  \E q : /\ structs' = Extended(structs, n, q)
                /\ StructHolds(q)
                /\ \A p \in DOMAIN q.memb : p \in Nat \X Nat /\ IsType(q.memb[p].type)
<1>1. PICK memb : memb = [p \in Places(decl) |-> Item(n, decl, p[1], p[2])]
  OBVIOUS
<1>2. PICK body : body = [j \in DOMAIN decl |-> Lower(TypeAt(n, decl, j, Main(n, decl, j)))]
  OBVIOUS
<1>3. PICK q : q = [memb |-> memb, body |-> body]
  OBVIOUS
<1>4. /\ structs' = Extended(structs, n, q)
      /\ q.memb = memb /\ q.body = body
  BY <1>1, <1>2, <1>3 DEF Defstruct
<1>5. \A j \in DOMAIN decl : \A i \in DOMAIN Members(decl[j]) :
        /\ <<j, i>> \in Places(decl)
        /\ memb[<<j, i>>].type = TypeAt(n, decl, j, i)
        /\ memb[<<j, i>>].unionmain
             = (IF decl[j].union THEN <<j, Main(n, decl, j)>> ELSE None)
        /\ i = Main(n, decl, j) => memb[<<j, i>>].llvmnum = j - 1
  <2> SUFFICES ASSUME NEW j \in DOMAIN decl, NEW i \in DOMAIN Members(decl[j])
               PROVE  /\ <<j, i>> \in Places(decl)
                      /\ memb[<<j, i>>].type = TypeAt(n, decl, j, i)
                      /\ memb[<<j, i>>].unionmain
                           = (IF decl[j].union THEN <<j, Main(n, decl, j)>> ELSE None)
                      /\ i = Main(n, decl, j) => memb[<<j, i>>].llvmnum = j - 1
    OBVIOUS
  <2>1. PICK p : p = <<j, i>>
    OBVIOUS
  <2>2. p \in Places(decl) /\ p[1] = j /\ p[2] = i
    BY <2>1, PlaceProps
  <2>3. memb[p] = Item(n, decl, j, i)
    BY <1>1, <2>2
  <2> QED BY <2>1, <2>2, <2>3 DEF Item, Memb, FieldNumber, Field
<1>6. \A j \in DOMAIN decl : \A i \in DOMAIN Members(decl[j]) :
        memb[<<j, i>>].unionmain \in {None, <<j, i>>} <=> i = Main(n, decl, j)
  <2> SUFFICES ASSUME NEW j \in DOMAIN decl, NEW i \in DOMAIN Members(decl[j])
               PROVE  memb[<<j, i>>].unionmain \in {None, <<j, i>>} <=> i = Main(n, decl, j)
    OBVIOUS
  <2>1. PICK m \in DOMAIN Members(decl[j]) : m = Main(n, decl, j)
    BY MainProps
  <2>2. <<j, m>> \in Nat \X Nat
    BY MemberType
  <2>3. CASE decl[j].union
    <3>1. memb[<<j, i>>].unionmain = <<j, m>>
      BY <1>5, <2>1, <2>3
    <3>2. <<j, m>> # None
      BY <2>2, NoneAssumption
    <3>3. <<j, m>> = <<j, i>> <=> i = m
      OBVIOUS
    <3> QED BY <2>1, <3>1, <3>2, <3>3
  <2>4. CASE ~decl[j].union
    <3>1. memb[<<j, i>>].unionmain = None
      BY <1>5, <2>4
    <3>2. i = m
      BY <2>4, DeclProps
    <3> QED BY <2>1, <3>1, <3>2
  <2> QED BY <2>3, <2>4
<1>7. PICK main : main = {i \in DOMAIN memb : memb[i].unionmain \in {None, i}}
  OBVIOUS
<1>8. \A p \in DOMAIN memb : \E j \in DOMAIN decl : \E i \in DOMAIN Members(decl[j]) :
        /\ p = <<j, i>> /\ j \in Nat
        /\ p \in main <=> i = Main(n, decl, j)
  <2> SUFFICES ASSUME NEW p \in DOMAIN memb
               PROVE  \E j \in DOMAIN decl : \E i \in DOMAIN Members(decl[j]) :
                        /\ p = <<j, i>> /\ j \in Nat
                        /\ p \in main <=> i = Main(n, decl, j)
    OBVIOUS
  <2>1. PICK j \in DOMAIN decl : \E i \in DOMAIN Members(decl[j]) : p = <<j, i>>
    BY <1>1, PlaceProps
  <2>2. PICK i \in DOMAIN Members(decl[j]) : p = <<j, i>>
    BY <2>1
  <2>3. p \in main <=> i = Main(n, decl, j)
    BY <1>6, <1>7, <2>2
  <2>4. j \in Nat
    BY DeclProps
  <2> QED BY <2>2, <2>3, <2>4
<1>9. \A p \in main : \E j \in DOMAIN decl :
        /\ p = <<j, Main(n, decl, j)>> /\ memb[p].llvmnum + 1 = j
        /\ body[j] = Lower(memb[p].type)
  <2> SUFFICES ASSUME NEW p \in main
               PROVE  \E j \in DOMAIN decl :
                        /\ p = <<j, Main(n, decl, j)>> /\ memb[p].llvmnum + 1 = j
                        /\ body[j] = Lower(memb[p].type)
    OBVIOUS
  <2>1. PICK j \in DOMAIN decl :
          \E i \in DOMAIN Members(decl[j]) :
            p = <<j, i>> /\ j \in Nat /\ i = Main(n, decl, j)
    BY <1>7, <1>8
  <2>2. PICK i \in DOMAIN Members(decl[j]) :
          p = <<j, i>> /\ j \in Nat /\ i = Main(n, decl, j)
    BY <2>1
  <2>3. memb[p].llvmnum = j - 1 /\ memb[p].type = TypeAt(n, decl, j, i)
    BY <1>5, <2>2
  <2>4. body[j] = Lower(TypeAt(n, decl, j, i))
    BY <1>2, <2>2
  <2>5. memb[p].llvmnum + 1 = j
    BY <2>2, <2>3
  <2> QED BY <2>2, <2>3, <2>4, <2>5
<1>10. \A i \in main : /\ memb[i].llvmnum + 1 \in DOMAIN body
                       /\ body[memb[i].llvmnum + 1] = Lower(memb[i].type)
  BY <1>2, <1>9
<1>11. \A i, k \in main : i # k => memb[i].llvmnum + 1 # memb[k].llvmnum + 1
  <2> SUFFICES ASSUME NEW i \in main, NEW k \in main,
                      memb[i].llvmnum + 1 = memb[k].llvmnum + 1
               PROVE  i = k
    OBVIOUS
  <2>1. PICK j : i = <<j, Main(n, decl, j)>> /\ memb[i].llvmnum + 1 = j
    BY <1>9
  <2>2. PICK l : k = <<l, Main(n, decl, l)>> /\ memb[k].llvmnum + 1 = l
    BY <1>9
  <2>3. j = l
    BY <2>1, <2>2
  <2> QED BY <2>1, <2>2, <2>3
<1>12. \A p \in DOMAIN memb \ main :
         /\ memb[p].unionmain \in main
         /\ Size(Lower(memb[p].type)) <= Size(body[memb[memb[p].unionmain].llvmnum + 1])
  <2> SUFFICES ASSUME NEW p \in DOMAIN memb \ main
               PROVE  /\ memb[p].unionmain \in main
                      /\ Size(Lower(memb[p].type))
                           <= Size(body[memb[memb[p].unionmain].llvmnum + 1])
    OBVIOUS
  <2>1. PICK j \in DOMAIN decl :
          \E i \in DOMAIN Members(decl[j]) : p = <<j, i>> /\ i # Main(n, decl, j)
    BY <1>8
  <2>2. PICK i \in DOMAIN Members(decl[j]) : p = <<j, i>> /\ i # Main(n, decl, j)
    BY <2>1
  <2>3. PICK m \in DOMAIN Members(decl[j]) : m = Main(n, decl, j)
    BY MainProps
  <2>4. decl[j].union
    BY <2>2, <2>3, DeclProps
  <2>5. PICK u : u = <<j, m>>
    OBVIOUS
  <2>6. u \in main /\ memb[p].unionmain = u /\ memb[p].type = TypeAt(n, decl, j, i)
    BY <1>1, <1>5, <1>6, <1>7, <2>2, <2>3, <2>4, <2>5
  <2>7. memb[u].type = TypeAt(n, decl, j, m)
    BY <1>5, <2>5
  <2>8. Size(Lower(TypeAt(n, decl, j, i))) <= Size(Lower(TypeAt(n, decl, j, m)))
    BY <2>3, <2>4, MainProps DEF IsLongest
  <2>9. body[memb[u].llvmnum + 1] = Lower(TypeAt(n, decl, j, m))
    BY <1>10, <2>6, <2>7
  <2> QED BY <2>6, <2>8, <2>9
<1>13. StructHolds(q)
  BY <1>4, <1>7, <1>10, <1>11, <1>12 DEF StructHolds
<1>14. \A p \in DOMAIN memb : p \in Nat \X Nat /\ IsType(memb[p].type)
  <2> SUFFICES ASSUME NEW p \in DOMAIN memb
               PROVE  p \in Nat \X Nat /\ IsType(memb[p].type)
    OBVIOUS
  <2>1. PICK j \in DOMAIN decl : \E i \in DOMAIN Members(decl[j]) : p = <<j, i>>
    BY <1>8
  <2>2. PICK i \in DOMAIN Members(decl[j]) : p = <<j, i>>
    BY <2>1
  <2>3. memb[p].type = TypeAt(n, decl, j, i)
    BY <1>5, <2>2
  <2> QED BY <2>2, <2>3, MemberType
<1> QED BY <1>4, <1>13, <1>14
-----------------------------------------------------------------------------
\* A declaration of a type, the only step that does not leave the types.
Declaration ==
  \/ \E n \in DOMAIN Alias : \E e \in Alias[n] : CreateAlias(n, e)
  \/ \E n \in DOMAIN Struct : \E d \in Struct[n] : Defstruct(n, d)

LEMMA NextFollows ==
  ASSUME IInv, Next
  PROVE  Follows /\ (Declaration \/ UNCHANGED <<types, aliases, structs>>)
<1>1. CASE Declaration
  <2>1. built' = None /\ UNCHANGED <<locals, slot>>
    BY <1>1 DEF Declaration, CreateAlias, Defstruct
  <2> QED BY <1>1, <2>1, DeclarationFollows
<1>2. CASE \E x \in Var, e \in TypeExpr : DefineVar(x, e)
  BY <1>2, DefineVarFollows DEF DefineVar
<1>3. CASE \E s \in Slot :
       \/ \E t \in Literals : Literal(s, t)
       \/ \E x \in Var : Ident(s, x) \/ Introduce(x, s)
       \/ \E e \in TypeExpr : Convert(s, e)
       \/ PtrTo(s)
       \/ PtrDeref(s)
       \/ \E n \in DOMAIN structs : \E i \in DOMAIN structs[n].memb :
            MembStruct(s, structs[n].memb[i].name)
       \/ Condition(s)
       \/ \E f \in DOMAIN Fun : FunptrTo(s, f)
       \/ \E w \in Slot :
            \/ MembArray(s, w)
            \/ \E comparison \in BOOLEAN : Operator(s, w, comparison)
            \/ Assign(s, w)
            \/ CallFunptr(s, w)
  <2> PICK s \in Slot :
       \/ \E t \in Literals : Literal(s, t)
       \/ \E x \in Var : Ident(s, x) \/ Introduce(x, s)
       \/ \E e \in TypeExpr : Convert(s, e)
       \/ PtrTo(s)
       \/ PtrDeref(s)
       \/ \E n \in DOMAIN structs : \E i \in DOMAIN structs[n].memb :
            MembStruct(s, structs[n].memb[i].name)
       \/ Condition(s)
       \/ \E f \in DOMAIN Fun : FunptrTo(s, f)
       \/ \E w \in Slot :
            \/ MembArray(s, w)
            \/ \E comparison \in BOOLEAN : Operator(s, w, comparison)
            \/ Assign(s, w)
            \/ CallFunptr(s, w)
    BY <1>3
  <2>1. CASE \E t \in Literals : Literal(s, t)
    BY <2>1, LiteralFollows DEF Literal, Result
  <2>2. CASE \E x \in Var : Ident(s, x)
    BY <2>2, IdentFollows DEF Ident, Result
  <2>3. CASE \E x \in Var : Introduce(x, s)
    BY <2>3, IntroduceFollows DEF Introduce
  <2>4. CASE \E e \in TypeExpr : Convert(s, e)
    <3>1. PICK e \in TypeExpr : Convert(s, e)
      BY <2>4
    <3>2. UNCHANGED <<types, aliases, structs>>
      BY <3>1 DEF Convert, Result
    <3> QED BY <3>1, <3>2, ConvertFollows
  <2>5. CASE PtrTo(s)
    BY <2>5, PtrToFollows DEF PtrTo, Result
  <2>6. CASE PtrDeref(s)
    BY <2>6, PtrDerefFollows DEF PtrDeref, Result
  <2>7. CASE \E n \in DOMAIN structs : \E i \in DOMAIN structs[n].memb :
               MembStruct(s, structs[n].memb[i].name)
    <3>1. PICK name : MembStruct(s, name)
      BY <2>7
    <3>2. UNCHANGED <<types, aliases, structs>>
      BY <3>1 DEF MembStruct, Result
    <3> QED BY <3>1, <3>2, MembStructFollows
  <2>8. CASE Condition(s)
    BY <2>8, ConditionFollows DEF Condition
  <2>9. CASE \E f \in DOMAIN Fun : FunptrTo(s, f)
    BY <2>9, FunptrToFollows DEF FunptrTo, Result
  <2>10. CASE \E w \in Slot : MembArray(s, w)
    BY <2>10, MembArrayFollows DEF MembArray
  <2>11. CASE \E w \in Slot : \E comparison \in BOOLEAN : Operator(s, w, comparison)
    BY <2>11, OperatorFollows DEF Operator
  <2>12. CASE \E w \in Slot : Assign(s, w)
    BY <2>12, AssignFollows DEF Assign
  <2>13. CASE \E w \in Slot : CallFunptr(s, w)
    BY <2>13, CallFunptrFollows DEF CallFunptr
  <2> QED BY <2>1, <2>2, <2>3, <2>4, <2>5, <2>6, <2>7, <2>8, <2>9, <2>10, <2>11,
             <2>12, <2>13
<1> QED BY <1>1, <1>2, <1>3 DEF Next, Declaration

\* What a declaration adds: one name, that had no meaning.
LEMMA AliasAdds ==
  ASSUME TypeOK, NEW n \in DOMAIN Alias, NEW e \in Alias[n], CreateAlias(n, e)
  PROVE  \E l : /\ IsType(l) /\ n \notin DOMAIN types
                /\ types' = Extended(types, n, <<AliasOf(n)>> \o l)
                /\ aliases' = Extended(aliases, n, Lower(l))
                /\ structs' = structs
<1>1. PICK l : l = EvalType(e, n)
  OBVIOUS
<1>2. e \in Expr /\ Known(e) /\ n \in Owner
  BY AliasAssumption DEF CreateAlias, Owner
<1>3. IsType(l)
  BY <1>1, <1>2, EvalIsType
<1>4. /\ n \notin DOMAIN types
      /\ types' = Extended(types, n, <<AliasOf(n)>> \o l)
      /\ aliases' = Extended(aliases, n, Lower(l))
      /\ structs' = structs
  BY <1>1 DEF CreateAlias, Register, MayRegister, NewName
<1> QED BY <1>3, <1>4

LEMMA StepKeeps ==
  ASSUME TypeOK, Declaration \/ UNCHANGED <<types, aliases, structs>>
  PROVE  Keeps
<1>1. DOMAIN aliases \subseteq DOMAIN types /\ DOMAIN structs \subseteq DOMAIN types
  BY DEF TypeOK
<1>2. CASE \E n \in DOMAIN Alias : \E e \in Alias[n] : CreateAlias(n, e)
  <2>1. PICK n, l : /\ n \notin DOMAIN types
                    /\ types' = Extended(types, n, <<AliasOf(n)>> \o l)
                    /\ aliases' = Extended(aliases, n, Lower(l))
                    /\ structs' = structs
    BY <1>2, AliasAdds
  <2>2. n \notin DOMAIN aliases
    BY <1>1, <2>1
  <2> QED BY <2>1, <2>2 DEF Keeps, Extended
<1>3. CASE \E n \in DOMAIN Struct : \E d \in Struct[n] : Defstruct(n, d)
  <2> PICK n \in DOMAIN Struct : \E d \in Struct[n] : Defstruct(n, d)
    BY <1>3
  <2>1. PICK d \in Struct[n] : Defstruct(n, d)
    OBVIOUS
  <2>2. /\ n \notin DOMAIN types /\ types' = Extended(types, n, <<StructOf(n)>>)
        /\ aliases' = aliases
    BY <2>1 DEF Defstruct, Register, MayRegister, NewName
  <2>3. PICK q : structs' = Extended(structs, n, q)
    BY <2>1, DefstructHolds
  <2>4. n \notin DOMAIN structs
    BY <1>1, <2>2
  <2> QED BY <2>2, <2>3, <2>4 DEF Keeps, Extended
<1>4. CASE UNCHANGED <<types, aliases, structs>>
  BY <1>4 DEF Keeps
<1> QED BY <1>2, <1>3, <1>4 DEF Declaration

LEMMA StructAdds ==
  ASSUME TypeOK, NEW n \in DOMAIN Struct, NEW d \in Struct[n], Defstruct(n, d)
  PROVE  \E q : /\ n \notin DOMAIN types /\ types' = Extended(types, n, <<StructOf(n)>>)
                /\ aliases' = aliases
                /\ structs' = Extended(structs, n, q)
                /\ StructHolds(q)
                /\ \A p \in DOMAIN q.memb : p \in Nat \X Nat /\ IsType(q.memb[p].type)
<1>1. /\ n \notin DOMAIN types /\ types' = Extended(types, n, <<StructOf(n)>>)
      /\ aliases' = aliases
  BY DEF Defstruct, Register, MayRegister, NewName
<1> QED BY <1>1, DefstructHolds

\* TypeOK, of the declarations and of the values.
DeclarationsOK ==
  /\ \A n \in DOMAIN types : IsType(types[n])
  /\ \A n \in DOMAIN aliases :
       /\ n \in DOMAIN types /\ types[n][1] = AliasOf(n)
       /\ aliases[n] \in Seq(LProp)
  /\ \A n \in DOMAIN structs :
       /\ n \in DOMAIN Struct \cap DOMAIN types /\ types[n] = <<StructOf(n)>>
       /\ \A p \in DOMAIN structs[n].memb :
            p \in Nat \X Nat /\ IsType(structs[n].memb[p].type)

LEMMA OldTypes ==
  ASSUME TypeOK, Keeps
  PROVE  /\ Prop \subseteq Prop'
         /\ \A n \in DOMAIN types : n \in DOMAIN types' /\ IsType(types[n])'
         /\ \A n \in DOMAIN structs : \A p \in DOMAIN structs[n].memb :
              IsType(structs[n].memb[p].type)'
<1>1. Prop \subseteq Prop'
  BY DEF Prop, Keeps
<1>2. ASSUME NEW n \in DOMAIN types
      PROVE  n \in DOMAIN types' /\ IsType(types[n])'
  <2>1. PICK t : t = types[n]
    OBVIOUS
  <2>2. IsType(t)'
    BY <2>1, TypeKeeps DEF TypeOK
  <2>3. n \in DOMAIN types' /\ types'[n] = t
    BY <2>1 DEF Keeps
  <2> QED BY <2>2, <2>3
<1>3. ASSUME NEW n \in DOMAIN structs, NEW p \in DOMAIN structs[n].memb
      PROVE  IsType(structs[n].memb[p].type)'
  <2>1. PICK t : t = structs[n].memb[p].type
    OBVIOUS
  <2>2. IsType(t)'
    BY <2>1, TypeKeeps DEF TypeOK
  <2>3. structs'[n].memb[p].type = t
    BY <2>1 DEF Keeps
  <2> QED BY <2>2, <2>3
<1> QED BY <1>1, <1>2, <1>3

\* ConsType and OneType, to be used of the state after a step.
TypesBuild ==
  /\ \A t, p : /\ IsType(t) /\ p \in Prop /\ p[1] \in {"pointer", "array", "alias"}
               /\ p[1] = "alias" => types[p[2]] = <<p>> \o t
               => IsType(<<p>> \o t)
  /\ \A p : /\ p \in Prop
            /\ p[1] \in {"pointer", "integer", "float", "struct", "funptr"}
            => IsType(<<p>>)

LEMMA BuildTypes == TypesBuild
BY ConsType, OneType DEF TypesBuild

LEMMA AliasKeepsDeclarations ==
  ASSUME TypeOK, Keeps, NEW n, n \notin DOMAIN types, NEW l, IsType(l),
         types' = Extended(types, n, <<AliasOf(n)>> \o l),
         aliases' = Extended(aliases, n, Lower(l)),
         structs' = structs
  PROVE  DeclarationsOK'
<1>1. PICK p : p = AliasOf(n)
  OBVIOUS
<1>2. PICK t : t = <<p>> \o l
  OBVIOUS
<1>3. PICK u : u = Lower(l)
  OBVIOUS
<1>4. /\ types' = [x \in DOMAIN types \cup {n} |-> IF x = n THEN t ELSE types[x]]
      /\ aliases' = [x \in DOMAIN aliases \cup {n} |-> IF x = n THEN u ELSE aliases[x]]
  BY <1>1, <1>2, <1>3 DEF Extended
<1>5. types'[n] = t /\ n \in DOMAIN types' /\ aliases'[n] = u /\ n \in DOMAIN aliases'
  BY <1>4
<1>6. p \in Prop' /\ p[1] = "alias" /\ p[2] = n
  BY <1>1, <1>5 DEF Prop, AliasOf
<1>7. IsType(l)'
  BY TypeKeeps
<1>8. IsType(t)'
  <2>1. TypesBuild'
    BY BuildTypes, PTL
  <2>2. types'[p[2]] = <<p>> \o l
    BY <1>2, <1>5, <1>6
  <2> QED BY <1>2, <1>6, <1>7, <2>1, <2>2 DEF TypesBuild
<1>9. t[1] = p
  <2>1. l \in Seq(Prop) /\ l \in Seq(Prop')
    BY <1>7, TypeForm DEF IsType
  <2> QED BY <1>2, <1>6, <2>1, ConsProps
<1>10. u \in Seq(LProp)
  BY <1>3, LowerType
<1>11. \A x \in DOMAIN types' : IsType(types[x])'
  <2> SUFFICES ASSUME NEW x \in DOMAIN types' PROVE IsType(types[x])'
    OBVIOUS
  <2>1. CASE x = n
    BY <1>5, <1>8, <2>1
  <2>2. CASE x # n
    BY <1>4, <2>2, OldTypes
  <2> QED BY <2>1, <2>2
<1>12. \A x \in DOMAIN aliases' :
         /\ x \in DOMAIN types' /\ types'[x][1] = AliasOf(x)
         /\ aliases'[x] \in Seq(LProp)
  <2> SUFFICES ASSUME NEW x \in DOMAIN aliases'
               PROVE  /\ x \in DOMAIN types' /\ types'[x][1] = AliasOf(x)
                      /\ aliases'[x] \in Seq(LProp)
    OBVIOUS
  <2>1. CASE x = n
    BY <1>1, <1>5, <1>9, <1>10, <2>1
  <2>2. CASE x # n
    <3>1. x \in DOMAIN aliases
      BY <1>4, <2>2
    <3> QED BY <3>1 DEF TypeOK, Keeps
  <2> QED BY <2>1, <2>2
<1>13. \A x \in DOMAIN structs' :
         /\ x \in DOMAIN Struct \cap DOMAIN types' /\ types'[x] = <<StructOf(x)>>
         /\ \A i \in DOMAIN structs'[x].memb :
              i \in Nat \X Nat /\ IsType(structs[x].memb[i].type)'
  BY OldTypes DEF TypeOK, Keeps
<1> QED BY <1>11, <1>12, <1>13 DEF DeclarationsOK

LEMMA StructKeepsDeclarations ==
  ASSUME TypeOK, Keeps, NEW n \in DOMAIN Struct, n \notin DOMAIN types, NEW q,
         types' = Extended(types, n, <<StructOf(n)>>),
         aliases' = aliases,
         structs' = Extended(structs, n, q),
         \A p \in DOMAIN q.memb : p \in Nat \X Nat /\ IsType(q.memb[p].type)
  PROVE  DeclarationsOK'
<1>1. PICK p : p = StructOf(n)
  OBVIOUS
<1>2. PICK t : t = <<p>>
  OBVIOUS
<1>3. /\ types' = [x \in DOMAIN types \cup {n} |-> IF x = n THEN t ELSE types[x]]
      /\ structs' = [x \in DOMAIN structs \cup {n} |-> IF x = n THEN q ELSE structs[x]]
  BY <1>1, <1>2 DEF Extended
<1>4. types'[n] = t /\ n \in DOMAIN types' /\ structs'[n] = q /\ n \in DOMAIN structs'
  BY <1>3
<1>5. p \in Prop' /\ p[1] = "struct"
  BY <1>1, <1>4 DEF Prop, StructOf
<1>6. IsType(t)'
  <2>1. TypesBuild'
    BY BuildTypes, PTL
  <2> QED BY <1>2, <1>5, <2>1 DEF TypesBuild
<1>7. \A x \in DOMAIN types' : IsType(types[x])'
  <2> SUFFICES ASSUME NEW x \in DOMAIN types' PROVE IsType(types[x])'
    OBVIOUS
  <2>1. CASE x = n
    BY <1>4, <1>6, <2>1
  <2>2. CASE x # n
    BY <1>3, <2>2, OldTypes
  <2> QED BY <2>1, <2>2
<1>8. \A x \in DOMAIN aliases' :
        /\ x \in DOMAIN types' /\ types'[x][1] = AliasOf(x)
        /\ aliases'[x] \in Seq(LProp)
  BY DEF TypeOK, Keeps
<1>9. \A i \in DOMAIN q.memb : i \in Nat \X Nat /\ IsType(q.memb[i].type)'
  <2> SUFFICES ASSUME NEW i \in DOMAIN q.memb
               PROVE  i \in Nat \X Nat /\ IsType(q.memb[i].type)'
    OBVIOUS
  <2>1. PICK m : m = q.memb[i].type /\ IsType(m)
    OBVIOUS
  <2> QED BY <2>1, TypeKeeps
<1>10. \A x \in DOMAIN structs' :
         /\ x \in DOMAIN Struct \cap DOMAIN types' /\ types'[x] = <<StructOf(x)>>
         /\ \A i \in DOMAIN structs'[x].memb :
              i \in Nat \X Nat /\ IsType(structs[x].memb[i].type)'
  <2> SUFFICES ASSUME NEW x \in DOMAIN structs'
               PROVE  /\ x \in DOMAIN Struct \cap DOMAIN types'
                      /\ types'[x] = <<StructOf(x)>>
                      /\ \A i \in DOMAIN structs'[x].memb :
                           i \in Nat \X Nat /\ IsType(structs[x].memb[i].type)'
    OBVIOUS
  <2>1. CASE x = n
    BY <1>1, <1>2, <1>4, <1>9, <2>1
  <2>2. CASE x # n
    <3>1. x \in DOMAIN structs
      BY <1>3, <2>2
    <3> QED BY <3>1, OldTypes DEF TypeOK, Keeps
  <2> QED BY <2>1, <2>2
<1> QED BY <1>7, <1>8, <1>10 DEF DeclarationsOK

LEMMA DeclarationsKeep ==
  ASSUME TypeOK, Keeps, Declaration \/ UNCHANGED <<types, aliases, structs>>
  PROVE  DeclarationsOK'
<1>1. CASE \E n \in DOMAIN Alias : \E e \in Alias[n] : CreateAlias(n, e)
  BY <1>1, AliasAdds, AliasKeepsDeclarations
<1>2. CASE \E n \in DOMAIN Struct : \E d \in Struct[n] : Defstruct(n, d)
  <2>1. PICK n \in DOMAIN Struct : \E d \in Struct[n] : Defstruct(n, d)
    BY <1>2
  <2>2. PICK q : /\ n \notin DOMAIN types /\ types' = Extended(types, n, <<StructOf(n)>>)
                 /\ aliases' = aliases
                 /\ structs' = Extended(structs, n, q)
                 /\ \A p \in DOMAIN q.memb :
                      p \in Nat \X Nat /\ IsType(q.memb[p].type)
    BY <2>1, StructAdds
  <2> QED BY <2>2, StructKeepsDeclarations
<1>3. CASE UNCHANGED <<types, aliases, structs>>
  BY <1>3, OldTypes DEF DeclarationsOK, TypeOK
<1> QED BY <1>1, <1>2, <1>3 DEF Declaration

LEMMA ValuesKeep ==
  ASSUME TypeOK, Keeps, Follows, DeclarationsOK'
  PROVE  TypeOK' /\ ValuesAgree' /\ InstructionsTyped'
<1>1. ASSUME NEW v \in Values'
      PROVE  /\ v \in [l: Seq(LProp), t: Seq(Prop), lv: BOOLEAN, loose: BOOLEAN]'
             /\ IsType(v.t)'
             /\ v.lv => v.l # << >> /\ v.l[1] = <<"ptr">>
             /\ v.loose \/ v.l = (IF v.lv THEN Ptr(Lower(v.t)) ELSE Lower(v.t))'
  <2>1. IsValue(v) /\ Agrees(v)
    BY DEF Follows, Good
  <2>2. PICK t : t = v.t
    OBVIOUS
  <2>3. IsType(t)' /\ Lower(t)' = Lower(t)
    BY <2>1, <2>2, TypeKeeps, LowerKeeps DEF IsValue
  <2>4. t \in Seq(Prop')
    BY <2>3 DEF IsType
  <2>5. v \in [l: Seq(LProp), t: Seq(Prop'), lv: BOOLEAN, loose: BOOLEAN]
    BY <2>1, <2>2, <2>4 DEF IsValue
  <2>6. v.loose \/ v.l = (IF v.lv THEN Ptr(Lower(t)) ELSE Lower(t))
    BY <2>1, <2>2 DEF Agrees
  <2>7. v.loose \/ v.l = (IF v.lv THEN Ptr(Lower(t)) ELSE Lower(t))'
    BY <2>3, <2>6 DEF Ptr
  <2> QED BY <2>1, <2>2, <2>3, <2>5, <2>7 DEF IsValue, LProp
<1>2. TypeOK'
  BY <1>1 DEF TypeOK, DeclarationsOK, Follows
<1>3. ValuesAgree'
  BY <1>1 DEF ValuesAgree
<1> QED BY <1>2, <1>3 DEF Follows

\* The LLVM type of an alias stays that of what it stands for.
LEMMA AliasesKeep ==
  ASSUME TypeOK, AliasesAgree, Keeps,
         Declaration \/ UNCHANGED <<types, aliases, structs>>
  PROVE  AliasesAgree'
<1> SUFFICES ASSUME NEW x \in DOMAIN aliases', Len(types'[x]) > 1
             PROVE  aliases'[x] = Lower(From(types[x], 2))'
  BY DEF AliasesAgree
<1>1. CASE x \in DOMAIN aliases
  <2>1. x \in DOMAIN types /\ types'[x] = types[x] /\ aliases'[x] = aliases[x]
    BY <1>1 DEF TypeOK, Keeps
  <2>2. PICK t : t = types[x] /\ IsType(t) /\ Len(t) > 1
    BY <2>1 DEF TypeOK
  <2>3. PICK u : u = From(t, 2)
    OBVIOUS
  <2>4. IsType(u)
    <3>1. Len(t) \in Nat \ {0}
      BY <2>2, TypeForm
    <3>2. 2 \in 1..Len(t)
      BY <2>2, <3>1
    <3> QED BY <2>2, <2>3, <3>2, FromType
  <2>5. aliases[x] = Lower(u)
    BY <1>1, <2>2, <2>3 DEF AliasesAgree
  <2>6. Lower(u)' = Lower(u)
    BY <2>4, LowerKeeps
  <2>7. From(types[x], 2)' = u
    BY <2>1, <2>2, <2>3 DEF From
  <2> QED BY <2>1, <2>5, <2>6, <2>7
<1>2. CASE x \notin DOMAIN aliases
  <2>1. \E n \in DOMAIN Alias : \E e \in Alias[n] : CreateAlias(n, e)
    BY <1>2 DEF Declaration, Defstruct
  <2>2. PICK n, l : /\ IsType(l)
                    /\ types' = Extended(types, n, <<AliasOf(n)>> \o l)
                    /\ aliases' = Extended(aliases, n, Lower(l))
    BY <2>1, AliasAdds
  <2>3. x = n /\ types'[x] = <<AliasOf(n)>> \o l /\ aliases'[x] = Lower(l)
    BY <1>2, <2>2 DEF Extended
  <2>4. Lower(l)' = Lower(l)
    BY <2>2, LowerKeeps
  <2>5. From(<<AliasOf(n)>> \o l, 2) = l
    <3>1. PICK p, X : p = AliasOf(n) /\ X = Prop \cup {p}
      OBVIOUS
    <3>2. p \in X /\ l \in Seq(Prop) /\ Prop \subseteq X
      BY <2>2, <3>1, TypeForm
    <3>3. l \in Seq(X)
      BY <3>2, SeqMonotonic
    <3>4. From(<<p>> \o l, 2) = l
      BY <3>2, <3>3, ConsProps
    <3> QED BY <3>1, <3>4
  <2>6. From(types[x], 2)' = l
    BY <2>3, <2>5 DEF From
  <2> QED BY <2>3, <2>4, <2>6
<1> QED BY <1>1, <1>2

\* The fields of a struct stay right.
LEMMA HoldsKeeps ==
  ASSUME TypeOK, Keeps, NEW q, StructHolds(q),
         \A p \in DOMAIN q.memb : IsType(q.memb[p].type)
  PROVE  StructHolds(q)'
<1>1. \A p \in DOMAIN q.memb : Lower(q.memb[p].type)' = Lower(q.memb[p].type)
  <2> SUFFICES ASSUME NEW p \in DOMAIN q.memb
               PROVE  Lower(q.memb[p].type)' = Lower(q.memb[p].type)
    OBVIOUS
  <2>1. PICK t : t = q.memb[p].type /\ IsType(t)
    OBVIOUS
  <2>2. Lower(t)' = Lower(t)
    BY <2>1, LowerKeeps
  <2> QED BY <2>1, <2>2
<1> QED BY <1>1 DEF StructHolds

LEMMA FieldsKeep ==
  ASSUME TypeOK, FieldsHold, Keeps,
         Declaration \/ UNCHANGED <<types, aliases, structs>>
  PROVE  FieldsHold'
<1>1. (FieldsHold <=> \A n \in DOMAIN structs : StructHolds(structs[n]))'
  BY FieldsAreStructs, PTL
<1> SUFFICES ASSUME NEW x \in DOMAIN structs'
             PROVE  StructHolds(structs[x])'
  BY <1>1
<1>2. CASE x \in DOMAIN structs
  <2>1. PICK q : q = structs[x]
    OBVIOUS
  <2>2. StructHolds(q)
    BY <1>2, <2>1, FieldsAreStructs
  <2>3. \A p \in DOMAIN q.memb : IsType(q.memb[p].type)
    BY <1>2, <2>1 DEF TypeOK
  <2>4. StructHolds(q)'
    BY <2>2, <2>3, HoldsKeeps
  <2>5. structs'[x] = q
    BY <1>2, <2>1 DEF Keeps
  <2> QED BY <2>4, <2>5
<1>3. CASE x \notin DOMAIN structs
  <2>1. \E n \in DOMAIN Struct : \E d \in Struct[n] : Defstruct(n, d)
    BY <1>3 DEF Declaration, CreateAlias
  <2>2. PICK n \in DOMAIN Struct : \E d \in Struct[n] : Defstruct(n, d)
    BY <2>1
  <2>3. PICK q : /\ structs' = Extended(structs, n, q)
                 /\ StructHolds(q)
                 /\ \A p \in DOMAIN q.memb :
                      p \in Nat \X Nat /\ IsType(q.memb[p].type)
    BY <2>2, StructAdds
  <2>4. structs'[x] = q
    BY <1>3, <2>3 DEF Extended
  <2>5. StructHolds(q)'
    BY <2>3, HoldsKeeps
  <2> QED BY <2>4, <2>5
<1> QED BY <1>2, <1>3
-----------------------------------------------------------------------------
LEMMA BasicTypes ==
  ASSUME Init
  PROVE  \A n \in DOMAIN types : IsType(types[n])
<1>1. types = Basic /\ aliases = [val |-> Ptr(Byte)]
  BY DEF Init
<1>2. ASSUME NEW n \in {1, 8, 32, 64}, NEW signed \in BOOLEAN
      PROVE  IsType(<<Integer(n, signed)>>)
  <2>1. Integer(n, signed) \in Prop /\ Integer(n, signed)[1] = "integer"
    BY DEF Integer, Prop
  <2> QED BY <2>1, OneType
<1>3. ASSUME NEW n \in {1, 2}
      PROVE  IsType(<<Float(n)>>)
  <2>1. Float(n) \in Prop /\ Float(n)[1] = "float"
    BY DEF Float, Prop
  <2> QED BY <2>1, OneType
<1>4. IsType(<<AliasOf("val")>>)
  <2>1. PICK p, t : p = AliasOf("val") /\ t = <<p>>
    OBVIOUS
  <2>2. p \in Prop /\ p[1] = "alias" /\ p[2] = "val"
    BY <1>1, <2>1 DEF AliasOf, Prop
  <2>3. t \in Seq(Prop) /\ t # << >> /\ Len(t) = 1 /\ t[1] = p
    BY <2>1, <2>2
  <2>4. types["val"] = t
    BY <1>1, <2>1 DEF Basic
  <2>5. From(t, 1) = t
    BY <2>3, FromOne
  <2> QED BY <2>1, <2>2, <2>3, <2>4, <2>5 DEF IsType
<1>5. DOMAIN Basic = {"bool", "i8", "u8", "i32", "u32", "i64", "float", "double", "val"}
  BY DEF Basic
<1>6. /\ Basic["bool"] = <<Integer(1, TRUE)>>
      /\ Basic["i8"] = <<Integer(8, TRUE)>> /\ Basic["u8"] = <<Integer(8, FALSE)>>
      /\ Basic["i32"] = <<Integer(32, TRUE)>> /\ Basic["u32"] = <<Integer(32, FALSE)>>
      /\ Basic["i64"] = <<Integer(64, TRUE)>>
      /\ Basic["float"] = <<Float(1)>> /\ Basic["double"] = <<Float(2)>>
      /\ Basic["val"] = <<AliasOf("val")>>
  BY DEF Basic
<1>7. \A n \in DOMAIN Basic : IsType(Basic[n])
  <2>1. IsType(Basic["bool"]) /\ IsType(Basic["i8"]) /\ IsType(Basic["i32"])
        /\ IsType(Basic["i64"])
    BY <1>2, <1>6
  <2>2. IsType(Basic["u8"]) /\ IsType(Basic["u32"])
    BY <1>2, <1>6
  <2>3. IsType(Basic["float"]) /\ IsType(Basic["double"]) /\ IsType(Basic["val"])
    BY <1>3, <1>4, <1>6
  <2> QED BY <1>5, <2>1, <2>2, <2>3
<1> QED BY <1>1, <1>7

LEMMA InitIInv == Init => IInv
<1> SUFFICES ASSUME Init PROVE IInv
  OBVIOUS
<1>1. /\ DOMAIN aliases = {"val"} /\ aliases["val"] = Ptr(Byte)
      /\ "val" \in DOMAIN types /\ types["val"] = <<AliasOf("val")>>
  BY DEF Init, Basic
<1>2. DOMAIN structs = {} /\ DOMAIN locals = {} /\ built = None
  BY DEF Init
<1>3. DOMAIN slot = Slot /\ Values = {}
  BY <1>2 DEF Init, Values
<1>4. Ptr(Byte) \in Seq(LProp)
  <2>1. <<"i", 8>> \in LProp
    BY DEF LProp
  <2> QED BY <2>1, PtrProps DEF Byte
<1>5. TypeOK
  BY <1>1, <1>2, <1>3, <1>4, BasicTypes DEF TypeOK
<1>6. AliasesAgree
  <2>1. Len(types["val"]) = 1
    BY <1>1
  <2>2. ~(Len(types["val"]) > 1)
    BY <2>1
  <2>3. \A n \in DOMAIN aliases : n = "val"
    BY <1>1
  <2> QED BY <2>2, <2>3 DEF AliasesAgree
<1>7. ValuesAgree
  BY <1>3 DEF ValuesAgree
<1>8. InstructionsTyped
  BY <1>2 DEF InstructionsTyped
<1>9. FieldsHold
  BY <1>2 DEF FieldsHold
<1> QED BY <1>5, <1>6, <1>7, <1>8, <1>9 DEF IInv

LEMMA StepProps ==
  ASSUME IInv, [Next]_vars
  PROVE  Follows /\ (Declaration \/ UNCHANGED <<types, aliases, structs>>)
<1>1. CASE Next
  BY <1>1, NextFollows
<1>2. CASE UNCHANGED vars
  <2>1. /\ UNCHANGED <<types, aliases, structs>>
        /\ slot' = slot /\ locals' = locals /\ built' = built
    BY <1>2 DEF vars
  <2>2. DOMAIN slot' = Slot /\ InstructionsTyped'
    BY <2>1 DEF IInv, TypeOK, InstructionsTyped
  <2>3. Follows
    BY <2>1, <2>2, FollowsFrom DEF IInv
  <2> QED BY <2>1, <2>3
<1> QED BY <1>1, <1>2

LEMMA NextIInv == IInv /\ [Next]_vars => IInv' /\ Keeps
<1> SUFFICES ASSUME IInv, [Next]_vars PROVE IInv' /\ Keeps
  OBVIOUS
<1>1. TypeOK /\ AliasesAgree /\ FieldsHold
  BY DEF IInv
<1>2. Follows /\ (Declaration \/ UNCHANGED <<types, aliases, structs>>)
  BY StepProps
<1>3. Keeps
  BY <1>1, <1>2, StepKeeps
<1>4. TypeOK' /\ ValuesAgree' /\ InstructionsTyped'
  BY <1>1, <1>2, <1>3, DeclarationsKeep, ValuesKeep
<1>5. AliasesAgree' /\ FieldsHold'
  BY <1>1, <1>2, <1>3, AliasesKeep, FieldsKeep
<1> QED BY <1>3, <1>4, <1>5 DEF IInv

THEOREM TypesInvariant == Spec => []IInv
<1>1. IInv /\ [Next]_vars => IInv'
  BY NextIInv
<1> QED BY <1>1, InitIInv, PTL DEF Spec

\* Every name, member, variable and value has a type that is defined and an
\* LLVM type that is well formed (type.c, structs.c, var.c).
THEOREM TypeCorrect == Spec => []TypeOK
<1>1. IInv => TypeOK
  BY DEF IInv
<1> QED BY <1>1, TypesInvariant, PTL

\* The LLVM value behind every value has the type that the language gives the
\* value, whatever it was converted to, stored in or reached through, unless
\* that type was asserted.
THEOREM ValuesCorrect == Spec => []ValuesAgree
<1>1. IInv => ValuesAgree
  BY DEF IInv
<1> QED BY <1>1, TypesInvariant, PTL

\* Every store, call, index, condition and operator gets operands of the LLVM
\* types it needs.
THEOREM InstructionsCorrect == Spec => []InstructionsTyped
<1>1. IInv => InstructionsTyped
  BY DEF IInv
<1> QED BY <1>1, TypesInvariant, PTL

\* Every member of every struct has a field of its type, or is a member of a
\* union that is no larger than the field of its longest one.
THEOREM FieldsCorrect == Spec => []FieldsHold
<1>1. IInv => FieldsHold
  BY DEF IInv
<1> QED BY <1>1, TypesInvariant, PTL

\* No step changes what a name of a type means.
THEOREM NamesCorrect == Spec => NamesKeepMeaning
<1>1. IInv /\ [Next]_vars =>
        [\A n \in DOMAIN types : n \in DOMAIN types' /\ types'[n] = types[n]
           /\ (n \in DOMAIN aliases => aliases'[n] = aliases[n])
           /\ (n \in DOMAIN structs => structs'[n] = structs[n])]_vars
  BY NextIInv DEF Keeps
<1> QED BY <1>1, TypesInvariant, PTL DEF Spec, NamesKeepMeaning

\* Nothing unwraps an opaque type.
LEMMA OpaqueStays ==
  ASSUME TypeOK, NEW n \in DOMAIN aliases, Len(types[n]) = 1, NEW k \in Nat
  PROVE  LET to == Rtt(aliases[n], types[n]) IN
         to.t = types[n] /\ Class(to.t) = "alias" /\ UnwrapTo(to, k) = to
<1>1. PICK t : t = types[n] /\ IsType(t)
  BY DEF TypeOK
<1>2. PICK to : to = Rtt(aliases[n], t)
  OBVIOUS
<1>3. to.t = t
  BY <1>2 DEF Rtt
<1>4. t[1][1] = "alias"
  BY <1>1 DEF TypeOK, AliasOf
<1>5. Depth(t) = 0
  <2>1. Depth(t) \in 0..(Len(t) - 1)
    BY <1>1, DepthProps
  <2>2. Depth(t) \in 0..(1 - 1)
    BY <1>1, <2>1
  <2> QED BY ONLY <2>2
<1>6. Unwrapped(to.t, k) = 0
  BY <1>1, <1>3, <1>5, UnwrappedProps
<1>7. UnwrapTo(to, k) = to
  BY <1>6 DEF UnwrapTo
<1> QED BY <1>1, <1>2, <1>3, <1>4, <1>7 DEF Class

\* What converts to an opaque type stands for it.
LEMMA OnlyOpaque ==
  ASSUME TypeOK, NEW v, Good(v), NEW n \in DOMAIN aliases, Len(types[n]) = 1,
         NEW explicit \in BOOLEAN,
         ConvertType(v, Rtt(aliases[n], types[n]), explicit) # None
  PROVE  From(v.t, Depth(v.t) + 1) = types[n]
<1>1. PICK t : t = types[n] /\ IsType(t) /\ Len(t) = 1
  BY DEF TypeOK
<1>2. PICK to : to = Rtt(aliases[n], t)
  OBVIOUS
<1>3. PICK w : w = PrepareRead(v) /\ IsRead(w) /\ w.t = v.t
  BY ReadProps
<1>4. IsType(w.t) /\ to.t = t /\ Class(t) = "alias"
  BY <1>1, <1>2, <1>3, OpaqueStays DEF IsRead, Good, IsValue, Rtt
<1>5. PICK k \in Nat : ConvertRead(w, to, explicit)
                         = ConvertPlain(Unwrap(w, k), UnwrapTo(to, k), explicit /\ k = 0)
  BY <1>1, <1>4, RoundOf
<1>6. UnwrapTo(to, k) = to
  BY <1>1, <1>2, OpaqueStays
<1>7. PICK x : x = Unwrap(w, k)
  OBVIOUS
<1>8. ConvertPlain(x, to, explicit /\ k = 0) # None
  BY <1>1, <1>2, <1>3, <1>5, <1>6, <1>7 DEF ConvertType
<1>9. Equal(x.t, t)
  BY <1>4, <1>8 DEF ConvertPlain, IsDirect, IsNumberConversion, IsInt, IsFloat, IsPointer
<1>10. x.t = t
  BY <1>4, <1>9 DEF Equal, SameType
<1>11. PICK j : j = Unwrapped(w.t, k)
  OBVIOUS
<1>12. x.t = From(w.t, j + 1)
  <2>1. w \in [l: Seq(LProp), t: Seq(Prop), lv: BOOLEAN, loose: BOOLEAN]
    BY <1>3 DEF IsRead, Good, IsValue
  <2> QED BY <1>7, <1>11, <2>1 DEF Unwrap
<1>13. j \in 0..Depth(w.t) /\ Depth(w.t) \in 0..(Len(w.t) - 1)
       /\ w.t \in Seq(Prop) /\ Len(w.t) \in Nat \ {0}
  BY <1>4, <1>11, UnwrappedProps, DepthProps, TypeForm
<1>14. Len(From(w.t, j + 1)) = Len(w.t) - j
  <2>1. PICK m \in Nat \ {0} : m = Len(w.t)
    BY <1>13
  <2>2. PICK d \in 0..(m - 1) : d = Depth(w.t)
    BY <1>13, <2>1
  <2>3. j \in 0..d
    BY <1>13, <2>2
  <2>4. j + 1 \in 1..(m + 1) /\ m + 1 - (j + 1) = m - j
    <3>1. j \in Nat /\ j <= m
      BY <2>3
    <3> QED BY ONLY <3>1
  <2>5. Len(From(w.t, j + 1)) = m + 1 - (j + 1)
    BY <1>13, <2>1, <2>4, FromProps
  <2> QED BY <2>1, <2>4, <2>5
<1>15. Len(w.t) - j = 1
  BY <1>1, <1>10, <1>12, <1>14
<1>16. j = Depth(w.t)
  <2>1. PICK m \in Nat \ {0} : m = Len(w.t)
    BY <1>13
  <2>2. PICK d \in 0..(m - 1) : d = Depth(w.t)
    BY <1>13, <2>1
  <2>3. j \in 0..d /\ m - j = 1
    BY <1>13, <1>15, <2>1, <2>2
  <2>4. j = d
    BY ONLY <2>1, <2>2, <2>3
  <2> QED BY <2>2, <2>4
<1> QED BY <1>1, <1>3, <1>10, <1>12, <1>16

\* No number and no pointer becomes a value of an opaque type: what converts
\* to it is of the type or of an alias that stands for it.
THEOREM OpaqueCorrect == Spec => []OpaqueIsClosed
<1>1. IInv => OpaqueIsClosed
  <2> SUFFICES ASSUME IInv, NEW v \in Values, NEW n \in DOMAIN aliases,
                      NEW explicit \in BOOLEAN, Len(types[n]) = 1,
                      ConvertType(v, Rtt(aliases[n], types[n]), explicit) # None
               PROVE  From(v.t, Depth(v.t) + 1) = types[n]
    BY DEF OpaqueIsClosed
  <2>1. Good(v)
    BY DEF IInv, TypeOK, ValuesAgree, Good, IsValue, Agrees
  <2> QED BY <2>1, OnlyOpaque DEF IInv
<1> QED BY <1>1, TypesInvariant, PTL
================================================================================
