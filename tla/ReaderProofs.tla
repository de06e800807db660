---------------------------- MODULE ReaderProofs -----------------------------
(***************************************************************************)
(* Proofs about Reader: cutting a text into lists while it is read never   *)
(* alters what is yet to be read, and what has been read keeps its place   *)
(* and the characters that its names and strings stand for.                *)
(***************************************************************************)
EXTENDS Reader, WellFoundedInduction, FiniteSetTheorems, TLAPS

\* A set of numbers that is not empty has a least one.
LEMMA LeastOf ==
  ASSUME NEW S \in SUBSET Nat, S # {}
  PROVE  /\ Min(S) \in S
         /\ \A j \in S : Min(S) <= j
<1>1. PICK R : R = OpToRel(<, Nat)
  OBVIOUS
<1>2. \A a, b \in Nat : a < b => <<a, b>> \in R
  BY <1>1 DEF OpToRel
<1>3. IsWellFoundedOn(R, Nat)
  BY <1>1, NatLessThanWellFounded
<1>4. PICK i \in S : \A j \in S : <<j, i>> \notin R
  BY <1>3, WFMin
<1>5. \A j \in S : i <= j
  <2>1. SUFFICES ASSUME NEW j \in S PROVE i <= j
    OBVIOUS
  <2>2. i \in Nat /\ j \in Nat
    OBVIOUS
  <2>3. ~(j < i)
    BY <1>2, <1>4, <2>2
  <2> QED BY <2>2, <2>3
<1>6. \E x \in S : \A y \in S : x =< y
  BY <1>4, <1>5
<1> QED BY <1>6 DEF Min

\* A set of places that has no last one has none.
LEMMA NoLast ==
  ASSUME NEW N \in Nat, NEW S \in SUBSET (1..N), \A k \in S : \E a \in S : a > k
  PROVE  S = {}
<1> SUFFICES ASSUME S # {} PROVE FALSE
  OBVIOUS
<1> DEFINE D == {d \in 0..N : N - d \in S}
<1>1. PICK k : k \in S
  OBVIOUS
<1>2. N - k \in D
  <2>1. k \in 1..N /\ N - (N - k) = k
    BY <1>1
  <2> QED BY <1>1, <2>1
<1>3. PICK d \in D : \A b \in D : d <= b
  <2>1. D \in SUBSET Nat
    OBVIOUS
  <2> HIDE DEF D
  <2> QED BY <1>2, <2>1, LeastOf
<1>4. PICK a \in S : a > N - d
  BY <1>3
<1>5. a \in 1..N /\ N - (N - a) = a
  OBVIOUS
<1>6. N - a \in D
  BY <1>5
<1>7. d <= N - a
  BY <1>3, <1>6
<1> QED BY <1>3, <1>4, <1>5, <1>7

\* G computes a value at a place from those at later places.
GoesBackwards(G, N, V) ==
  \A f \in [1..N -> V] : \A m \in 1..N :
    /\ G[<<f, m>>] \in V
    /\ \A g \in [1..N -> V] :
         (\A k \in (m + 1)..N : f[k] = g[k]) => G[<<f, m>>] = G[<<g, m>>]

IsComputed(f, G, N, V) ==
  f \in [1..N -> V] /\ \A m \in 1..N : f[m] = G[<<f, m>>]

\* Recursion from the end of 1..N to its beginning defines a function.
LEMMA Backwards ==
  ASSUME NEW N \in Nat, NEW V, V # {}, NEW G, GoesBackwards(G, N, V)
  PROVE  \E f : IsComputed(f, G, N, V)
<1> DEFINE From(k, f) == \A m \in k..N : f[m] = G[<<f, m>>]
           S == {k \in 1..(N + 1) : \E f \in [1..N -> V] : From(k, f)}
<1>1. N + 1 \in S
  <2>1. PICK v : v \in V
    OBVIOUS
  <2>2. [m \in 1..N |-> v] \in [1..N -> V]
    BY <2>1
  <2>3. (N + 1)..N = {}
    OBVIOUS
  <2>4. From(N + 1, [m \in 1..N |-> v])
    BY <2>3
  <2> QED BY <2>2, <2>4
<1>2. PICK k : k = Min(S)
  OBVIOUS
<1>3. k \in S /\ \A j \in S : k <= j
  <2>1. S \in SUBSET Nat
    OBVIOUS
  <2> HIDE DEF S
  <2> QED BY <1>1, <1>2, <2>1, LeastOf
<1>4. PICK f \in [1..N -> V] : From(k, f)
  BY <1>3
<1>5. k \in 1..(N + 1)
  BY <1>3
<1>6. k = 1
  <2> SUFFICES ASSUME k # 1 PROVE FALSE
    OBVIOUS
  <2>1. k - 1 \in 1..N /\ k - 1 \in Nat
    BY <1>5
  <2>2. PICK v : v = G[<<f, k - 1>>]
    OBVIOUS
  <2>3. v \in V
    BY <1>4, <2>1, <2>2 DEF GoesBackwards
  <2>4. PICK g : g = [f EXCEPT ![k - 1] = v]
    OBVIOUS
  <2>5. g \in [1..N -> V] /\ g[k - 1] = v
    BY <1>4, <2>1, <2>3, <2>4
  <2>6. \A m \in k..N : g[m] = f[m]
    <3>1. \A m \in k..N : m \in 1..N /\ m # k - 1
      BY <1>5
    <3> QED BY <1>4, <2>4, <3>1
  <2>7. ASSUME NEW m \in (k - 1)..N PROVE g[m] = G[<<g, m>>]
    <3>1. m \in 1..N
      BY <2>1
    <3>2. \A j \in (m + 1)..N : f[j] = g[j]
      <4>1. \A j \in (m + 1)..N : j \in k..N
        BY <1>5, <2>1
      <4> QED BY <2>6, <4>1
    <3>3. G[<<f, m>>] = G[<<g, m>>]
      BY <1>4, <2>5, <3>1, <3>2 DEF GoesBackwards
    <3>4. CASE m = k - 1
      BY <2>2, <2>5, <3>3, <3>4
    <3>5. CASE m # k - 1
      <4>1. m \in k..N
        BY <1>5, <3>5
      <4> QED BY <1>4, <2>6, <3>3, <4>1
    <3> QED BY <3>4, <3>5
  <2>8. k - 1 \in S
    <3>1. k - 1 \in 1..(N + 1)
      BY <2>1
    <3>2. From(k - 1, g)
      BY <2>7
    <3> QED BY <2>5, <3>1, <3>2
  <2>9. k <= k - 1
    BY <1>3, <2>8
  <2> QED BY <1>5, <2>9
<1>7. \A m \in 1..N : f[m] = G[<<f, m>>]
  BY <1>4, <1>6
<1> QED BY <1>4, <1>7 DEF IsComputed
-----------------------------------------------------------------------------
\* The positions that the operators of Reader look for, in a text in which a
\* NUL is at e.

LEMMA FirstProps ==
  ASSUME NEW t \in Seq(Chars), NEW chars, NEW i \in Nat \ {0},
         NEW e \in i..Len(t), t[e] \in chars
  PROVE  /\ First(t, i, chars) \in i..e
         /\ t[First(t, i, chars)] \in chars
         /\ \A k \in i..(First(t, i, chars) - 1) : t[k] \notin chars
<1> DEFINE S == {j \in i..Len(t) : t[j] \in chars}
<1>1. S \in SUBSET Nat /\ e \in S
  OBVIOUS
<1>2. PICK m : m = Min(S)
  OBVIOUS
<1>3. m \in S /\ \A j \in S : m <= j
  <2> HIDE DEF S
  <2> QED BY <1>1, <1>2, LeastOf
<1>4. First(t, i, chars) = m
  BY <1>2 DEF First
<1>5. \A k \in i..(m - 1) : t[k] \notin chars
  <2>1. SUFFICES ASSUME NEW k \in i..(m - 1), t[k] \in chars PROVE FALSE
    OBVIOUS
  <2>2. k \in S
    BY <1>3, <2>1
  <2>3. m <= k /\ m \in Nat
    BY <1>3, <2>2
  <2> QED BY <2>1, <2>3
<1> QED BY <1>1, <1>3, <1>4, <1>5

LEMMA PartEndProps ==
  ASSUME NEW t \in Seq(Chars), NEW e \in Nat, e <= Len(t), t[e] = NUL,
         NEW i \in 1..e
  PROVE  /\ PartEnd(t, i) \in {0} \cup i..(e - 1)
         /\ PartEnd(t, i) # 0 => t[PartEnd(t, i)] = Quote
<1> DEFINE S == {k \in i..Len(t) : t[k] = NUL \/ (t[k] = Quote /\ t[k - 1] # Backslash)}
<1>1. S \in SUBSET Nat /\ e \in S
  OBVIOUS
<1>2. PICK m : m = Min(S)
  OBVIOUS
<1>3. m \in S /\ \A j \in S : m <= j
  <2> HIDE DEF S
  <2> QED BY <1>1, <1>2, LeastOf
<1>4. m \in i..e
  BY <1>1, <1>3
<1>5. PartEnd(t, i) = IF t[m] = NUL THEN 0 ELSE m
  BY <1>2 DEF PartEnd
<1>6. t[m] # NUL => m # e /\ t[m] = Quote
  BY <1>3
<1> QED BY <1>4, <1>5, <1>6

LEMMA NextPartProps ==
  ASSUME NEW t \in Seq(Chars), NEW e \in Nat, e <= Len(t), t[e] = NUL,
         NEW j \in 1..(e - 1)
  PROVE  /\ NextPart(t, j) \in (j + 1)..e
         /\ t[NextPart(t, j)] = Quote => NextPart(t, j) < e
<1> DEFINE S == {k \in (j + 1)..Len(t) : t[k] \notin Blank \cup {Backslash}}
<1>1. t[e] \notin Blank \cup {Backslash}
  BY DEF Blank, NUL, NL, Backslash
<1>2. S \in SUBSET Nat /\ e \in S
  BY <1>1
<1>3. PICK m : m = Min(S)
  OBVIOUS
<1>4. m \in S /\ \A k \in S : m <= k
  <2> HIDE DEF S
  <2> QED BY <1>2, <1>3, LeastOf
<1>5. m \in (j + 1)..e
  BY <1>2, <1>4
<1>6. NextPart(t, j) = m
  BY <1>3 DEF NextPart
<1>7. t[m] = Quote => m # e
  BY DEF NUL, Quote
<1> QED BY <1>5, <1>6, <1>7

\* The part of a literal that is looked for next begins behind this one.
LEMMA PartsProps ==
  ASSUME NEW t \in Seq(Chars), NEW e \in Nat, e <= Len(t), t[e] = NUL, NEW k \in 1..e
  PROVE  /\ PartEnd(t, k) \in {0} \cup k..(e - 1)
         /\ PartEnd(t, k) # 0 /\ t[NextPart(t, PartEnd(t, k))] = Quote
            => /\ NextPart(t, PartEnd(t, k)) \in (PartEnd(t, k) + 1)..(e - 1)
               /\ NextPart(t, PartEnd(t, k)) + 1 \in (k + 1)..e
<1>1. PartEnd(t, k) \in {0} \cup k..(e - 1)
  BY PartEndProps
<1>2. PICK j : j = PartEnd(t, k)
  OBVIOUS
<1>3. ASSUME j # 0, t[NextPart(t, j)] = Quote
      PROVE  NextPart(t, j) \in (j + 1)..(e - 1) /\ NextPart(t, j) + 1 \in (k + 1)..e
  <2>1. j \in 1..(e - 1) /\ j >= k
    BY <1>1, <1>2, <1>3
  <2>2. NextPart(t, j) \in (j + 1)..e /\ NextPart(t, j) < e
    BY <1>3, <2>1, NextPartProps
  <2> QED BY <2>1, <2>2
<1> QED BY <1>1, <1>2, <1>3

\* The recursion over the parts of a literal has a solution.
StringEndAt(t, k) ==
  IF PartEnd(t, k) = 0 \/ t[PartEnd(t, k) + 1] # Backslash THEN PartEnd(t, k)
  ELSE IF t[NextPart(t, PartEnd(t, k))] # Quote THEN 0
  ELSE StringEnd(t, NextPart(t, PartEnd(t, k)) + 1)

LEMMA StringEndUnfolds ==
  ASSUME NEW t \in Seq(Chars), NEW n \in Nat, n = Len(t), t[n] = NUL
  PROVE  \A k \in 1..n : StringEnd(t, k) = StringEndAt(t, k)
<1> DEFINE N == Len(t)
           After(k) == NextPart(t, PartEnd(t, k)) + 1
           Last1(k) == PartEnd(t, k) = 0 \/ t[PartEnd(t, k) + 1] # Backslash
           B(f, k) == IF Last1(k) THEN PartEnd(t, k)
                      ELSE IF t[NextPart(t, PartEnd(t, k))] # Quote THEN 0
                      ELSE f[NextPart(t, PartEnd(t, k)) + 1]
           F == CHOOSE f : f = [k \in 1..N |-> B(f, k)]
<1>1. \A k \in 1..n : StringEnd(t, k) = F[k]
  BY DEF StringEnd
<1> HIDE DEF Last1, After
<1>2. \E f : f = [k \in 1..N |-> B(f, k)]
  <2> DEFINE V == 0..n
             G == [x \in [1..n -> V] \X (1..n) |-> B(x[1], x[2])]
  <2>1. ASSUME NEW k \in 1..n
        PROVE  /\ PartEnd(t, k) \in V
               /\ ~Last1(k) /\ t[NextPart(t, PartEnd(t, k))] = Quote => After(k) \in (k + 1)..n
    <3>1. n <= Len(t)
      OBVIOUS
    <3>2. PartEnd(t, k) \in {0} \cup k..(n - 1)
      BY <3>1, PartsProps
    <3>3. ~Last1(k) /\ t[NextPart(t, PartEnd(t, k))] = Quote => After(k) \in (k + 1)..n
      BY <3>1, PartsProps DEF Last1, After
    <3> QED BY <3>2, <3>3
  <2>2. ASSUME NEW f \in [1..n -> V], NEW k \in 1..n PROVE B(f, k) \in V
    <3>1. After(k) \in (k + 1)..n => f[After(k)] \in V
      OBVIOUS
    <3> QED BY <2>1, <3>1 DEF After
  <2>3. \A f \in [1..n -> V] : \A k \in 1..n : G[<<f, k>>] = B(f, k)
    <3> HIDE DEF B, V
    <3> QED OBVIOUS
  <2>4. \A f \in [1..n -> V] : \A m \in 1..n : G[<<f, m>>] \in V
    <3> HIDE DEF B, V, G
    <3> QED BY <2>2, <2>3
  <2>5. ASSUME NEW f \in [1..n -> V], NEW g \in [1..n -> V], NEW k \in 1..n,
               \A m \in (k + 1)..n : f[m] = g[m]
        PROVE  B(f, k) = B(g, k)
    BY <2>1, <2>5 DEF After
  <2>6. \A f, g \in [1..n -> V] : \A m \in 1..n :
          (\A k \in (m + 1)..n : f[k] = g[k]) => G[<<f, m>>] = G[<<g, m>>]
    <3> HIDE DEF B, V, G
    <3> SUFFICES ASSUME NEW f \in [1..n -> V], NEW g \in [1..n -> V], NEW m \in 1..n,
                        \A k \in (m + 1)..n : f[k] = g[k]
                 PROVE  G[<<f, m>>] = G[<<g, m>>]
      OBVIOUS
    <3>1. B(f, m) = B(g, m)
      <4> HIDE DEF B, V, G, F
      <4> QED BY <2>5
    <3> QED BY <2>3, <3>1
  <2>7. V # {}
    <3> HIDE DEF B, G, F
    <3> QED OBVIOUS
  <2>8. PICK f : IsComputed(f, G, n, V)
    <3> HIDE DEF B, V, G, F
    <3>1. ASSUME NEW f \in [1..n -> V], NEW m \in 1..n
          PROVE  /\ G[<<f, m>>] \in V
                 /\ \A g \in [1..n -> V] :
                      (\A k \in (m + 1)..n : f[k] = g[k]) => G[<<f, m>>] = G[<<g, m>>]
      BY <2>4, <2>6, Zenon
    <3>2. GoesBackwards(G, n, V)
      BY <3>1 DEF GoesBackwards
    <3> QED BY <2>7, <3>2, Backwards
  <2>9. f = [k \in 1..n |-> B(f, k)]
    <3> HIDE DEF B, V, G
    <3>1. f = [k \in 1..n |-> f[k]]
      BY <2>8 DEF IsComputed
    <3>2. \A k \in 1..n : f[k] = B(f, k)
      BY <2>3, <2>8 DEF IsComputed
    <3> QED BY <3>1, <3>2
  <2> QED BY <2>9
<1>3. \A k \in 1..n : F[k] = B(F, k)
  <2> HIDE DEF B
  <2>1. F = [k \in 1..n |-> B(F, k)]
    BY <1>2
  <2> QED BY <2>1
<1> HIDE DEF F
<1>4. ASSUME NEW k \in 1..n PROVE StringEnd(t, k) = StringEndAt(t, k)
  <2>1. n <= Len(t)
    OBVIOUS
  <2>2. ~Last1(k) /\ t[NextPart(t, PartEnd(t, k))] = Quote
        => F[After(k)] = StringEnd(t, After(k))
    <3>1. ~Last1(k) /\ t[NextPart(t, PartEnd(t, k))] = Quote => After(k) \in 1..n
      <4>1. ~Last1(k) /\ t[NextPart(t, PartEnd(t, k))] = Quote => After(k) \in (k + 1)..n
        BY <2>1, PartsProps DEF Last1, After
      <4> QED BY <4>1
    <3> QED BY <1>1, <3>1
  <2>3. StringEnd(t, k) = B(F, k)
    BY <1>1, <1>3
  <2> QED BY <2>2, <2>3 DEF StringEndAt, Last1, After
<1> QED BY <1>4

\* A string literal ends inside of the list that it begins in.
LEMMA StringEndProps ==
  ASSUME NEW t \in Seq(Chars), NEW e \in Nat, e <= Len(t), t[e] = NUL,
         NEW i \in 1..e, t[Len(t)] = NUL
  PROVE  StringEnd(t, i) \in {0} \cup i..(e - 1)
<1>1. PICK n \in Nat : n = Len(t)
  OBVIOUS
<1> DEFINE Bad == {k \in 1..e : StringEnd(t, k) \notin {0} \cup k..(e - 1)}
<1>2. ASSUME NEW k \in Bad PROVE \E a \in Bad : a > k
  <2>1. k \in 1..n /\ PartEnd(t, k) \in {0} \cup k..(e - 1)
    BY <1>1, PartsProps
  <2>2. PICK a : a = NextPart(t, PartEnd(t, k)) + 1
    OBVIOUS
  <2>3. StringEnd(t, k) = StringEndAt(t, k)
    BY <1>1, <2>1, StringEndUnfolds
  <2>4. PartEnd(t, k) # 0 /\ t[NextPart(t, PartEnd(t, k))] = Quote
        /\ StringEnd(t, k) = StringEnd(t, a)
    BY <2>1, <2>2, <2>3 DEF StringEndAt
  <2>5. a \in (k + 1)..e
    BY <2>2, <2>4, PartsProps
  <2> QED BY <2>4, <2>5
<1>3. Bad = {}
  <2>1. Bad \in SUBSET (1..e)
    OBVIOUS
  <2> HIDE DEF Bad
  <2> QED BY <1>2, <2>1, NoLast
<1> QED BY <1>3

LEMMA ControlChars ==
  ASSUME NEW x \in DOMAIN Control
  PROVE  Control[x] \in Chars \ {NUL}
<1>1. x \in {Backslash, Quote, "'", "n", "t"}
  BY DEF Control
<1>2. Control[x] = (CASE x = "n" -> NL [] x = "t" -> "tab" [] OTHER -> x)
  BY <1>1 DEF Control
<1>3. /\ NL # NUL /\ "tab" # NUL /\ "'" # NUL
      /\ Backslash # NUL /\ Quote # NUL
  BY Zenon DEF NL, NUL, Backslash, Quote
<1>4. CASE x = "n"
  BY <1>2, <1>3, <1>4, CharsAssumption
<1>5. CASE x = "t"
  BY <1>2, <1>3, <1>5, CharsAssumption
<1>6. CASE x \in {Backslash, Quote, "'"}
  <2>1. x # "n" /\ x # "t"
    BY <1>6 DEF Backslash, Quote
  <2> QED BY <1>2, <1>3, <1>6, <2>1, CharsAssumption
<1> QED BY <1>1, <1>4, <1>5, <1>6

\* prepare_string never writes more than it has read, and a NUL only if it has
\* read one.
LEMMA UnescapedProps ==
  ASSUME NEW C, Chars \ {NUL} \subseteq C, NEW c \in Seq(C), NEW quote,
         Unescaped(c, quote) # Wrong
  PROVE  /\ Unescaped(c, quote) \in Seq(C)
         /\ Len(Unescaped(c, quote)) <= Len(c)
<1> DEFINE N == Len(c) + 1
           Quotes(i) == {j \in (i + 1)..Len(c) : c[j] = quote}
           B(f, i) ==
             IF i > Len(c) THEN << >>
             ELSE IF c[i] = quote
             THEN IF {j \in (i + 1)..Len(c) : c[j] = quote} = {} THEN Wrong
                  ELSE f[Min({j \in (i + 1)..Len(c) : c[j] = quote}) + 1]
             ELSE IF c[i] # Backslash THEN Before(c[i], f[i + 1])
             ELSE IF i = Len(c) \/ c[i + 1] \notin DOMAIN Control THEN Wrong
             ELSE Before(Control[c[i + 1]], f[i + 2])
           F == CHOOSE f : f = [i \in 1..N |-> B(f, i)]
           V == Seq(C) \cup {Wrong}
<1>1. Unescaped(c, quote) = F[1]
  BY DEF Unescaped
<1>2. PICK n \in Nat : n = Len(c)
  OBVIOUS
<1>3. ASSUME NEW i \in 1..n, Quotes(i) # {}
      PROVE  Min(Quotes(i)) \in (i + 1)..n
  <2>1. Quotes(i) \in SUBSET Nat
    OBVIOUS
  <2>2. Min(Quotes(i)) \in Quotes(i)
    <3> HIDE DEF Quotes
    <3> QED BY <1>3, <2>1, LeastOf
  <2> QED BY <1>2, <2>2
<1>4. ASSUME NEW x \in C, NEW r \in V
      PROVE  /\ Before(x, r) \in V
             /\ r # Wrong => /\ Before(x, r) \in Seq(C)
                            /\ Len(Before(x, r)) = Len(r) + 1
             /\ r = Wrong => Before(x, r) = Wrong
  BY DEF Before
\* What c[i] yields: nothing, an error, or what a later place yields, perhaps
\* behind one character.
<1> DEFINE End1(i)   == \A f : B(f, i) = << >>
           Error1(i) == \A f : B(f, i) = Wrong
           Skip1(i)  == \E a \in (i + 1)..(n + 1) : \A f : B(f, i) = f[a]
           Char1(i)  == \E a \in (i + 1)..(n + 1) : \E x \in C :
                          \A f : B(f, i) = Before(x, f[a])
<1>5. ASSUME NEW i \in 1..(n + 1) PROVE End1(i) \/ Error1(i) \/ Skip1(i) \/ Char1(i)
  <2>1. CASE i = n + 1
    <3>1. End1(i)
      BY <1>2, <2>1
    <3> QED BY <3>1
  <2>2. CASE i \in 1..n /\ c[i] = quote
    <3>1. CASE Quotes(i) = {}
      <4>1. Error1(i)
        BY <1>2, <2>2, <3>1
      <4> QED BY <4>1
    <3>2. CASE Quotes(i) # {}
      <4>1. PICK a : a = Min(Quotes(i)) + 1
        OBVIOUS
      <4>2. a \in (i + 1)..(n + 1)
        <5>1. Min(Quotes(i)) \in (i + 1)..n
          BY <1>3, <2>2, <3>2
        <5> HIDE DEF Quotes
        <5> QED BY <2>2, <4>1, <5>1
      <4>3. \A f : B(f, i) = f[a]
        BY <1>2, <2>2, <3>2, <4>1
      <4> QED BY <4>2, <4>3
    <3> QED BY <3>1, <3>2
  <2>3. CASE i \in 1..n /\ c[i] # quote /\ c[i] # Backslash
    <3>1. c[i] \in C /\ i + 1 \in (i + 1)..(n + 1)
      BY <1>2, <2>3
    <3>2. \A f : B(f, i) = Before(c[i], f[i + 1])
      BY <1>2, <2>3
    <3>3. Char1(i)
      <4> HIDE DEF B
      <4> QED BY <3>1, <3>2
    <3> QED BY <3>3
  <2>4. CASE i \in 1..n /\ c[i] # quote /\ c[i] = Backslash
    <3>1. CASE i = n \/ c[i + 1] \notin DOMAIN Control
      <4>1. Error1(i)
        BY <1>2, <2>4, <3>1
      <4> QED BY <4>1
    <3>2. CASE i # n /\ c[i + 1] \in DOMAIN Control
      <4>1. PICK x \in C : x = Control[c[i + 1]]
        BY <3>2, ControlChars
      <4>2. i + 2 \in (i + 1)..(n + 1)
        BY <2>4, <3>2
      <4>3. \A f : B(f, i) = Before(x, f[i + 2])
        BY <1>2, <2>4, <3>2, <4>1
      <4>4. Char1(i)
        <5> HIDE DEF B
        <5> QED BY <4>2, <4>3
      <4> QED BY <4>4
    <3> QED BY <3>1, <3>2
  <2>5. i = n + 1 \/ i \in 1..n
    OBVIOUS
  <2> HIDE DEF End1, Error1, Skip1, Char1, B
  <2> QED BY <2>1, <2>2, <2>3, <2>4, <2>5
<1> HIDE DEF B, End1, Error1, Skip1, Char1
<1>6. \E f : f = [i \in 1..N |-> B(f, i)]
  <2> DEFINE G == [x \in [1..(n + 1) -> V] \X (1..(n + 1)) |-> B(x[1], x[2])]
  <2>1. \A f \in [1..(n + 1) -> V] : \A i \in 1..(n + 1) : G[<<f, i>>] = B(f, i)
    <3> HIDE DEF V
    <3> QED OBVIOUS
  <2> HIDE DEF G
  <2>2. ASSUME NEW f \in [1..(n + 1) -> V], NEW i \in 1..(n + 1)
        PROVE  /\ B(f, i) \in V
               /\ \A g \in [1..(n + 1) -> V] :
                    (\A k \in (i + 1)..(n + 1) : f[k] = g[k]) => B(f, i) = B(g, i)
    <3>1. CASE End1(i)
      <4>1. << >> \in V
        OBVIOUS
      <4> HIDE DEF V
      <4> QED BY <3>1, <4>1 DEF End1
    <3>2. CASE Error1(i)
      <4>1. Wrong \in V
        OBVIOUS
      <4> HIDE DEF V
      <4> QED BY <3>2, <4>1 DEF Error1
    <3>3. CASE Skip1(i)
      <4> HIDE DEF V
      <4>1. PICK a \in (i + 1)..(n + 1) : \A h : B(h, i) = h[a]
        BY <3>3 DEF Skip1
      <4>2. a \in 1..(n + 1)
        OBVIOUS
      <4> QED BY <4>1, <4>2
    <3>4. CASE Char1(i)
      <4>1. PICK a \in (i + 1)..(n + 1), x \in C : \A h : B(h, i) = Before(x, h[a])
        BY <3>4 DEF Char1
      <4>2. a \in 1..(n + 1)
        OBVIOUS
      <4>3. f[a] \in V
        <5> HIDE DEF V
        <5> QED BY <4>2
      <4>4. Before(x, f[a]) \in V
        <5> HIDE DEF V
        <5> QED BY <1>4, <4>3
      <4> HIDE DEF V
      <4> QED BY <4>1, <4>4
    <3> QED BY <1>5, <3>1, <3>2, <3>3, <3>4
  <2>3. GoesBackwards(G, n + 1, V)
    <3> HIDE DEF V
    <3>1. ASSUME NEW f \in [1..(n + 1) -> V], NEW m \in 1..(n + 1)
          PROVE  /\ G[<<f, m>>] \in V
                 /\ \A g \in [1..(n + 1) -> V] :
                      (\A k \in (m + 1)..(n + 1) : f[k] = g[k]) => G[<<f, m>>] = G[<<g, m>>]
      <4>1. \A g \in [1..(n + 1) -> V] : G[<<g, m>>] = B(g, m)
        BY <2>1
      <4>2. G[<<f, m>>] = B(f, m)
        BY <4>1
      <4> QED BY <2>2, <4>1, <4>2
    <3> QED BY <3>1 DEF GoesBackwards
  <2>4. V # {} /\ n + 1 \in Nat
    OBVIOUS
  <2>5. PICK f : IsComputed(f, G, n + 1, V)
    <3> HIDE DEF V
    <3> QED BY <2>3, <2>4, Backwards
  <2>6. f = [i \in 1..(n + 1) |-> B(f, i)]
    <3> HIDE DEF V
    <3>1. f = [i \in 1..(n + 1) |-> f[i]]
      BY <2>5 DEF IsComputed
    <3>2. \A i \in 1..(n + 1) : f[i] = B(f, i)
      BY <2>1, <2>5 DEF IsComputed
    <3> QED BY <3>1, <3>2
  <2> QED BY <1>2, <2>6
<1>7. \A i \in 1..(n + 1) : F[i] = B(F, i)
  <2>1. F = [i \in 1..N |-> B(F, i)]
    BY <1>6
  <2> QED BY <1>2, <2>1
<1> HIDE DEF F
<1> DEFINE Good1(i) == \/ F[i] = Wrong
                       \/ F[i] \in Seq(C) /\ Len(F[i]) <= n + 1 - i
           Bad == {i \in 1..(n + 1) : ~Good1(i)}
<1>8. ASSUME NEW k \in Bad PROVE \E a \in Bad : a > k
  <2> USE DEF Bad
  <2>1. F[k] = B(F, k)
    BY <1>7
  <2>2. ~End1(k)
    <3> SUFFICES ASSUME End1(k) PROVE FALSE
      OBVIOUS
    <3>1. F[k] = << >>
      BY <2>1 DEF End1
    <3>2. Len(<< >>) = 0 /\ << >> \in Seq(C)
      OBVIOUS
    <3>3. 0 <= n + 1 - k /\ ~Good1(k)
      OBVIOUS
    <3>4. F[k] \in Seq(C) /\ Len(F[k]) = 0
      BY <3>1, <3>2
    <3> QED BY <3>3, <3>4
  <2>3. ~Error1(k)
    BY <2>1 DEF Error1
  <2>4. CASE Skip1(k)
    <3>1. PICK a \in (k + 1)..(n + 1) : F[k] = F[a]
      BY <2>1, <2>4 DEF Skip1
    <3>2. ~Good1(a)
      BY <3>1
    <3> QED BY <3>1, <3>2
  <2>5. CASE Char1(k)
    <3>1. PICK a \in (k + 1)..(n + 1), x \in C : F[k] = Before(x, F[a])
      BY <2>1, <2>5 DEF Char1
    <3>2. ~Good1(a)
      <4> SUFFICES ASSUME Good1(a) PROVE FALSE
        OBVIOUS
      <4>1. F[a] \in V
        OBVIOUS
      <4>2. F[a] # Wrong
        BY <1>4, <3>1, <4>1
      <4>3. F[k] \in Seq(C) /\ Len(F[k]) = Len(F[a]) + 1
        BY <1>4, <3>1, <4>1, <4>2
      <4>4. PICK l \in Nat : l = Len(F[a])
        BY <4>2
      <4>5. l <= n + 1 - a
        BY <4>2, <4>4
      <4> QED BY <4>3, <4>4, <4>5
    <3> QED BY <3>1, <3>2
  <2> QED BY <1>5, <2>2, <2>3, <2>4, <2>5
<1>9. Bad = {}
  <2>1. Bad \in SUBSET (1..(n + 1)) /\ n + 1 \in Nat
    OBVIOUS
  <2> HIDE DEF Bad
  <2> QED BY <1>8, <2>1, NoLast
<1>10. Good1(1)
  BY <1>9
<1> QED BY <1>1, <1>2, <1>10

\* In the part of a text from i to the NUL at e, every comment has an end.
Commented(t, i, e) ==
  \A j \in i..(e - 1) : t[j] = "#" => \E k \in j..(e - 1) : t[k] = NL

\* The bracket that closes a list is found before the NUL at e, and what is
\* cut out has only complete comments in turn.
LEMMA CloserProps ==
  ASSUME NEW t \in Seq(Chars), NEW e \in Nat, e <= Len(t), t[e] = NUL,
         NEW i \in 1..(e - 1), t[i] \in Openers,
         \A k \in i..(e - 1) : t[k] # NUL,
         e = Len(t) \/ Commented(t, i, e),
         Closer(t, i) # 0
  PROVE  /\ Closer(t, i) \in (i + 1)..(e - 1) /\ t[Closer(t, i)] \in Closers
         /\ Commented(t, i, Closer(t, i))
<1> DEFINE Code     == (i..Len(t)) \ Skipped(t, i)
           To(j, S) == Cardinality({m \in Code : m <= j /\ t[m] \in S})
           Ends     == {j \in Code :
             t[j] = NUL \/ (t[j] \in Closers /\ To(j, Closers) = To(j, Openers))}
<1>1. PICK n \in Nat : n = Len(t)
  OBVIOUS
<1>2. PICK c : c = Closer(t, i)
  OBVIOUS
<1>3. Ends # {} /\ t[Min(Ends)] # NUL /\ c = Min(Ends)
  BY <1>2 DEF Closer
<1>4. Ends \in SUBSET Nat
  BY <1>1
<1>5. c \in Ends /\ \A j \in Ends : c <= j
  <2> HIDE DEF Ends
  <2> QED BY <1>3, <1>4, LeastOf
<1>6. c \in i..n /\ c \notin Skipped(t, i) /\ t[c] \in Closers
  BY <1>1, <1>3, <1>5
<1>7. c # i
  BY <1>6 DEF Openers, Closers
<1>8. c <= e
  <2>1. CASE e = n
    BY <1>6, <2>1
  <2>2. CASE Commented(t, i, e)
    <3>1. e \notin Skipped(t, i)
      <4> SUFFICES ASSUME e \in Skipped(t, i) PROVE FALSE
        OBVIOUS
      <4>1. PICK k \in i..e : t[k] = "#" /\ \A m \in k..(e - 1) : t[m] \notin {NL, NUL}
        BY DEF Skipped
      <4>2. k # e
        BY <4>1 DEF NUL
      <4>3. k \in i..(e - 1)
        BY <4>2
      <4> QED BY <2>2, <4>1, <4>3 DEF Commented
    <3>2. e \in Code
      BY <1>1, <3>1
    <3>3. e \in Ends
      BY <3>2
    <3> HIDE DEF Ends
    <3> QED BY <1>5, <3>3
  <2> QED BY <1>1, <2>1, <2>2
<1>9. c \in (i + 1)..(e - 1)
  <2>1. c # e
    BY <1>3
  <2> QED BY <1>6, <1>7, <1>8, <2>1
<1>10. ASSUME NEW k \in i..(c - 1), t[k] = "#" PROVE \E m \in k..(c - 1) : t[m] = NL
  <2>1. ~\A m \in k..(c - 1) : t[m] \notin {NL, NUL}
    <3>1. k \in i..c /\ c \in i..Len(t)
      BY <1>1, <1>6
    <3> QED BY <1>6, <1>10, <3>1 DEF Skipped
  <2>2. PICK m \in k..(c - 1) : t[m] \in {NL, NUL}
    BY <2>1
  <2>3. m \in i..(e - 1)
    BY <1>9
  <2> QED BY <2>2, <2>3
<1> QED BY <1>2, <1>6, <1>9, <1>10 DEF Commented
-----------------------------------------------------------------------------
\* What is written into the text.

\* u is t but for some places before i.
SameFrom(t, u, i) ==
  /\ u \in Seq(Chars) /\ Len(u) = Len(t)
  /\ \A j \in i..Len(t) : u[j] = t[j]

LEMMA SameTrans ==
  ASSUME NEW t, NEW u, NEW v, NEW i, SameFrom(t, u, i), SameFrom(u, v, i)
  PROVE  SameFrom(t, v, i)
BY DEF SameFrom

LEMMA SameSelf ==
  ASSUME NEW t \in Seq(Chars), NEW i
  PROVE  SameFrom(t, t, i)
BY DEF SameFrom

LEMMA SomeChars == NUL \in Chars /\ "_" \in Chars
BY CharsAssumption

\* A text that is written anew, place by place.
LEMMA WrittenSame ==
  ASSUME NEW t \in Seq(Chars), NEW u, NEW i \in Nat \ {0},
         u = [k \in 1..Len(t) |-> u[k]],
         \A k \in 1..Len(t) : u[k] \in Chars,
         \A k \in 1..Len(t) : k >= i => u[k] = t[k]
  PROVE  SameFrom(t, u, i)
<1>1. PICK n \in Nat : n = Len(t)
  OBVIOUS
<1>2. u \in Seq(Chars) /\ Len(u) = n
  BY <1>1
<1>3. \A j \in i..n : u[j] = t[j]
  BY <1>1
<1> QED BY <1>1, <1>2, <1>3 DEF SameFrom

LEMMA ElementsOf ==
  ASSUME NEW t \in Seq(Chars)
  PROVE  DOMAIN t = 1..Len(t) /\ \A k \in 1..Len(t) : t[k] \in Chars
OBVIOUS

LEMMA CutSame ==
  ASSUME NEW t \in Seq(Chars), NEW i \in Nat \ {0}, NEW j \in Nat, j < i \/ t[j] = NUL
  PROVE  SameFrom(t, Cut(t, j), i)
<1>1. PICK u : u = Cut(t, j)
  OBVIOUS
<1>2. u = [k \in 1..Len(t) |-> IF k = j THEN NUL ELSE t[k]]
  BY <1>1, ElementsOf DEF Cut
<1>3. \A k \in 1..Len(t) : u[k] \in Chars
  BY <1>2, SomeChars, ElementsOf
<1>4. ASSUME NEW k \in 1..Len(t), k >= i PROVE u[k] = t[k]
  <2>1. k # j \/ t[k] = NUL
    BY <1>4
  <2> QED BY <1>2, <2>1
<1> QED BY <1>1, <1>2, <1>3, <1>4, WrittenSame

LEMMA CutAllSame ==
  ASSUME NEW t \in Seq(Chars), NEW i \in Nat \ {0}, NEW S, \A j \in S : j \in Nat /\ j < i
  PROVE  SameFrom(t, CutAll(t, S), i)
<1>1. PICK u : u = CutAll(t, S)
  OBVIOUS
<1>2. u = [k \in 1..Len(t) |-> IF k \in S THEN NUL ELSE t[k]]
  BY <1>1 DEF CutAll
<1>3. \A k \in 1..Len(t) : u[k] \in Chars
  BY <1>2, SomeChars, ElementsOf
<1>4. ASSUME NEW k \in 1..Len(t), k >= i PROVE u[k] = t[k]
  <2>1. k \notin S
    BY <1>4
  <2> QED BY <1>2, <2>1
<1> QED BY <1>1, <1>2, <1>3, <1>4, WrittenSame

LEMMA UnderscoredSame ==
  ASSUME NEW t \in Seq(Chars), NEW i \in Nat, NEW j \in Nat \ {0}, t[j] # "-"
  PROVE  SameFrom(t, Underscored(t, i, j), j)
<1>1. PICK u : u = Underscored(t, i, j)
  OBVIOUS
<1>2. u = [k \in 1..Len(t) |-> IF k \in i..j /\ t[k] = "-" THEN "_" ELSE t[k]]
  BY <1>1 DEF Underscored
<1>3. \A k \in 1..Len(t) : u[k] \in Chars
  BY <1>2, SomeChars, ElementsOf
<1>4. \A k \in 1..Len(t) : k >= j => u[k] = t[k]
  <2>1. SUFFICES ASSUME NEW k \in 1..Len(t), k >= j PROVE u[k] = t[k]
    OBVIOUS
  <2>2. k \in i..j => k = j
    BY <2>1
  <2> QED BY <1>2, <2>2
<1> QED BY <1>1, <1>2, <1>3, <1>4, WrittenSame

LEMMA PreparedSame ==
  ASSUME NEW t \in Seq(Chars), NEW i \in Nat, NEW c \in Seq(Chars), NEW e \in Nat,
         i + Len(c) <= e
  PROVE  SameFrom(t, Prepared(t, i, c), e + 1)
<1>1. PICK n \in Nat : n = Len(c)
  OBVIOUS
<1>2. PICK u : u = Prepared(t, i, c)
  OBVIOUS
<1>3. u = [j \in 1..Len(t) |-> IF j \in i..(i + n - 1) THEN c[j - i + 1]
                               ELSE IF j = i + n THEN NUL ELSE t[j]]
  BY <1>1, <1>2 DEF Prepared
<1>4. ASSUME NEW j \in 1..Len(t) PROVE u[j] \in Chars
  <2>1. CASE j \in i..(i + n - 1)
    <3>1. j - i + 1 \in 1..n
      BY <2>1
    <3>2. c[j - i + 1] \in Chars
      BY <1>1, <3>1
    <3> QED BY <1>3, <2>1, <3>2
  <2>2. CASE j \notin i..(i + n - 1)
    BY <1>3, <2>2, SomeChars, ElementsOf
  <2> QED BY <2>1, <2>2
<1>5. u \in Seq(Chars) /\ Len(u) = Len(t)
  BY <1>3, <1>4
<1>6. ASSUME NEW j \in (e + 1)..Len(t) PROVE u[j] = t[j]
  BY <1>1, <1>3
<1> QED BY <1>2, <1>5, <1>6 DEF SameFrom
-----------------------------------------------------------------------------
\* The invariant.

IsSeq(s) == \E X : s \in Seq(X)

\* A call of actual_read.
IsCall(f) ==
  /\ f = [s |-> f.s, at |-> f.at, curly |-> f.curly, end |-> f.end,
          items |-> f.items, head |-> f.head, last |-> f.last]
  /\ f.s \in Nat \ {0} /\ f.end \in Nat /\ f.last \in Nat /\ f.head \in Nat
  /\ IsSeq(f.items)
  /\ f.s <= f.end /\ f.last <= f.s /\ f.head <= Len(f.items)

LEMMA CallFacts ==
  ASSUME NEW f, IsCall(f)
  PROVE  f.s \in Nat \ {0} /\ f.end \in Nat /\ f.s <= f.end
BY DEF IsCall

\* What it has yet to read is as it was written in o.
Reads(o, t, f) ==
  /\ f.end <= Len(t) /\ t[f.end] = NUL
  /\ \A j \in f.s..(f.end - 1) : t[j] = o[j]

\* The calls read disjoint parts of the text, an inner one before an outer one.
FramesOK(o, t, q) ==
  /\ IsSeq(q)
  /\ \A i \in 1..Len(q) : IsCall(q[i]) /\ Reads(o, t, q[i])
  /\ q # << >> => q[1].end = Len(t)
  /\ \A j \in 1..Len(q) : \A i \in 1..(j - 1) : q[j].end < q[i].s
  /\ \A i \in 2..Len(q) : Commented(t, q[i].s, q[i].end)

SourcesOK ==
  /\ text \in Seq(Chars)
  /\ sources \in Seq(UNION {Programs[i] : i \in DOMAIN Programs})
  /\ Len(sources) <= Len(Programs)
  /\ atfile \in 0..(Indices - 1)
  /\ phase \in {"idle", "reading", "done", "failed"}
  /\ phase = "reading" <=> frames # << >>
  /\ phase = "reading" => sources # << >> /\ Len(text) = Len(Original)

IInv == SourcesOK /\ FramesOK(Original, text, frames)

LEMMA AppendSeq ==
  ASSUME NEW q, IsSeq(q), NEW e
  PROVE  /\ IsSeq(Append(q, e)) /\ Len(q) \in Nat
         /\ Len(Append(q, e)) = Len(q) + 1
         /\ Append(q, e)[Len(q) + 1] = e
         /\ \A i \in 1..Len(q) : Append(q, e)[i] = q[i]
<1>1. PICK X : q \in Seq(X)
  BY DEF IsSeq
<1>2. q \in Seq(X \cup {e}) /\ e \in X \cup {e}
  BY <1>1
<1> HIDE <1>1
<1> DEFINE Y == X \cup {e}
<1> HIDE DEF Y
<1>3. Append(q, e) \in Seq(Y)
  BY <1>2 DEF Y
<1> QED BY <1>2, <1>3 DEF IsSeq

Replaced(q, k, e) == [q EXCEPT ![k] = e]

LEMMA ReplacedSeq ==
  ASSUME NEW q, IsSeq(q), NEW k \in Nat, 1 <= k, k <= Len(q), NEW e
  PROVE  /\ IsSeq(Replaced(q, k, e)) /\ Len(Replaced(q, k, e)) = Len(q)
         /\ Replaced(q, k, e)[k] = e
         /\ \A i \in 1..Len(q) : i # k => Replaced(q, k, e)[i] = q[i]
<1>1. PICK X : q \in Seq(X)
  BY DEF IsSeq
<1>2. PICK Y : Y = X \cup {e}
  OBVIOUS
<1>3. q \in Seq(Y) /\ e \in Y
  BY <1>1, <1>2
<1>4. Replaced(q, k, e) \in Seq(Y) /\ Len(Replaced(q, k, e)) = Len(q)
  BY <1>3 DEF Replaced
<1>5. /\ Replaced(q, k, e)[k] = e
      /\ \A i \in 1..Len(q) : i # k => Replaced(q, k, e)[i] = q[i]
  BY <1>3 DEF Replaced
<1> QED BY <1>4, <1>5 DEF IsSeq

LEMMA PrefixSeq ==
  ASSUME NEW q, IsSeq(q), NEW k \in Nat, k <= Len(q)
  PROVE  /\ IsSeq(SubSeq(q, 1, k)) /\ Len(SubSeq(q, 1, k)) = k
         /\ \A i \in 1..k : SubSeq(q, 1, k)[i] = q[i]
<1>1. PICK X : q \in Seq(X)
  BY DEF IsSeq
<1>2. SubSeq(q, 1, k) \in Seq(X)
  BY <1>1
<1> QED BY <1>1, <1>2 DEF IsSeq

LEMMA InsertedProps ==
  ASSUME NEW f, IsCall(f), NEW item, NEW s \in Nat, f.s <= s, s <= f.end
  PROVE  /\ IsCall(Inserted(f, item, s))
         /\ Inserted(f, item, s).s = s
         /\ Inserted(f, item, s).end = f.end
         /\ Inserted(f, item, s).last = f.last
<1>1. PICK g : g = Inserted(f, item, s)
  OBVIOUS
<1>2. PICK head : head = IF f.head = 0 /\ item.kind # "list" THEN Len(f.items) + 1 ELSE f.head
  OBVIOUS
<1>3. g = [s |-> s, at |-> f.at, curly |-> f.curly, end |-> f.end,
           items |-> Append(f.items, item), head |-> head, last |-> f.last]
  BY <1>1, <1>2 DEF Inserted, IsCall
<1>4. /\ IsSeq(Append(f.items, item)) /\ Len(f.items) \in Nat
      /\ Len(Append(f.items, item)) = Len(f.items) + 1
  BY AppendSeq DEF IsCall
<1>5. head \in Nat /\ head <= Len(f.items) + 1
  BY <1>2, <1>4 DEF IsCall
<1>6. IsCall(g)
  BY <1>3, <1>4, <1>5 DEF IsCall
<1> QED BY <1>1, <1>3, <1>6

LEMMA NotEmpty ==
  ASSUME NEW q, IsSeq(q)
  PROVE  Len(q) \in Nat /\ (q # << >> <=> 1 <= Len(q))
<1>1. PICK X : q \in Seq(X)
  BY DEF IsSeq
<1> QED BY <1>1

\* The innermost call goes on to f, which writes only where it has read.
LEMMA Advances ==
  ASSUME NEW o, NEW t \in Seq(Chars), NEW q, FramesOK(o, t, q), q # << >>,
         NEW u, NEW f, IsCall(f), f.end = q[Len(q)].end, q[Len(q)].s <= f.s,
         SameFrom(t, u, f.s),
         NEW r, IsSeq(r), Len(r) = Len(q), r[Len(q)] = f,
         \A i \in 1..(Len(q) - 1) : r[i] = q[i]
  PROVE  FramesOK(o, u, r) /\ r # << >>
<1>1. PICK n \in Nat : n = Len(q) /\ 1 <= n
  BY NotEmpty DEF FramesOK
<1>2. PICK N \in Nat : N = Len(t) /\ N = Len(u)
  BY DEF SameFrom
<1>3. PICK s \in Nat : s = f.s
  BY DEF IsCall
<1>4. \A j \in s..N : u[j] = t[j]
  BY <1>2, <1>3 DEF SameFrom
<1>5. r # << >>
  BY <1>1, NotEmpty
<1>6. s <= f.end /\ f.end \in Nat /\ f.end <= N
  <2>1. Reads(o, t, q[n])
    BY <1>1 DEF FramesOK
  <2>2. f.end <= N
    BY <1>1, <1>2, <2>1 DEF Reads
  <2> QED BY <1>3, <2>2 DEF IsCall
<1>7. ASSUME NEW i \in 1..n
      PROVE  /\ IsCall(r[i]) /\ r[i].end = q[i].end /\ r[i].s >= q[i].s
             /\ r[i].s \in Nat /\ r[i].end \in Nat /\ q[i].s \in Nat
             /\ s <= r[i].s /\ r[i].s <= r[i].end /\ r[i].end <= N
  <2>1. IsCall(q[i]) /\ q[i].end <= N
    BY <1>1, <1>2 DEF FramesOK, Reads
  <2>2. CASE i = n
    <3>1. r[i] = f
      BY <1>1, <2>2
    <3>2. q[i].s \in Nat /\ q[i].s <= f.s /\ f.end = q[i].end
      BY <1>1, <2>1, <2>2, CallFacts
    <3> QED BY <1>3, <1>6, <3>1, <3>2, SMTT(30)
  <2>3. CASE i \in 1..(n - 1)
    <3>1. r[i] = q[i]
      BY <1>1, <2>3
    <3>2. q[n].end < q[i].s
      BY <1>1, <2>3 DEF FramesOK
    <3>3. q[i].s \in Nat /\ q[i].end \in Nat /\ q[i].s <= q[i].end
      BY <2>1, CallFacts
    <3>4. f.end = q[n].end
      BY <1>1
    <3> QED BY <1>6, <2>1, <3>1, <3>2, <3>3, <3>4, SMTT(30)
  <2> QED BY <1>1, <2>2, <2>3
<1>8. ASSUME NEW i \in 1..n PROVE Reads(o, u, r[i])
  <2>1. Reads(o, t, q[i])
    BY <1>1 DEF FramesOK
  <2>2. u[r[i].end] = NUL
    <3>1. r[i].end \in s..N /\ r[i].end = q[i].end
      BY <1>7, SMTT(30)
    <3>2. t[q[i].end] = NUL
      BY <2>1 DEF Reads
    <3> QED BY <1>4, <3>1, <3>2
  <2>3. ASSUME NEW j \in r[i].s..(r[i].end - 1) PROVE u[j] = o[j]
    <3>1. j \in s..N /\ j \in q[i].s..(q[i].end - 1)
      BY <1>7, SMTT(30)
    <3> QED BY <1>4, <2>1, <3>1 DEF Reads
  <2> QED BY <1>2, <1>7, <2>2, <2>3 DEF Reads
<1>9. r[1].end = Len(u)
  BY <1>1, <1>2, <1>7 DEF FramesOK
<1>10. ASSUME NEW j \in 1..n, NEW i \in 1..(j - 1) PROVE r[j].end < r[i].s
  <2>1. q[j].end < q[i].s
    BY <1>1 DEF FramesOK
  <2>2. i \in 1..n
    BY <1>1
  <2> QED BY <1>7, <2>1, <2>2, SMTT(30)
<1>11. ASSUME NEW i \in 2..n PROVE Commented(u, r[i].s, r[i].end)
  <2>1. Commented(t, q[i].s, q[i].end)
    BY <1>1 DEF FramesOK
  <2>2. i \in 1..n
    BY <1>1
  <2>3. SUFFICES ASSUME NEW j \in r[i].s..(r[i].end - 1), u[j] = "#"
                 PROVE  \E k \in j..(r[i].end - 1) : u[k] = NL
    BY DEF Commented
  <2>4. /\ r[i].end = q[i].end /\ r[i].s >= q[i].s /\ s <= r[i].s /\ r[i].end <= N
        /\ r[i].s \in Nat /\ r[i].end \in Nat /\ q[i].s \in Nat
    BY <1>7, <2>2
  <2>5. j \in q[i].s..(q[i].end - 1) /\ j \in s..N /\ t[j] = "#"
    <3>1. j \in q[i].s..(q[i].end - 1) /\ j \in s..N
      BY <2>3, <2>4, SMTT(30)
    <3> QED BY <1>4, <2>3, <3>1
  <2>6. PICK k \in j..(q[i].end - 1) : t[k] = NL
    BY <2>1, <2>5 DEF Commented
  <2>7. u[k] = NL /\ k \in j..(r[i].end - 1)
    <3>1. k \in s..N /\ k \in j..(r[i].end - 1)
      BY <2>5, <2>6, <2>4, SMTT(30)
    <3> QED BY <1>4, <2>6, <3>1
  <2> QED BY <2>7
<1>12. Len(r) = n
  BY <1>1
<1> QED BY <1>5, <1>7, <1>8, <1>9, <1>10, <1>11, <1>12 DEF FramesOK

LEMMA AdvancesTop ==
  ASSUME NEW o, NEW t \in Seq(Chars), NEW q, FramesOK(o, t, q), q # << >>,
         NEW u, NEW f, IsCall(f), f.end = q[Len(q)].end, q[Len(q)].s <= f.s,
         SameFrom(t, u, f.s)
  PROVE  FramesOK(o, u, Replaced(q, Len(q), f)) /\ Replaced(q, Len(q), f) # << >>
<1>1. IsSeq(q)
  BY DEF FramesOK
<1>2. Len(q) \in Nat /\ 1 <= Len(q) /\ Len(q) <= Len(q)
  BY <1>1, NotEmpty
<1>3. PICK r : r = Replaced(q, Len(q), f)
  OBVIOUS
<1>4. /\ IsSeq(r) /\ Len(r) = Len(q) /\ r[Len(q)] = f
      /\ \A i \in 1..Len(q) : i # Len(q) => r[i] = q[i]
  BY <1>1, <1>2, <1>3, ReplacedSeq
<1>5. \A i \in 1..(Len(q) - 1) : r[i] = q[i]
  BY <1>2, <1>4
<1>6. FramesOK(o, u, r) /\ r # << >>
  BY <1>4, <1>5, Advances
<1> QED BY <1>3, <1>6

\* The innermost call is over.
LEMMA Leaves ==
  ASSUME NEW o, NEW t \in Seq(Chars), NEW q, FramesOK(o, t, q), 2 <= Len(q)
  PROVE  FramesOK(o, t, SubSeq(q, 1, Len(q) - 1))
<1>1. PICK n \in Nat : n = Len(q) /\ 2 <= n
  BY NotEmpty DEF FramesOK
<1>2. PICK r : r = SubSeq(q, 1, n - 1)
  OBVIOUS
<1>3. IsSeq(r) /\ Len(r) = n - 1 /\ \A i \in 1..(n - 1) : r[i] = q[i]
  BY <1>1, <1>2, PrefixSeq DEF FramesOK
<1>4. FramesOK(o, t, r)
  <2>1. \A i \in 1..Len(r) : IsCall(r[i]) /\ Reads(o, t, r[i])
    BY <1>1, <1>3 DEF FramesOK
  <2>2. r[1].end = Len(t)
    BY <1>1, <1>3, NotEmpty DEF FramesOK
  <2>3. \A j \in 1..Len(r) : \A i \in 1..(j - 1) : r[j].end < r[i].s
    BY <1>1, <1>3 DEF FramesOK
  <2>4. \A i \in 2..Len(r) : Commented(t, r[i].s, r[i].end)
    BY <1>1, <1>3 DEF FramesOK
  <2> QED BY <1>3, <2>1, <2>2, <2>3, <2>4 DEF FramesOK
<1> QED BY <1>1, <1>2, <1>4

\* A call for a list that has been cut out.
LEMMA Enters ==
  ASSUME NEW o, NEW t \in Seq(Chars), NEW q, FramesOK(o, t, q), q # << >>,
         NEW f, IsCall(f), Reads(o, t, f), f.end < q[Len(q)].s,
         Commented(t, f.s, f.end)
  PROVE  FramesOK(o, t, Append(q, f))
<1>1. PICK n \in Nat : n = Len(q) /\ 1 <= n
  BY NotEmpty DEF FramesOK
<1>2. PICK r : r = Append(q, f)
  OBVIOUS
<1>3. IsSeq(r) /\ Len(r) = n + 1 /\ r[n + 1] = f /\ \A i \in 1..n : r[i] = q[i]
  BY <1>1, <1>2, AppendSeq DEF FramesOK
<1>4. \A i \in 1..Len(r) : IsCall(r[i]) /\ Reads(o, t, r[i])
  BY <1>1, <1>3 DEF FramesOK
<1>5. r[1].end = Len(t)
  BY <1>1, <1>3, NotEmpty DEF FramesOK
<1>6. ASSUME NEW j \in 1..(n + 1), NEW i \in 1..(j - 1) PROVE r[j].end < r[i].s
  <2>1. i \in 1..n /\ r[i] = q[i] /\ IsCall(q[i]) /\ IsCall(q[n])
    BY <1>1, <1>3 DEF FramesOK
  <2>2. CASE j \in 1..n
    BY <1>1, <1>3, <2>1, <2>2 DEF FramesOK
  <2>3. CASE j = n + 1 /\ i = n
    BY <1>1, <1>3, <2>1, <2>3
  <2>4. CASE j = n + 1 /\ i \in 1..(n - 1)
    <3>1. q[n].end < q[i].s
      BY <1>1, <2>4 DEF FramesOK
    <3>2. q[n].s \in Nat /\ q[n].end \in Nat /\ q[n].s <= q[n].end /\ q[i].s \in Nat
      BY <2>1, CallFacts
    <3>3. f.end \in Nat /\ f.end < q[n].s
      BY <1>1, CallFacts
    <3> QED BY <1>3, <2>1, <2>4, <3>1, <3>2, <3>3, SMTT(30)
  <2> QED BY <1>1, <2>2, <2>3, <2>4
<1>7. \A i \in 2..Len(r) : Commented(t, r[i].s, r[i].end)
  BY <1>1, <1>3 DEF FramesOK
<1> QED BY <1>2, <1>3, <1>4, <1>5, <1>6, <1>7 DEF FramesOK

-----------------------------------------------------------------------------
\* What the invariant says of the call that reads.

LEMMA ProgramText ==
  ASSUME SourcesOK, sources # << >>
  PROVE  Text(Program) \in Seq(Chars \ {NUL})
<1> DEFINE All == UNION {Programs[i] : i \in DOMAIN Programs}
<1>1. PICK m \in Nat : m = Len(sources) /\ 1 <= m
  BY DEF SourcesOK
<1>2. Program \in All
  BY <1>1 DEF SourcesOK, Program
<1>3. PICK i \in DOMAIN Programs : Program \in Programs[i]
  BY <1>2
<1> QED BY <1>3, TextAssumption

LEMMA OriginalProps ==
  ASSUME SourcesOK, phase = "reading"
  PROVE  /\ Len(Original) \in Nat
         /\ \A j \in 1..(Len(Original) - 1) : Original[j] # NUL
<1>1. PICK t : t = Text(Program)
  OBVIOUS
<1>2. t \in Seq(Chars \ {NUL})
  BY <1>1, ProgramText DEF SourcesOK
<1>3. Original = Append(t, NUL)
  BY <1>1 DEF Original
<1>4. PICK n \in Nat : n = Len(t)
  BY <1>2
<1>5. Len(Original) = n + 1
  BY <1>2, <1>3, <1>4
<1>6. ASSUME NEW j \in 1..n PROVE Original[j] # NUL
  <2>1. Original[j] = t[j]
    BY <1>2, <1>3, <1>4
  <2>2. t[j] \in Chars \ {NUL}
    BY <1>2, <1>4
  <2> QED BY <2>1, <2>2
<1> QED BY <1>4, <1>5, <1>6

LEMMA TopProps ==
  ASSUME IInv, phase = "reading"
  PROVE  /\ frames # << >> /\ Len(frames) \in Nat \ {0} /\ IsSeq(frames)
         /\ IsCall(Top) /\ Reads(Original, text, Top)
         /\ text \in Seq(Chars) /\ Len(text) \in Nat /\ text[Len(text)] = NUL
         /\ Top.end <= Len(text) /\ text[Top.end] = NUL
         /\ Top.s \in Nat \ {0} /\ Top.end \in Nat /\ Top.s <= Top.end
         /\ \A j \in Top.s..(Top.end - 1) : text[j] # NUL
         /\ Here # NUL => Top.s < Top.end
<1>1. frames # << >> /\ IsSeq(frames)
  BY DEF IInv, SourcesOK, FramesOK
<1>2. PICK n \in Nat : n = Len(frames) /\ 1 <= n
  BY <1>1, NotEmpty
<1>3. IsCall(Top) /\ Reads(Original, text, Top)
  BY <1>2 DEF IInv, FramesOK, Top
<1>4. PICK N \in Nat : N = Len(text)
  BY DEF IInv, SourcesOK
<1>5. text[N] = NUL
  <2>1. Reads(Original, text, frames[1]) /\ frames[1].end = N
    BY <1>1, <1>2, <1>4 DEF IInv, FramesOK
  <2> QED BY <2>1 DEF Reads
<1>6. Top.end <= N /\ text[Top.end] = NUL
  BY <1>3, <1>4 DEF Reads
<1>7. Top.s \in Nat \ {0} /\ Top.end \in Nat /\ Top.s <= Top.end
  BY <1>3 DEF IsCall
<1>8. ASSUME NEW j \in Top.s..(Top.end - 1) PROVE text[j] # NUL
  <2>1. text[j] = Original[j]
    BY <1>3 DEF Reads
  <2>2. N = Len(Original)
    BY <1>4 DEF IInv, SourcesOK
  <2>3. j \in 1..(N - 1)
    BY <1>6, <1>7
  <2> QED BY <2>1, <2>2, <2>3, OriginalProps DEF IInv
<1>9. Here # NUL => Top.s < Top.end
  BY <1>6, <1>7 DEF Here
<1>10. text \in Seq(Chars)
  BY DEF IInv, SourcesOK
<1> QED BY <1>1, <1>2, <1>3, <1>4, <1>5, <1>6, <1>7, <1>8, <1>9, <1>10

LEMMA GoesOn ==
  ASSUME IInv, phase = "reading", NEW f, IsCall(f), f.end = Top.end, Top.s <= f.s,
         SameFrom(text, text', f.s), Continue(f)
  PROVE  IInv'
<1>1. /\ frames # << >> /\ IsSeq(frames)
      /\ FramesOK(Original, text, frames) /\ text \in Seq(Chars)
  BY TopProps DEF IInv
<1>2. frames' = Replaced(frames, Len(frames), f)
  BY DEF Continue, Replaced
<1>3. f.end = frames[Len(frames)].end /\ frames[Len(frames)].s <= f.s
  BY DEF Top
<1>5. FramesOK(Original, text', frames') /\ frames' # << >>
  BY <1>1, <1>2, <1>3, AdvancesTop
<1>6. Original' = Original
  BY DEF Continue, Original, Program
<1>7. SourcesOK'
  <2>1. text' \in Seq(Chars) /\ Len(text') = Len(text)
    BY DEF SameFrom
  <2> QED BY <1>5, <1>6, <2>1 DEF IInv, SourcesOK, Continue
<1> QED BY <1>5, <1>6, <1>7 DEF IInv

\* The call that reads, further on in its text.
Moved(f, s) == [f EXCEPT !.s = s]
Ended(f, e) == [f EXCEPT !.last = e]

LEMMA CallProps ==
  ASSUME NEW s \in Nat \ {0}, NEW at, NEW curly, NEW e \in Nat, s <= e
  PROVE  IsCall(Call(s, at, curly, e))
<1>1. PICK f : f = Call(s, at, curly, e)
  OBVIOUS
<1>2. f = [s |-> s, at |-> at, curly |-> curly, end |-> e,
           items |-> << >>, head |-> 0, last |-> 0]
  BY <1>1 DEF Call
<1>3. IsSeq(<< >>) /\ Len(<< >>) = 0
  BY DEF IsSeq
<1>4. IsCall(f)
  BY <1>2, <1>3 DEF IsCall
<1> QED BY <1>1, <1>4

LEMMA MovedProps ==
  ASSUME NEW f, IsCall(f), NEW s \in Nat, f.s <= s, s <= f.end
  PROVE  IsCall(Moved(f, s)) /\ Moved(f, s).s = s /\ Moved(f, s).end = f.end
<1>1. PICK g : g = Moved(f, s)
  OBVIOUS
<1>2. g = [s |-> s, at |-> f.at, curly |-> f.curly, end |-> f.end,
           items |-> f.items, head |-> f.head, last |-> f.last]
  BY <1>1 DEF Moved, IsCall
<1>3. IsCall(g)
  BY <1>2 DEF IsCall
<1> QED BY <1>1, <1>2, <1>3

LEMMA EndedProps ==
  ASSUME NEW f, IsCall(f), NEW e \in Nat, e <= f.s
  PROVE  IsCall(Ended(f, e)) /\ Ended(f, e).s = f.s /\ Ended(f, e).end = f.end
<1>1. PICK g : g = Ended(f, e)
  OBVIOUS
<1>2. g = [s |-> f.s, at |-> f.at, curly |-> f.curly, end |-> f.end,
           items |-> f.items, head |-> f.head, last |-> e]
  BY <1>1 DEF Ended, IsCall
<1>3. IsCall(g)
  BY <1>2 DEF IsCall
<1> QED BY <1>1, <1>2, <1>3

LEMMA GoesTo ==
  ASSUME IInv, phase = "reading", NEW s \in Nat, Top.s <= s, s <= Top.end,
         SameFrom(text, text', s),
         \/ Continue(Moved(Top, s))
         \/ \E item : Continue(Inserted(Top, item, s))
  PROVE  IInv'
<1>1. IsCall(Top)
  BY TopProps
<1>2. CASE Continue(Moved(Top, s))
  BY <1>1, <1>2, MovedProps, GoesOn
<1>3. CASE \E item : Continue(Inserted(Top, item, s))
  <2>1. PICK item : Continue(Inserted(Top, item, s))
    BY <1>3
  <2> QED BY <1>1, <2>1, InsertedProps, GoesOn
<1> QED BY <1>2, <1>3
-----------------------------------------------------------------------------
\* The actions.

LEMMA FailStep ==
  ASSUME IInv, phase = "reading", Fail
  PROVE  IInv'
<1>1. SourcesOK'
  BY DEF Fail, IInv, SourcesOK
<1>2. FramesOK(Original', text', << >>)
  <2>1. IsSeq(<< >>)
    BY DEF IsSeq
  <2> QED BY <2>1 DEF FramesOK
<1> QED BY <1>1, <1>2 DEF Fail, IInv

LEMMA SkipStep ==
  ASSUME IInv, Skip
  PROVE  IInv'
<1>1. phase = "reading" /\ Here # NUL /\ text' = text
  BY DEF Skip, Blank, Closers, NUL, NL
<1>2. Top.s < Top.end /\ Top.s \in Nat /\ Top.end \in Nat /\ text \in Seq(Chars)
  BY <1>1, TopProps
<1>3. Continue(Moved(Top, Top.s + 1))
  BY DEF Skip, Moved
<1>4. SameFrom(text, text', Top.s + 1)
  BY <1>1, <1>2, SameSelf
<1>5. Top.s + 1 \in Nat /\ Top.s <= Top.s + 1 /\ Top.s + 1 <= Top.end
  BY <1>2
<1> QED BY <1>1, <1>3, <1>4, <1>5, GoesTo

LEMMA CommentStep ==
  ASSUME IInv, Comment
  PROVE  IInv'
<1>1. phase = "reading" /\ text' = text
  BY DEF Comment
<1>2. /\ Top.s \in Nat \ {0} /\ Top.end \in Nat /\ text \in Seq(Chars)
      /\ Top.s <= Top.end /\ Top.end <= Len(text) /\ text[Top.end] = NUL
      /\ Len(text) \in Nat
  BY <1>1, TopProps
<1>3. PICK s : s = CommentEnd(text, Top.s)
  OBVIOUS
<1>4. s \in Top.s..Top.end
  <2>1. Top.end \in Top.s..Len(text) /\ text[Top.end] \in {NL, NUL}
    BY <1>2
  <2> QED BY <1>2, <1>3, <2>1, FirstProps DEF CommentEnd
<1>5. Continue(Moved(Top, s))
  BY <1>3 DEF Comment, Moved
<1>6. SameFrom(text, text', s)
  BY <1>1, <1>2, SameSelf
<1>7. s \in Nat /\ Top.s <= s /\ s <= Top.end
  BY <1>2, <1>4
<1> QED BY <1>1, <1>5, <1>6, <1>7, GoesTo

LEMMA WordEndProps ==
  ASSUME NEW t \in Seq(Chars), NEW i \in Nat \ {0}, NEW e \in Nat, i <= e, e <= Len(t),
         t[e] \in Boundary \cup {NUL}
  PROVE  WordEnd(t, i) \in i..e /\ t[WordEnd(t, i)] \in Boundary \cup {NUL}
<1>1. PICK n \in Nat : n = Len(t)
  OBVIOUS
<1>2. e \in i..Len(t)
  BY <1>1
<1> QED BY <1>2, FirstProps DEF WordEnd

LEMMA NumberStep ==
  ASSUME IInv, Number
  PROVE  IInv'
<1>1. phase = "reading" /\ text' = text
  BY DEF Number
<1>2. /\ Top.s \in Nat \ {0} /\ Top.end \in Nat /\ text \in Seq(Chars)
      /\ Top.s <= Top.end /\ Top.end <= Len(text) /\ text[Top.end] = NUL
  BY <1>1, TopProps
<1>3. PICK s : s = WordEnd(text, Top.s)
  OBVIOUS
<1>4. s \in Top.s..Top.end
  BY <1>2, <1>3, WordEndProps
<1>5. \E item : Continue(Inserted(Top, item, s))
  BY <1>3 DEF Number
<1>6. SameFrom(text, text', s)
  BY <1>1, <1>2, SameSelf
<1>7. s \in Nat /\ Top.s <= s /\ s <= Top.end
  BY <1>2, <1>4
<1> QED BY <1>1, <1>5, <1>6, <1>7, GoesTo

LEMMA GroupSeq ==
  ASSUME NEW q, IsSeq(q), NEW k \in Nat \ {0}, k <= Len(q)
  PROVE  IsSeq(Group(q, k))
<1>1. k - 1 \in Nat /\ k - 1 <= Len(q)
  BY NotEmpty
<1>2. IsSeq(SubSeq(q, 1, k - 1))
  BY <1>1, PrefixSeq
<1> QED BY <1>2, AppendSeq DEF Group

LEMMA SemicolonStep ==
  ASSUME IInv, Semicolon
  PROVE  IInv'
<1>1. phase = "reading" /\ Here # NUL
  BY DEF Semicolon, NUL
<1>2. Top.s < Top.end /\ Top.s \in Nat /\ Top.end \in Nat /\ text \in Seq(Chars)
  BY <1>1, TopProps
<1>3. CASE Fail
  BY <1>1, <1>3, FailStep
<1>4. CASE Top.head # 0
  <2>1. text' = text
    BY <1>4 DEF Semicolon
  <2>2. PICK f : f = [Top EXCEPT !.s = @ + 1, !.items = Group(@, Top.head), !.head = 0]
    OBVIOUS
  <2>3. Continue(f)
    BY <1>4, <2>2 DEF Semicolon
  <2>4. IsCall(Top)
    BY <1>1, TopProps
  <2>5. f = [s |-> Top.s + 1, at |-> Top.at, curly |-> Top.curly, end |-> Top.end,
             items |-> Group(Top.items, Top.head), head |-> 0, last |-> Top.last]
    BY <2>2, <2>4 DEF IsCall
  <2>6. IsSeq(Group(Top.items, Top.head))
    BY <1>4, <2>4, GroupSeq DEF IsCall
  <2>7. Len(Group(Top.items, Top.head)) \in Nat
    BY <2>6, NotEmpty
  <2>8. IsCall(f) /\ f.end = Top.end /\ Top.s <= f.s
    BY <1>2, <2>4, <2>5, <2>6, <2>7 DEF IsCall
  <2>9. SameFrom(text, text', f.s)
    BY <1>2, <2>1, SameSelf
  <2> QED BY <1>1, <2>3, <2>8, <2>9, GoesOn
<1> QED BY <1>3, <1>4 DEF Semicolon

\* Both kinds of literal are written over by the characters they stand for.
LEMMA LiteralSame ==
  ASSUME NEW t \in Seq(Chars), NEW begin \in Nat \ {0}, NEW end \in Nat,
         begin <= end, end <= Len(t), NEW quote,
         Unescaped(SubSeq(t, begin, end - 1), quote) # Wrong
  PROVE  SameFrom(t, Prepared(Cut(t, end), begin,
                              Unescaped(SubSeq(t, begin, end - 1), quote)), end + 1)
<1>1. PICK c : c = SubSeq(t, begin, end - 1)
  OBVIOUS
<1>2. PICK n \in Nat : n = Len(t)
  OBVIOUS
<1>3. c \in Seq(Chars) /\ Len(c) = end - begin
  <2>1. \A k \in 1..(end - begin) : t[begin + k - 1] \in Chars
    BY <1>2, ElementsOf
  <2> QED BY <1>1, <1>2, <2>1
<1>4. PICK u : u = Unescaped(c, quote)
  OBVIOUS
<1>5. u \in Seq(Chars) /\ Len(u) <= Len(c)
  <2>1. Chars \ {NUL} \subseteq Chars
    OBVIOUS
  <2> QED BY <1>1, <1>3, <1>4, <2>1, UnescapedProps
<1>6. SameFrom(t, Cut(t, end), end + 1)
  BY CutSame
<1>7. Cut(t, end) \in Seq(Chars)
  BY <1>6 DEF SameFrom
<1>8. begin + Len(u) <= end
  <2>1. PICK m \in Nat : m = Len(u)
    BY <1>5
  <2> QED BY <1>3, <1>5, <2>1
<1>9. SameFrom(Cut(t, end), Prepared(Cut(t, end), begin, u), end + 1)
  BY <1>5, <1>7, <1>8, PreparedSame
<1> QED BY <1>1, <1>4, <1>6, <1>9, SameTrans

LEMMA StringStep ==
  ASSUME IInv, String
  PROVE  IInv'
<1>1. phase = "reading" /\ Here = Quote
  BY DEF String
<1>2. Quote # NUL
  BY Zenon DEF Quote, NUL
<1>3. /\ Top.s \in Nat \ {0} /\ Top.end \in Nat /\ text \in Seq(Chars)
      /\ Top.s < Top.end /\ Top.end <= Len(text) /\ text[Top.end] = NUL
      /\ text[Len(text)] = NUL
  BY <1>1, <1>2, TopProps
<1>4. PICK begin : begin = Top.s + 1
  OBVIOUS
<1>5. PICK end : end = StringEnd(text, begin)
  OBVIOUS
<1>6. PICK chars : chars = Unescaped(SubSeq(text, begin, end - 1), Quote)
  OBVIOUS
<1>7. CASE Fail
  BY <1>1, <1>7, FailStep
<1>8. CASE ~(end = 0 \/ chars = Wrong)
  <2>1. text' = Prepared(Cut(text, end), begin, chars)
    BY <1>4, <1>5, <1>6, <1>8 DEF String
  <2>2. \E item : Continue(Inserted(Top, item, end + 1))
    BY <1>4, <1>5, <1>6, <1>8 DEF String
  <2>3. begin \in 1..Top.end /\ begin \in Nat \ {0}
    BY <1>3, <1>4
  <2>4. end \in begin..(Top.end - 1)
    BY <1>3, <1>5, <1>8, <2>3, StringEndProps
  <2>5. end \in Nat /\ begin <= end /\ end <= Len(text)
    <3>1. PICK n \in Nat : n = Len(text)
      BY <1>3
    <3> QED BY <1>3, <2>3, <2>4, <3>1
  <2>6. SameFrom(text, text', end + 1)
    BY <1>3, <1>6, <1>8, <2>1, <2>3, <2>5, LiteralSame
  <2>7. end + 1 \in Nat /\ Top.s <= end + 1 /\ end + 1 <= Top.end
    BY <1>3, <1>4, <2>4
  <2> QED BY <1>1, <2>2, <2>6, <2>7, GoesTo
<1> QED BY <1>4, <1>5, <1>6, <1>7, <1>8 DEF String

LEMMA CharStep ==
  ASSUME IInv, Char
  PROVE  IInv'
<1>1. phase = "reading" /\ Here # NUL
  BY DEF Char, NUL
<1>2. /\ Top.s \in Nat \ {0} /\ Top.end \in Nat /\ text \in Seq(Chars)
      /\ Top.s < Top.end /\ Top.end <= Len(text) /\ text[Top.end] = NUL
  BY <1>1, TopProps
<1>3. PICK begin : begin = Top.s + 1
  OBVIOUS
<1>4. PICK end : end = First(text, begin, {"'", NUL})
  OBVIOUS
<1>5. PICK chars : chars = Unescaped(SubSeq(text, begin, end - 1), "'")
  OBVIOUS
<1>6. CASE Fail
  BY <1>1, <1>6, FailStep
<1>7. CASE ~(\/ text[end] = NUL \/ chars = Wrong
            \/ Prepared(Cut(text, end), begin, chars)[begin + 1] # NUL)
  <2>1. text' = Prepared(Cut(text, end), begin, chars)
    BY <1>3, <1>4, <1>5, <1>7 DEF Char
  <2>2. \E item : Continue(Inserted(Top, item, end + 1))
    BY <1>3, <1>4, <1>5, <1>7 DEF Char
  <2>3. begin \in Nat \ {0}
    BY <1>2, <1>3
  <2>4. end \in begin..Top.end
    <3>1. PICK n \in Nat : n = Len(text)
      BY <1>2
    <3>2. Top.end \in begin..Len(text) /\ text[Top.end] \in {"'", NUL}
      BY <1>2, <1>3, <3>1
    <3> QED BY <1>2, <1>4, <2>3, <3>2, FirstProps
  <2>5. end # Top.end
    BY <1>2, <1>7
  <2>6. end \in Nat /\ begin <= end /\ end <= Len(text)
    <3>1. PICK n \in Nat : n = Len(text)
      BY <1>2
    <3> QED BY <1>2, <2>3, <2>4, <3>1
  <2>7. SameFrom(text, text', end + 1)
    BY <1>2, <1>5, <1>7, <2>1, <2>3, <2>6, LiteralSame
  <2>8. end + 1 \in Nat /\ Top.s <= end + 1 /\ end + 1 <= Top.end
    BY <1>2, <1>3, <2>4, <2>5
  <2> QED BY <1>1, <2>2, <2>7, <2>8, GoesTo
<1> QED BY <1>3, <1>4, <1>5, <1>6, <1>7 DEF Char

\* What an identifier leaves of its end before its colons are cut out.
LEMMA NamesCut ==
  ASSUME NEW f, IsCall(f), NEW t \in Seq(Chars), f.end <= Len(t), t[f.end] = NUL,
         t[f.s] \notin Boundary \cup {NUL}
  PROVE  /\ WordEnd(t, f.s) \in Nat \ {0}
         /\ f.s < WordEnd(t, f.s) /\ WordEnd(t, f.s) <= f.end
         /\ t[WordEnd(t, f.s)] \in Boundary \cup {NUL}
         /\ SameFrom(t, Terminated(Underscored(t, f.s, WordEnd(t, f.s)), f.last),
                     WordEnd(t, f.s))
<1>1. f.s \in Nat \ {0} /\ f.end \in Nat /\ f.s <= f.end
  BY CallFacts
<1>2. PICK end : end = WordEnd(t, f.s)
  OBVIOUS
<1>3. end \in f.s..f.end /\ t[end] \in Boundary \cup {NUL}
  BY <1>1, <1>2, WordEndProps
<1>4. end # f.s
  BY <1>3
<1>5. end \in Nat \ {0} /\ f.s < end /\ end <= f.end
  BY <1>1, <1>3, <1>4
<1>6. PICK t1 : t1 = Underscored(t, f.s, end)
  OBVIOUS
<1>7. SameFrom(t, t1, end)
  <2>1. t[end] # "-"
    BY <1>3 DEF Boundary, Blank, Closers, NUL, NL
  <2> QED BY <1>1, <1>5, <1>6, <2>1, UnderscoredSame
<1>8. SameFrom(t1, Terminated(t1, f.last), end)
  <2>1. t1 \in Seq(Chars)
    BY <1>7 DEF SameFrom
  <2>2. f.last \in Nat /\ f.last < end
    BY <1>5 DEF IsCall
  <2>3. CASE f.last = 0
    BY <2>1, <2>3, SameSelf DEF Terminated
  <2>4. CASE f.last # 0
    BY <1>5, <2>1, <2>2, <2>4, CutSame DEF Terminated
  <2> QED BY <2>3, <2>4
<1>9. SameFrom(t, Terminated(t1, f.last), end)
  BY <1>7, <1>8, SameTrans
<1> QED BY <1>2, <1>3, <1>5, <1>6, <1>9

\* The identifier itself and the NUL after the one before it lie before its
\* end, which still has the character that ended it.
LEMMA IdentifierStep ==
  ASSUME IInv, Identifier
  PROVE  IInv'
<1>1. phase = "reading" /\ Here \notin Boundary \cup {NUL}
  BY DEF Identifier, Boundary
<1>2. /\ Top.s \in Nat \ {0} /\ Top.end \in Nat /\ text \in Seq(Chars)
      /\ Top.s <= Top.end /\ Top.end <= Len(text) /\ text[Top.end] = NUL
      /\ IsCall(Top)
  BY <1>1, TopProps
<1>3. PICK n \in Nat : n = Len(text)
  BY <1>2
<1>4. PICK end : end = WordEnd(text, Top.s)
  OBVIOUS
<1>5. PICK t2 : t2 = Terminated(Underscored(text, Top.s, end), Top.last)
  OBVIOUS
<1>6. /\ end \in Nat \ {0} /\ Top.s < end /\ end <= Top.end
      /\ text[end] \in Boundary \cup {NUL} /\ SameFrom(text, t2, end)
  BY <1>1, <1>2, <1>4, <1>5, NamesCut DEF Here
<1>7. t2 \in Seq(Chars) /\ Len(t2) = n /\ t2[end] = text[end] /\ end <= n
  BY <1>2, <1>3, <1>6 DEF SameFrom
<1>8. WordEnd(t2, Top.s) \in Top.s..end
  BY <1>2, <1>6, <1>7, WordEndProps, SMTT(30)
<1>9. PICK S : S = Separators(t2, Top.s)
  OBVIOUS
<1>10. \A j \in S : j \in Nat /\ j < end
  BY <1>2, <1>6, <1>8, <1>9 DEF Separators, CutColons, Colons
<1>11. SameFrom(t2, CutAll(t2, S), end)
  BY <1>6, <1>7, <1>10, CutAllSame
<1>12. text' = CutAll(t2, S)
  <2>1. text' = Transformed(t2, Top.s, Top.s).text
    BY <1>4, <1>5 DEF Identifier, PreviousOne
  <2> QED BY <1>9, <2>1 DEF Transformed
<1>13. SameFrom(text, text', end)
  BY <1>6, <1>11, <1>12, SameTrans
<1>14. PICK item : Continue(Ended(Inserted(Top, item, end), end))
  BY <1>4 DEF Identifier, Ended
<1>15. PICK g : g = Inserted(Top, item, end)
  OBVIOUS
<1>16. IsCall(g) /\ g.s = end /\ g.end = Top.end
  BY <1>2, <1>6, <1>15, InsertedProps
<1>17. PICK f : f = Ended(g, end)
  OBVIOUS
<1>18. IsCall(f) /\ f.s = end /\ f.end = Top.end
  BY <1>6, <1>16, <1>17, EndedProps
<1>19. Continue(f) /\ Top.s <= f.s /\ SameFrom(text, text', f.s)
  BY <1>2, <1>6, <1>13, <1>14, <1>15, <1>17, <1>18
<1> QED BY <1>1, <1>18, <1>19, GoesOn

\* The list is cut out at the bracket that closes it, which lies inside of the
\* text of the list around it.
LEMMA OpenStep ==
  ASSUME IInv, Open
  PROVE  IInv'
<1>1. phase = "reading" /\ Here \in Openers /\ Here # NUL
  BY DEF Open, Openers, NUL
<1>2. /\ Top.s \in Nat \ {0} /\ Top.end \in Nat /\ text \in Seq(Chars)
      /\ Top.s < Top.end /\ Top.end <= Len(text) /\ text[Top.end] = NUL
      /\ IsCall(Top) /\ Reads(Original, text, Top)
      /\ \A j \in Top.s..(Top.end - 1) : text[j] # NUL
  BY <1>1, TopProps
<1>3. FramesOK(Original, text, frames) /\ IsSeq(frames) /\ frames # << >>
  BY <1>1, TopProps DEF IInv
<1>4. PICK n \in Nat : n = Len(frames) /\ 1 <= n
  BY <1>3, NotEmpty
<1>5. PICK c : c = Closer(text, Top.s)
  OBVIOUS
<1>6. CASE c = 0
  <2>1. Fail
    BY <1>5, <1>6 DEF Open
  <2> QED BY <1>1, <2>1, FailStep
<1>7. CASE c # 0
  <2>1. Top.end = Len(text) \/ Commented(text, Top.s, Top.end)
    BY <1>3, <1>4 DEF FramesOK, Top
  <2>2. c \in (Top.s + 1)..(Top.end - 1) /\ Commented(text, Top.s, c)
    <3>1. Top.s \in 1..(Top.end - 1)
      BY <1>2
    <3>2. text[Top.s] \in Openers
      BY <1>1 DEF Here
    <3> QED BY <1>2, <1>5, <1>7, <2>1, <3>1, <3>2, CloserProps
  <2>3. c \in Nat \ {0} /\ Top.s < c /\ c < Top.end
    BY <1>2, <2>2
  <2>4. text' = Cut(text, c)
    BY <1>5, <1>7 DEF Open
  <2>5. SameFrom(text, text', c + 1)
    BY <1>2, <2>3, <2>4, CutSame
  <2>6. PICK q : q = Replaced(frames, n, Moved(Top, c + 1))
    OBVIOUS
  <2>7. IsCall(Moved(Top, c + 1)) /\ Moved(Top, c + 1).s = c + 1
        /\ Moved(Top, c + 1).end = Top.end
    BY <1>2, <2>3, MovedProps
  <2>8. FramesOK(Original, text', q) /\ q # << >>
    <3>1. Top = frames[Len(frames)] /\ Top.s <= c + 1
      BY <1>2, <2>3 DEF Top
    <3> QED BY <1>2, <1>3, <1>4, <2>5, <2>6, <2>7, <3>1, AdvancesTop
  <2>9. Len(q) = n /\ q[n] = Moved(Top, c + 1)
    <3>1. n <= Len(frames)
      BY <1>4
    <3> QED BY <1>3, <1>4, <2>6, <3>1, ReplacedSeq
  <2>10. PICK f : f = Call(Top.s + 1, Top.s, Here = "{", c)
    OBVIOUS
  <2>11. f.s = Top.s + 1 /\ f.end = c
    BY <2>10 DEF Call
  <2>12. IsCall(f)
    <3>1. Top.s + 1 \in Nat \ {0} /\ c \in Nat /\ Top.s + 1 <= c
      BY <1>2, <2>3
    <3> QED BY <2>10, <3>1, CallProps
  <2>13. text' \in Seq(Chars) /\ Len(text') = Len(text)
    BY <2>5 DEF SameFrom
  <2>14. PICK N \in Nat : N = Len(text)
    BY <1>2
  <2>15. \A k \in 1..N : text'[k] = IF k = c THEN NUL ELSE text[k]
    BY <1>2, <2>4, <2>14, ElementsOf DEF Cut
  <2>16. Reads(Original, text', f)
    <3>1. c \in 1..N
      BY <1>2, <2>3, <2>14
    <3>2. ASSUME NEW j \in (Top.s + 1)..(c - 1) PROVE text'[j] = Original[j]
      <4>1. j \in 1..N /\ j # c /\ j \in Top.s..(Top.end - 1)
        BY <1>2, <2>3, <2>14
      <4>2. text[j] = Original[j]
        BY <1>2, <4>1 DEF Reads
      <4> QED BY <2>15, <4>1, <4>2
    <3> QED BY <2>11, <2>13, <2>14, <2>15, <3>1, <3>2 DEF Reads
  <2>17. Commented(text', f.s, f.end)
    <3>1. SUFFICES ASSUME NEW j \in (Top.s + 1)..(c - 1), text'[j] = "#"
                   PROVE  \E k \in j..(c - 1) : text'[k] = NL
      BY <2>11 DEF Commented
    <3>2. text[j] = "#" /\ j \in Top.s..(c - 1)
      BY <1>2, <2>3, <2>14, <2>15, <3>1
    <3>3. PICK k \in j..(c - 1) : text[k] = NL
      BY <2>2, <3>2 DEF Commented
    <3>4. k \in 1..N /\ k # c
      BY <1>2, <2>3, <2>14
    <3> QED BY <2>15, <3>3, <3>4
  <2>18. f.end < q[Len(q)].s
    BY <2>3, <2>7, <2>9, <2>11
  <2>19. frames' = Append(q, f)
    BY <1>4, <1>5, <1>7, <2>6, <2>10 DEF Open, Replaced, Moved, Top
  <2>20. FramesOK(Original, text', frames')
    BY <2>8, <2>12, <2>13, <2>16, <2>17, <2>18, <2>19, Enters
  <2>21. frames' # << >>
    BY <2>8, <2>19, AppendSeq, NotEmpty DEF FramesOK
  <2>22. UNCHANGED <<sources, atfile, phase>>
    BY <1>5, <1>7 DEF Open
  <2>23. Original' = Original
    BY <2>22 DEF Original, Program
  <2>24. SourcesOK'
    BY <1>1, <2>13, <2>21, <2>22, <2>23 DEF IInv, SourcesOK
  <2> QED BY <2>20, <2>23, <2>24 DEF IInv
<1> QED BY <1>6, <1>7

LEMMA ReturnStep ==
  ASSUME IInv, Return
  PROVE  IInv'
<1>1. phase = "reading" /\ Here = NUL /\ UNCHANGED <<sources, atfile>>
  BY DEF Return
<1>2. /\ Top.s \in Nat \ {0} /\ Top.end \in Nat /\ text \in Seq(Chars)
      /\ Top.s <= Top.end /\ Top.end <= Len(text) /\ text[Top.s] = NUL
      /\ IsCall(Top)
  BY <1>1, TopProps DEF Here
<1>3. FramesOK(Original, text, frames) /\ IsSeq(frames) /\ frames # << >>
  BY <1>1, TopProps DEF IInv
<1>4. PICK n \in Nat : n = Len(frames) /\ 1 <= n
  BY <1>3, NotEmpty
<1>5. SameFrom(text, text', Top.s)
  <2>1. text' = Terminated(text, Top.last)
    BY DEF Return
  <2>2. Top.last \in Nat /\ Top.last <= Top.s
    BY <1>2 DEF IsCall
  <2>3. Top.last < Top.s \/ text[Top.last] = NUL
    BY <1>2, <2>2
  <2>4. CASE Top.last = 0
    BY <1>2, <2>1, <2>4, SameSelf DEF Terminated
  <2>5. CASE Top.last # 0
    BY <1>2, <2>1, <2>2, <2>3, <2>5, CutSame DEF Terminated
  <2> QED BY <2>4, <2>5
<1>6. text' \in Seq(Chars) /\ Len(text') = Len(text)
  BY <1>5 DEF SameFrom
<1>7. Original' = Original
  BY <1>1 DEF Original, Program
<1>8. CASE n = 1
  <2>1. frames' = << >> /\ phase' = "done"
    BY <1>4, <1>8 DEF Return
  <2>2. FramesOK(Original', text', << >>)
    <3>1. IsSeq(<< >>)
      BY DEF IsSeq
    <3> QED BY <3>1 DEF FramesOK
  <2>3. SourcesOK'
    BY <1>1, <1>6, <2>1 DEF IInv, SourcesOK
  <2> QED BY <2>1, <2>2, <2>3 DEF IInv
<1>9. CASE n # 1
  <2>1. n - 1 \in Nat /\ 1 <= n - 1 /\ n - 2 \in Nat /\ 2 <= n
    BY <1>4, <1>9
  <2>2. FramesOK(Original, text', frames)
    <3>1. Top = frames[Len(frames)] /\ Top.s <= Top.s /\ Top.end = frames[Len(frames)].end
      BY <1>2 DEF Top
    <3>2. \A i \in 1..(Len(frames) - 1) : frames[i] = frames[i]
      OBVIOUS
    <3> QED BY <1>2, <1>3, <1>5, <3>1, <3>2, Advances
  <2>3. PICK q : q = SubSeq(frames, 1, n - 1)
    OBVIOUS
  <2>4. IsSeq(q) /\ Len(q) = n - 1 /\ \A i \in 1..(n - 1) : q[i] = frames[i]
    <3>1. n - 1 <= Len(frames)
      BY <1>4
    <3> QED BY <1>3, <2>1, <2>3, <3>1, PrefixSeq
  <2>5. FramesOK(Original, text', q) /\ q # << >>
    <3>1. FramesOK(Original, text', q)
      BY <1>4, <1>6, <2>1, <2>2, <2>3, Leaves
    <3> QED BY <2>1, <2>4, <3>1, NotEmpty
  <2>6. PICK around : around = frames[n - 1]
    OBVIOUS
  <2>7. PICK item : frames' = Append(SubSeq(frames, 1, n - 2),
                                     Inserted(around, item, around.s))
    BY <1>4, <1>9, <2>6 DEF Return
  <2>8. IsCall(around) /\ around = q[n - 1]
    BY <2>1, <2>4, <2>5, <2>6 DEF FramesOK
  <2>9. PICK f : f = Inserted(around, item, around.s)
    OBVIOUS
  <2>10. IsCall(f) /\ f.s = around.s /\ f.end = around.end
    <3>1. around.s \in Nat /\ around.s <= around.s /\ around.s <= around.end
      BY <2>8 DEF IsCall
    <3> QED BY <2>8, <2>9, <3>1, InsertedProps
  <2>11. PICK p : p = SubSeq(frames, 1, n - 2)
    OBVIOUS
  <2>12. IsSeq(p) /\ Len(p) = n - 2 /\ \A i \in 1..(n - 2) : p[i] = frames[i]
    <3>1. n - 2 <= Len(frames)
      BY <1>4
    <3> QED BY <1>3, <2>1, <2>11, <3>1, PrefixSeq
  <2>13. PICK r : r = Append(p, f)
    OBVIOUS
  <2>14. /\ IsSeq(r) /\ Len(r) = n - 1 /\ r[n - 1] = f
         /\ \A i \in 1..(n - 2) : r[i] = p[i]
    <3>1. Len(p) + 1 = n - 1
      BY <1>4, <2>12
    <3>2. /\ IsSeq(r) /\ Len(r) = Len(p) + 1 /\ r[Len(p) + 1] = f
          /\ \A i \in 1..Len(p) : r[i] = p[i]
      BY <2>12, <2>13, AppendSeq
    <3> QED BY <2>12, <3>1, <3>2
  <2>15. FramesOK(Original, text', r) /\ r # << >>
    <3>1. Len(r) = Len(q) /\ r[Len(q)] = f
      BY <2>4, <2>14
    <3>2. \A i \in 1..(Len(q) - 1) : r[i] = q[i]
      BY <1>4, <2>4, <2>12, <2>14
    <3>3. f.end = q[Len(q)].end /\ q[Len(q)].s <= f.s
      <4>1. f.s \in Nat
        BY <2>10 DEF IsCall
      <4> QED BY <2>4, <2>8, <2>10, <4>1
    <3>4. SameFrom(text', text', f.s)
      BY <1>6, SameSelf
    <3> QED BY <1>6, <2>5, <2>10, <2>14, <3>1, <3>2, <3>3, <3>4, Advances
  <2>16. frames' = r /\ phase' = phase
    BY <1>4, <1>9, <2>7, <2>9, <2>11, <2>13 DEF Return
  <2>17. SourcesOK'
    BY <1>1, <1>6, <1>7, <2>15, <2>16 DEF IInv, SourcesOK
  <2> QED BY <1>7, <2>15, <2>16, <2>17 DEF IInv
<1> QED BY <1>8, <1>9

LEMMA ReadStep ==
  ASSUME IInv, Len(sources) < Len(Programs), NEW p \in Programs[Len(sources) + 1], Read(p)
  PROVE  IInv'
<1> DEFINE All == UNION {Programs[i] : i \in DOMAIN Programs}
<1>1. PICK m \in Nat : m = Len(sources)
  BY DEF IInv, SourcesOK
<1>2. m + 1 \in DOMAIN Programs
  BY <1>1, ProgramsAssumption
<1>3. p \in All
  BY <1>1, <1>2
<1>4. /\ sources' \in Seq(All) /\ Len(sources') = m + 1 /\ sources'[m + 1] = p
      /\ sources' # << >>
  <2>1. sources' = Append(sources, p) /\ sources \in Seq(All)
    BY DEF IInv, SourcesOK, Read
  <2> HIDE DEF All
  <2> QED BY <1>1, <1>3, <2>1
<1>5. Len(sources') <= Len(Programs)
  BY <1>1, <1>4, ProgramsAssumption
<1>6. PICK t : t = Append(Text(p), NUL)
  OBVIOUS
<1>7. Text(p) \in Seq(Chars \ {NUL})
  BY <1>1, <1>2, TextAssumption
<1>8. PICK N \in Nat \ {0} : N = Len(t)
  BY <1>6, <1>7
<1>9. t \in Seq(Chars) /\ t[N] = NUL
  <2>1. PICK a : a = Text(p) /\ a \in Seq(Chars)
    <3>1. PICK a : a = Text(p)
      OBVIOUS
    <3>2. PICK k \in Nat : k = Len(a)
      BY <1>7, <3>1
    <3>3. a = [i \in 1..k |-> a[i]] /\ \A i \in 1..k : a[i] \in Chars
      BY <1>7, <3>1, <3>2
    <3> QED BY <3>1, <3>3
  <2>2. t = Append(a, NUL)
    BY <1>6, <2>1
  <2>3. NUL \in Chars
    BY SomeChars
  <2>4. t \in Seq(Chars)
    BY <2>1, <2>2, <2>3
  <2>5. PICK k \in Nat : k = Len(a) /\ N = k + 1
    BY <1>8, <2>1, <2>2
  <2>6. t[k + 1] = NUL
    BY <2>1, <2>2, <2>5
  <2> QED BY <2>4, <2>5, <2>6
<1>10. text' = t /\ Original' = t
  BY <1>4, <1>6 DEF Read, Original, Program
<1>11. PICK f : f = Call(1, 1, FALSE, N)
  OBVIOUS
<1>12. frames' = <<f>> /\ phase' = "reading" /\ atfile' = (atfile + 1) % Indices
  BY <1>8, <1>10, <1>11 DEF Read, Numbered
<1>13. IsCall(f) /\ f.s = 1 /\ f.end = N
  <2>1. 1 <= N /\ N \in Nat /\ 1 \in Nat \ {0}
    BY <1>8
  <2>2. IsCall(f)
    BY <1>11, <2>1, CallProps
  <2> QED BY <1>11, <2>2 DEF Call
<1>14. FramesOK(t, t, <<f>>)
  <2>1. IsSeq(<<f>>) /\ Len(<<f>>) = 1 /\ <<f>>[1] = f
    <3>1. <<f>> \in Seq({f})
      OBVIOUS
    <3> QED BY <3>1 DEF IsSeq
  <2>2. Reads(t, t, f)
    BY <1>8, <1>9, <1>13 DEF Reads
  <2> QED BY <1>8, <1>13, <2>1, <2>2 DEF FramesOK
<1>15. atfile' \in 0..(Indices - 1)
  BY <1>12, IndexAssumption DEF IInv, SourcesOK
<1>16. SourcesOK'
  BY <1>4, <1>5, <1>9, <1>10, <1>12, <1>15 DEF SourcesOK
<1> QED BY <1>10, <1>12, <1>14, <1>16 DEF IInv

LEMMA Initially == Init => IInv
<1> SUFFICES ASSUME Init PROVE IInv
  OBVIOUS
<1>1. SourcesOK
  BY ProgramsAssumption, IndexAssumption DEF Init, SourcesOK
<1>2. FramesOK(Original, text, << >>)
  <2>1. IsSeq(<< >>)
    BY DEF IsSeq
  <2> QED BY <2>1 DEF FramesOK
<1> QED BY <1>1, <1>2 DEF Init, IInv

LEMMA Inductive == IInv /\ [Next]_vars => IInv'
<1> SUFFICES ASSUME IInv, [Next]_vars PROVE IInv'
  OBVIOUS
<1>1. ASSUME Len(sources) < Len(Programs), NEW p \in Programs[Len(sources) + 1], Read(p)
      PROVE  IInv'
  BY <1>1, ReadStep
<1>2. CASE Skip
  BY <1>2, SkipStep
<1>3. CASE Comment
  BY <1>3, CommentStep
<1>4. CASE Open
  BY <1>4, OpenStep
<1>5. CASE Return
  BY <1>5, ReturnStep
<1>6. CASE Semicolon
  BY <1>6, SemicolonStep
<1>7. CASE String
  BY <1>7, StringStep
<1>8. CASE Char
  BY <1>8, CharStep
<1>9. CASE Number
  BY <1>9, NumberStep
<1>10. CASE Identifier
  BY <1>10, IdentifierStep
<1>11. CASE UNCHANGED vars
  BY <1>11 DEF vars, IInv, SourcesOK, FramesOK, Original, Program, Reads
<1> QED BY <1>1, <1>2, <1>3, <1>4, <1>5, <1>6, <1>7, <1>8, <1>9, <1>10, <1>11 DEF Next

\* Wherever actual_read stands, it stands inside of the text it was called
\* for, the identifier to be terminated lies behind it, and the group it has
\* begun is in its list (list.c:676-763).
THEOREM TypeCorrect == Spec => []TypeOK
<1>1. IInv => TypeOK
  <2> SUFFICES ASSUME IInv PROVE TypeOK
    OBVIOUS
  <2>1. ASSUME NEW i \in 1..Len(frames)
        PROVE  /\ frames[i].s \in 1..frames[i].end
               /\ frames[i].end \in 1..Len(text)
               /\ frames[i].head \in 0..Len(frames[i].items)
               /\ frames[i].last \in 0..frames[i].s
    <3>1. IsCall(frames[i]) /\ frames[i].end <= Len(text)
      BY DEF IInv, FramesOK, Reads
    <3>2. Len(text) \in Nat
      BY DEF IInv, SourcesOK
    <3>3. Len(frames[i].items) \in Nat
      BY <3>1, NotEmpty DEF IsCall
    <3> QED BY <3>1, <3>2, <3>3 DEF IsCall
  <2> QED BY <2>1 DEF TypeOK, IInv, SourcesOK
<1> QED BY <1>1, Initially, Inductive, PTL DEF Spec

\* What is written into the text, over what has been read and at the brackets
\* that close lists, never touches what a call has yet to read (list.c:637,
\* 758-761).
THEOREM UnreadCorrect == Spec => []UnreadIsIntact
<1>1. IInv => UnreadIsIntact
  <2> SUFFICES ASSUME IInv, NEW i \in 1..Len(frames)
               PROVE  /\ text[frames[i].end] = NUL
                      /\ \A j \in frames[i].s..(frames[i].end - 1) : text[j] = Original[j]
    BY DEF UnreadIsIntact
  <2> QED BY DEF IInv, FramesOK, Reads
<1> QED BY <1>1, Initially, Inductive, PTL DEF Spec

\* The search for the bracket that closes a list, which skips whatever ends a
\* comment, never leaves the list it searches (list.c:622-631).
THEOREM CommentsCorrect == Spec => []CommentsEnd
<1>1. IInv => CommentsEnd
  BY DEF IInv, FramesOK, Commented, CommentsEnd
<1> QED BY <1>1, Initially, Inductive, PTL DEF Spec
-----------------------------------------------------------------------------
\* The elements of lists: where they lie, and what their pointers point to.

LEMMA GreatestOf ==
  ASSUME NEW N \in Nat, NEW S \in SUBSET (0..N), S # {}
  PROVE  Max(S) \in S /\ \A j \in S : j <= Max(S)
<1> DEFINE D == {d \in 0..N : N - d \in S}
<1>1. PICK k : k \in S
  OBVIOUS
<1>2. N - k \in D
  <2>1. k \in 0..N /\ N - (N - k) = k
    BY <1>1
  <2> QED BY <1>1, <2>1
<1>3. PICK d \in D : \A b \in D : d <= b
  <2>1. D \in SUBSET Nat
    OBVIOUS
  <2> HIDE DEF D
  <2> QED BY <1>2, <2>1, LeastOf
<1>4. ASSUME NEW j \in S PROVE j <= N - d
  <2>1. j \in 0..N /\ N - (N - j) = j
    OBVIOUS
  <2>2. N - j \in D
    BY <2>1
  <2>3. d <= N - j /\ d \in 0..N
    BY <1>3, <2>2
  <2> HIDE DEF D
  <2> QED BY <2>1, <2>3
<1>5. N - d \in S
  BY <1>3
<1>6. \E x \in S : \A y \in S : x >= y
  BY <1>4, <1>5
<1>7. Max(S) \in S /\ \A y \in S : Max(S) >= y
  BY <1>6 DEF Max
<1> QED BY <1>7

\* A place of a program, which is not the end of a line.
PlaceOK(o, at) == at \in 1..(Len(o) - 1) /\ o[at] # NL

\* The program as written, the text as it stands and the calls that read it.
Ctx(o, t, q) == [o |-> o, t |-> t, q |-> q]

\* Behind the place v are the characters u, and a NUL, unless a call is yet to
\* write it there.  No other NUL is due within them, and nobody reads there.
Held(c, v, u) ==
  /\ v \in Nat \ {0} /\ u \in Seq(Chars \ {NUL})
  /\ v + Len(u) <= Len(c.t)
  /\ \A j \in 1..Len(u) : c.t[v + j - 1] = u[j]
  /\ c.t[v + Len(u)] = NUL \/ \E k \in 1..Len(c.q) : c.q[k].last = v + Len(u)
  /\ c.q # << >> => v + Len(u) <= c.q[Len(c.q)].s
  /\ \A k \in 1..Len(c.q) : c.q[k].last \notin v..(v + Len(u) - 1)

Good(c, e) ==
  PlaceOK(c.o, e.at) /\ (e.kind \in {"ident", "string"} => Held(c, e.value, Says(c.o, e)))

\* A set of good elements, with the elements of its lists.
Closed(c, S) ==
  \A e \in S : Good(c, e) /\ (e.kind = "list" => Range(e.value) \subseteq S)

ElementOK(c, e)  == \E S : Closed(c, S) /\ e \in S
Placed(c, items) == IsSeq(items) /\ \E S : Closed(c, S) /\ Range(items) \subseteq S

LEMMA ClosedBoth ==
  ASSUME NEW c, NEW S, NEW T, Closed(c, S), Closed(c, T)
  PROVE  Closed(c, S \cup T)
BY DEF Closed

LEMMA AppendRange ==
  ASSUME NEW q, IsSeq(q), NEW e
  PROVE  Range(Append(q, e)) \subseteq Range(q) \cup {e}
<1>1. PICK r : r = Append(q, e)
  OBVIOUS
<1>2. PICK n \in Nat : n = Len(q)
  BY NotEmpty
<1>3. DOMAIN r = 1..(n + 1) /\ r[n + 1] = e /\ \A i \in 1..n : r[i] = q[i]
  BY <1>1, <1>2, AppendSeq DEF IsSeq
<1>4. DOMAIN q = 1..n
  BY <1>2 DEF IsSeq
<1> QED BY <1>1, <1>3, <1>4 DEF Range

LEMMA PartRange ==
  ASSUME NEW q, IsSeq(q), NEW a \in Nat \ {0}, NEW b \in Nat, b <= Len(q)
  PROVE  IsSeq(SubSeq(q, a, b)) /\ Range(SubSeq(q, a, b)) \subseteq Range(q)
<1>1. PICK X : q \in Seq(X)
  BY DEF IsSeq
<1>2. PICK n \in Nat : n = Len(q)
  BY <1>1
<1>3. PICK r : r = SubSeq(q, a, b)
  OBVIOUS
<1>4. r = [i \in 1..(1 + b - a) |-> q[i + a - 1]]
  BY <1>3 DEF SubSeq
<1>5. \A i \in 1..(1 + b - a) : i + a - 1 \in 1..n
  BY <1>2
<1>6. \A i \in 1..(1 + b - a) : q[i + a - 1] \in Range(q) \cap X
  BY <1>1, <1>2, <1>5 DEF Range
<1>7. r \in Seq(X)
  BY <1>1, <1>3
<1>8. \A i \in DOMAIN r : r[i] \in Range(q)
  BY <1>4, <1>6
<1> QED BY <1>3, <1>7, <1>8 DEF IsSeq, Range

LEMMA ElementIs ==
  ASSUME NEW c, NEW e, Good(c, e), e.kind # "list"
  PROVE  ElementOK(c, e)
<1>1. Closed(c, {e})
  BY DEF Closed
<1> QED BY <1>1 DEF ElementOK

LEMMA LeafOK ==
  ASSUME NEW c, NEW at, PlaceOK(c.o, at), NEW k, k \notin {"list", "ident", "string"}, NEW v
  PROVE  ElementOK(c, [kind |-> k, at |-> at, value |-> v])
<1>1. PICK e : e = [kind |-> k, at |-> at, value |-> v]
  OBVIOUS
<1>2. e.at = at /\ e.kind = k
  BY <1>1
<1>3. Good(c, e)
  BY <1>2 DEF Good
<1> QED BY <1>1, <1>2, <1>3, ElementIs

LEMMA ListOK ==
  ASSUME NEW c, NEW at, PlaceOK(c.o, at), NEW items, Placed(c, items)
  PROVE  ElementOK(c, List(items, at))
<1>1. PICK S : Closed(c, S) /\ Range(items) \subseteq S
  BY DEF Placed
<1>2. PICK e : e = List(items, at)
  OBVIOUS
<1>3. e.at = at /\ e.value = items /\ e.kind = "list"
  BY <1>2 DEF List
<1>4. Good(c, e)
  BY <1>3 DEF Good
<1>5. Closed(c, S \cup {e})
  BY <1>1, <1>3, <1>4 DEF Closed
<1> QED BY <1>2, <1>5 DEF ElementOK

LEMMA EmptyPlaced ==
  ASSUME NEW c
  PROVE  Placed(c, << >>)
<1>1. IsSeq(<< >>) /\ Range(<< >>) = {}
  BY DEF IsSeq, Range
<1>2. Closed(c, {})
  BY DEF Closed
<1> QED BY <1>1, <1>2 DEF Placed

LEMMA AppendPlaced ==
  ASSUME NEW c, NEW items, Placed(c, items), NEW e, ElementOK(c, e)
  PROVE  Placed(c, Append(items, e))
<1>1. PICK S : Closed(c, S) /\ Range(items) \subseteq S
  BY DEF Placed
<1>2. PICK T : Closed(c, T) /\ e \in T
  BY DEF ElementOK
<1>3. IsSeq(Append(items, e)) /\ Range(Append(items, e)) \subseteq S \cup T
  BY <1>1, <1>2, AppendSeq, AppendRange DEF Placed
<1> QED BY <1>1, <1>2, <1>3, ClosedBoth DEF Placed

LEMMA PartPlaced ==
  ASSUME NEW c, NEW items, Placed(c, items),
         NEW a \in Nat \ {0}, NEW b \in Nat, b <= Len(items)
  PROVE  Placed(c, SubSeq(items, a, b))
<1>1. PICK S : Closed(c, S) /\ Range(items) \subseteq S
  BY DEF Placed
<1>2. IsSeq(SubSeq(items, a, b)) /\ Range(SubSeq(items, a, b)) \subseteq S
  BY <1>1, PartRange DEF Placed
<1> QED BY <1>1, <1>2 DEF Placed

LEMMA ElementPlaced ==
  ASSUME NEW c, NEW items, Placed(c, items), NEW k \in Nat \ {0}, k <= Len(items)
  PROVE  PlaceOK(c.o, items[k].at)
<1>1. PICK S : Closed(c, S) /\ Range(items) \subseteq S
  BY DEF Placed
<1>2. k \in DOMAIN items
  BY DEF Placed, IsSeq
<1>3. items[k] \in S
  BY <1>1, <1>2 DEF Range
<1> QED BY <1>1, <1>3 DEF Closed, Good

LEMMA GroupPlaced ==
  ASSUME NEW c, NEW items, Placed(c, items), NEW k \in Nat \ {0}, k <= Len(items)
  PROVE  Placed(c, Group(items, k))
<1>1. PICK n \in Nat : n = Len(items)
  BY NotEmpty DEF Placed
<1>2. Placed(c, SubSeq(items, 1, k - 1))
  BY <1>1, PartPlaced
<1>3. Placed(c, SubSeq(items, k, Len(items)))
  BY <1>1, PartPlaced
<1>4. ElementOK(c, List(SubSeq(items, k, Len(items)), items[k].at))
  BY <1>3, ElementPlaced, ListOK
<1> QED BY <1>2, <1>4, AppendPlaced DEF Group

LEMMA BehindPlaced ==
  ASSUME NEW c, NEW items, Placed(c, items), NEW e, ElementOK(c, e)
  PROVE  Placed(c, <<e>> \o items) /\ Placed(c, << >> \o items)
<1>1. PICK S : Closed(c, S) /\ Range(items) \subseteq S
  BY DEF Placed
<1>2. PICK T : Closed(c, T) /\ e \in T
  BY DEF ElementOK
<1>3. PICK X : items \in Seq(X)
  BY DEF Placed, IsSeq
<1>4. PICK n \in Nat : n = Len(items) /\ DOMAIN items = 1..n
  BY <1>3
<1>5. IsSeq(<<e>> \o items) /\ Range(<<e>> \o items) \subseteq S \cup T
  <2>1. PICK r : r = <<e>> \o items
    OBVIOUS
  <2>2. items \in Seq(X \cup {e}) /\ <<e>> \in Seq(X \cup {e})
    BY <1>3
  <2>3. r \in Seq(X \cup {e})
    BY <2>1, <2>2
  <2>4. DOMAIN r = 1..(n + 1) /\ \A i \in 1..(n + 1) : r[i] = IF i = 1 THEN e ELSE items[i - 1]
    BY <1>3, <1>4, <2>1
  <2>5. \A i \in 1..n : items[i] \in S
    BY <1>1, <1>4 DEF Range
  <2>6. \A i \in DOMAIN r : r[i] \in S \cup T
    <3> SUFFICES ASSUME NEW i \in 1..(n + 1) PROVE r[i] \in S \cup T
      BY <2>4
    <3>1. CASE i = 1
      BY <1>2, <2>4, <3>1
    <3>2. CASE i # 1
      <4>1. i - 1 \in 1..n /\ r[i] = items[i - 1]
        BY <2>4, <3>2
      <4> QED BY <2>5, <4>1
    <3> QED BY <3>1, <3>2
  <2> QED BY <2>1, <2>3, <2>6 DEF IsSeq, Range
<1>6. << >> \o items = items
  BY <1>3
<1> QED BY <1>1, <1>2, <1>5, <1>6, ClosedBoth DEF Placed

LEMMA TriplePlaced ==
  ASSUME NEW c, NEW x, ElementOK(c, x), NEW y, ElementOK(c, y), NEW z, ElementOK(c, z)
  PROVE  Placed(c, <<x, y, z>>)
<1>1. PICK S, T, U : /\ Closed(c, S) /\ x \in S
                     /\ Closed(c, T) /\ y \in T
                     /\ Closed(c, U) /\ z \in U
  BY DEF ElementOK
<1>2. Closed(c, (S \cup T) \cup U)
  BY <1>1, ClosedBoth
<1>3. PICK q : q = <<x, y, z>>
  OBVIOUS
<1>4. q \in Seq({x, y, z}) /\ DOMAIN q = 1..3 /\ q[1] = x /\ q[2] = y /\ q[3] = z
  BY <1>3
<1>5. Range(q) \subseteq (S \cup T) \cup U
  BY <1>1, <1>4 DEF Range
<1> QED BY <1>2, <1>3, <1>4, <1>5 DEF IsSeq, Placed

LEMMA MemberOK ==
  ASSUME NEW c, NEW at, PlaceOK(c.o, at), NEW object, ElementOK(c, object),
         NEW t, NEW colon, ElementOK(c, Pointer(colon + 1, at))
  PROVE  ElementOK(c, Member(t, object, colon, at))
<1>1. PICK name : name = IF IsNumber(t, colon + 1) THEN NumberAt(t, colon + 1, at)
                                                   ELSE Pointer(colon + 1, at)
  OBVIOUS
<1>2. ElementOK(c, MembName(at))
  BY LeafOK DEF MembName
<1>3. ElementOK(c, name)
  <2>1. ElementOK(c, NumberAt(t, colon + 1, at))
    BY LeafOK DEF NumberAt, Literal
  <2> QED BY <1>1, <2>1
<1> QED BY <1>1, <1>2, <1>3, TriplePlaced, ListOK DEF Member

\* transform_identifier makes lists of names.
LEMMA TransformedOK ==
  ASSUME NEW c, NEW t, NEW i \in Nat, NEW n \in Nat, n = Len(t), NEW at, PlaceOK(c.o, at),
         WordEnd(t, i) \in i..n, ElementOK(c, Pointer(i, at)),
         \A j \in Separators(t, i) : ElementOK(c, Pointer(j + 1, at))
  PROVE  ElementOK(c, Transformed(t, i, at).item)
<1> DEFINE colons == Separators(t, i)
           done   == CutAll(t, colons)
           B(f, j) == IF {k \in colons : k < j} = {} THEN Pointer(i, at)
                      ELSE Member(done, f[Max({k \in colons : k < j})],
                                  Max({k \in colons : k < j}), at)
           upto == CHOOSE f : f = [j \in i..n |-> B(f, j)]
<1>1. Transformed(t, i, at).item = upto[WordEnd(t, i)]
  BY DEF Transformed
<1>2. ASSUME NEW j \in i..n, {k \in colons : k < j} # {}
      PROVE  Max({k \in colons : k < j}) \in colons \cap i..(j - 1)
  <2>1. PICK S : S = {k \in colons : k < j}
    OBVIOUS
  <2>2. S \in SUBSET (0..n) /\ S # {}
    <3>1. \A k \in colons : k \in i..(WordEnd(t, i) - 1)
      BY DEF Separators, CutColons, Colons
    <3>2. \A k \in colons : k \in 0..n
      BY <3>1
    <3> QED BY <1>2, <2>1, <3>2
  <2>3. Max(S) \in S
    BY <2>2, GreatestOf
  <2>4. S \in SUBSET (i..(j - 1))
    <3>1. \A k \in colons : k \in i..(WordEnd(t, i) - 1)
      BY DEF Separators, CutColons, Colons
    <3>2. \A k \in S : k \in i..n /\ k < j
      BY <2>1, <3>1
    <3> QED BY <3>2
  <2> QED BY <2>1, <2>3, <2>4
<1>3. ASSUME NEW f, NEW g, NEW j \in i..n, \A k \in i..(j - 1) : f[k] = g[k]
      PROVE  B(f, j) = B(g, j)
  BY <1>2, <1>3
<1>4. ASSUME NEW f, NEW j \in i..n,
             \A k \in i..(j - 1) : ElementOK(c, f[k])
      PROVE  ElementOK(c, B(f, j))
  <2>1. ElementOK(c, Pointer(i, at))
    OBVIOUS
  <2>2. ASSUME {k \in colons : k < j} # {}
        PROVE  ElementOK(c, Member(done, f[Max({k \in colons : k < j})],
                                   Max({k \in colons : k < j}), at))
    <3>1. ElementOK(c, f[Max({k \in colons : k < j})])
      BY <1>2, <1>4, <2>2
    <3>2. ElementOK(c, Pointer(Max({k \in colons : k < j}) + 1, at))
      BY <1>2, <2>2
    <3> HIDE DEF done, colons
    <3> QED BY <3>1, <3>2, MemberOK
  <2> HIDE DEF done
  <2> QED BY <2>1, <2>2
<1> HIDE DEF B
\* There is such a function: else there were a first place that none reaches.
<1>5. \E f : f = [j \in i..n |-> B(f, j)]
  <2> DEFINE Lacks == {m \in Nat : ~\E f : f = [j \in i..m |-> B(f, j)]}
  <2>1. n \notin Lacks
    <3> SUFFICES ASSUME n \in Lacks PROVE FALSE
      OBVIOUS
    <3>1. PICK m : m = Min({a \in 0..n : a \in Lacks})
      OBVIOUS
    <3>2. m \in 0..n /\ m \in Lacks /\ \A a \in 0..n : a \in Lacks => m <= a
      <4> DEFINE S == {a \in 0..n : a \in Lacks}
      <4>1. S \in SUBSET Nat /\ S # {}
        OBVIOUS
      <4> HIDE DEF S
      <4>2. m \in S /\ \A a \in S : m <= a
        BY <3>1, <4>1, LeastOf DEF S
      <4> QED BY <4>2 DEF S
    <3>3. i <= m
      <4> SUFFICES ASSUME m < i PROVE FALSE
        BY <3>2
      <4>1. i..m = {}
        BY <3>2
      <4>2. PICK f : f = [j \in i..m |-> i]
        OBVIOUS
      <4>3. f = [j \in i..m |-> B(f, j)]
        BY <4>1, <4>2
      <4> QED BY <3>2, <4>3
    <3>4. PICK f : f = [j \in i..(m - 1) |-> B(f, j)]
      <4>1. CASE m = 0
        <5>1. i..(m - 1) = {}
          BY <3>3, <4>1
        <5>2. PICK f : f = [j \in i..(m - 1) |-> i]
          OBVIOUS
        <5>3. f = [j \in i..(m - 1) |-> B(f, j)]
          BY <5>1, <5>2
        <5> QED BY <5>3
      <4>2. CASE m # 0
        <5>1. m - 1 \in 0..n /\ ~(m <= m - 1)
          BY <3>2, <4>2
        <5>2. m - 1 \notin Lacks /\ m - 1 \in Nat
          <6> HIDE DEF Lacks
          <6> QED BY <3>2, <5>1
        <5> QED BY <5>2
      <4> QED BY <4>1, <4>2
    <3>5. PICK g : g = [j \in i..m |-> IF j < m THEN f[j] ELSE B(f, m)]
      OBVIOUS
    <3>6. ASSUME NEW j \in i..m PROVE g[j] = B(g, j)
      <4>1. \A k \in i..(j - 1) : f[k] = g[k]
        BY <3>2, <3>5
      <4>2. B(f, j) = B(g, j)
        BY <1>3, <3>2, <4>1
      <4>3. CASE j < m
        <5>1. j \in i..(m - 1)
          BY <3>2, <4>3
        <5>2. f[j] = B(f, j)
          BY <3>4, <5>1
        <5> QED BY <3>5, <4>2, <4>3, <5>2
      <4>4. CASE j = m
        <5>1. g[j] = B(f, m)
          BY <3>2, <3>5, <4>4
        <5> QED BY <4>2, <4>4, <5>1
      <4> QED BY <3>2, <4>3, <4>4
    <3>7. g = [j \in i..m |-> g[j]]
      BY <3>5
    <3>8. g = [j \in i..m |-> B(g, j)]
      BY <3>6, <3>7
    <3> QED BY <3>2, <3>8
  <2> QED BY <2>1
<1>6. \A j \in i..n : upto[j] = B(upto, j)
  <2>1. upto = [j \in i..n |-> B(upto, j)]
    BY <1>5
  <2> HIDE DEF upto
  <2> QED BY <2>1
<1> HIDE DEF upto
<1>7. \A j \in i..n : ElementOK(c, upto[j])
  <2> DEFINE Bad == {j \in i..n : ~ElementOK(c, upto[j])}
  <2> SUFFICES ASSUME Bad # {} PROVE FALSE
    OBVIOUS
  <2>1. Bad \in SUBSET Nat
    OBVIOUS
  <2>2. PICK m : m = Min(Bad)
    OBVIOUS
  <2>3. m \in Bad /\ \A j \in Bad : m <= j
    <3> HIDE DEF Bad
    <3> QED BY <2>1, <2>2, LeastOf
  <2>4. \A k \in i..(m - 1) : k \in i..n /\ ~(m <= k)
    BY <2>3
  <2>5. \A k \in i..(m - 1) : ElementOK(c, upto[k])
    BY <2>3, <2>4
  <2> QED BY <1>4, <1>6, <2>3, <2>5
<1> QED BY <1>1, <1>7
-----------------------------------------------------------------------------
\* What is written and which calls go on leave every name and string whole:
\* from the context c to the context d, places that have been read are
\* overwritten only with the NUL that they wait for.
Passes(c, d) ==
  LET s == c.q[Len(c.q)].s
      Lasts(q) == {q[k].last : k \in 1..Len(q)}
  IN /\ d.o = c.o /\ c.q # << >> /\ s \in Nat \ {0} /\ Len(d.t) = Len(c.t)
     /\ \A j \in 1..Len(c.t) :
          j < s => d.t[j] = c.t[j] \/ (d.t[j] = NUL /\ j \in Lasts(c.q))
     /\ c.t[s] = NUL => d.t[s] = NUL
     /\ \A j \in Lasts(c.q) : j # 0 => d.t[j] = NUL \/ j \in Lasts(d.q)
     /\ \A j \in Lasts(d.q) : j = 0 \/ s <= j \/ j \in Lasts(c.q)
     /\ d.q # << >> => d.q[Len(d.q)].s \in Nat /\ s <= d.q[Len(d.q)].s

LEMMA HeldPasses ==
  ASSUME NEW c, NEW d, Passes(c, d), Len(c.t) \in Nat,
         \A k \in 1..Len(d.q) : d.q[k].last \in Nat,
         NEW v, NEW u, Held(c, v, u)
  PROVE  Held(d, v, u)
<1>1. PICK s : s = c.q[Len(c.q)].s /\ s \in Nat \ {0}
  BY DEF Passes
<1>2. PICK N \in Nat : N = Len(c.t) /\ N = Len(d.t)
  BY DEF Passes
<1>3. PICK n \in Nat : n = Len(u)
  BY DEF Held
<1>4. PICK x \in Nat : x = v + Len(u)
  BY <1>3 DEF Held
<1>5. v \in Nat \ {0} /\ x = v + n /\ x <= N /\ x <= s
  BY <1>1, <1>2, <1>3, <1>4 DEF Held, Passes
<1>6. \A j \in v..(x - 1) : \A k \in 1..Len(c.q) : c.q[k].last # j
  <2>1. \A k \in 1..Len(c.q) : c.q[k].last \notin v..(x - 1)
    BY <1>4 DEF Held
  <2> QED BY <2>1
<1>7. \A j \in v..(x - 1) : d.t[j] = c.t[j]
  <2>1. SUFFICES ASSUME NEW j \in v..(x - 1) PROVE d.t[j] = c.t[j]
    OBVIOUS
  <2>2. j \in 1..N /\ j < s
    BY <1>1, <1>5
  <2>3. j \notin {c.q[k].last : k \in 1..Len(c.q)}
    BY <1>6
  <2> QED BY <1>1, <1>2, <2>2, <2>3 DEF Passes
<1>8. ASSUME NEW j \in 1..n PROVE d.t[v + j - 1] = u[j]
  <2>1. v + j - 1 \in v..(x - 1)
    BY <1>5
  <2>2. c.t[v + j - 1] = u[j]
    BY <1>3 DEF Held
  <2> QED BY <1>7, <2>1, <2>2
<1>9. d.t[x] = NUL \/ \E k \in 1..Len(d.q) : d.q[k].last = x
  <2>1. CASE c.t[x] = NUL
    <3>1. CASE x < s
      <4>1. x \in 1..N
        BY <1>5
      <4> QED BY <1>1, <1>2, <2>1, <3>1, <4>1 DEF Passes
    <3>2. CASE x = s
      BY <1>1, <2>1, <3>2 DEF Passes
    <3> QED BY <1>1, <1>5, <3>1, <3>2
  <2>2. CASE \E k \in 1..Len(c.q) : c.q[k].last = x
    <3>1. x \in {c.q[k].last : k \in 1..Len(c.q)} /\ x # 0
      BY <1>5, <2>2
    <3>2. d.t[x] = NUL \/ x \in {d.q[k].last : k \in 1..Len(d.q)}
      BY <3>1 DEF Passes
    <3> QED BY <3>2
  <2> QED BY <1>4, <2>1, <2>2 DEF Held
<1>10. d.q # << >> => x <= d.q[Len(d.q)].s
  BY <1>1, <1>5 DEF Passes
<1>11. ASSUME NEW k \in 1..Len(d.q), d.q[k].last \in v..(x - 1) PROVE FALSE
  <2>1. PICK j \in Nat : j = d.q[k].last
    OBVIOUS
  <2>2. j \in v..(x - 1) /\ j \in {d.q[m].last : m \in 1..Len(d.q)}
    BY <1>11, <2>1
  <2>3. j = 0 \/ s <= j \/ j \in {c.q[m].last : m \in 1..Len(c.q)}
    BY <1>1, <2>2 DEF Passes
  <2>4. j # 0 /\ ~(s <= j)
    BY <1>1, <1>5, <2>2
  <2> QED BY <1>6, <2>2, <2>3, <2>4
<1> QED BY <1>2, <1>3, <1>4, <1>5, <1>8, <1>9, <1>10, <1>11 DEF Held

CtxOK(c) == /\ Len(c.t) \in Nat
            /\ \A k \in 1..Len(c.q) : c.q[k].last \in Nat

LEMMA ClosedPasses ==
  ASSUME NEW c, NEW d, CtxOK(c), CtxOK(d), Passes(c, d), NEW S, Closed(c, S)
  PROVE  Closed(d, S)
<1>1. ASSUME NEW e \in S PROVE Good(d, e)
  <2>1. Good(c, e) /\ d.o = c.o
    BY DEF Closed, Passes
  <2>2. CASE e.kind \in {"ident", "string"}
    <3>1. Held(c, e.value, Says(c.o, e))
      BY <2>1, <2>2 DEF Good
    <3>2. Held(d, e.value, Says(c.o, e))
      BY <3>1, HeldPasses DEF CtxOK
    <3> QED BY <2>1, <3>2 DEF Good
  <2>3. CASE e.kind \notin {"ident", "string"}
    BY <2>1, <2>3 DEF Good
  <2> QED BY <2>2, <2>3
<1> QED BY <1>1 DEF Closed

LEMMA PlacedPasses ==
  ASSUME NEW c, NEW d, CtxOK(c), CtxOK(d), Passes(c, d), NEW items, Placed(c, items)
  PROVE  Placed(d, items)
<1>1. PICK S : Closed(c, S) /\ Range(items) \subseteq S
  BY DEF Placed
<1>2. Closed(d, S)
  BY <1>1, ClosedPasses
<1> QED BY <1>1, <1>2 DEF Placed

\* u is t but for places from i on.
SameBefore(t, u, i) ==
  Len(u) = Len(t) /\ \A j \in 1..Len(t) : j < i => u[j] = t[j]

LEMMA BeforeTrans ==
  ASSUME NEW t, NEW u, NEW v, NEW i, SameBefore(t, u, i), SameBefore(u, v, i)
  PROVE  SameBefore(t, v, i)
BY DEF SameBefore

LEMMA WrittenBefore ==
  ASSUME NEW t \in Seq(Chars), NEW u, NEW i \in Nat,
         u = [k \in 1..Len(t) |-> u[k]],
         \A k \in 1..Len(t) : k < i => u[k] = t[k]
  PROVE  SameBefore(t, u, i)
<1>1. PICK n \in Nat : n = Len(t)
  OBVIOUS
<1>2. Len(u) = n
  BY <1>1
<1> QED BY <1>1, <1>2 DEF SameBefore

LEMMA CutBefore ==
  ASSUME NEW t \in Seq(Chars), NEW i \in Nat, NEW j \in Nat, i <= j
  PROVE  SameBefore(t, Cut(t, j), i)
<1>1. PICK u : u = Cut(t, j)
  OBVIOUS
<1>2. u = [k \in 1..Len(t) |-> IF k = j THEN NUL ELSE t[k]]
  BY <1>1, ElementsOf DEF Cut
<1>3. ASSUME NEW k \in 1..Len(t), k < i PROVE u[k] = t[k]
  <2>1. k # j
    BY <1>3
  <2> QED BY <1>2, <2>1
<1> QED BY <1>1, <1>2, <1>3, WrittenBefore

LEMMA PreparedBefore ==
  ASSUME NEW t \in Seq(Chars), NEW i \in Nat, NEW u, Len(u) \in Nat
  PROVE  SameBefore(t, Prepared(t, i, u), i)
<1>1. PICK n \in Nat : n = Len(u)
  OBVIOUS
<1>2. PICK w : w = Prepared(t, i, u)
  OBVIOUS
<1>3. w = [j \in 1..Len(t) |-> IF j \in i..(i + n - 1) THEN u[j - i + 1]
                               ELSE IF j = i + n THEN NUL ELSE t[j]]
  BY <1>1, <1>2 DEF Prepared
<1>4. ASSUME NEW k \in 1..Len(t), k < i PROVE w[k] = t[k]
  <2>1. k \notin i..(i + n - 1) /\ k # i + n
    BY <1>4
  <2> QED BY <1>3, <2>1
<1> QED BY <1>2, <1>3, <1>4, WrittenBefore

LEMMA AlikeEnds ==
  ASSUME NEW t \in Seq(Chars), NEW o \in Seq(Chars), NEW i \in Nat \ {0}, NEW e \in Nat,
         i <= e, e <= Len(t), e <= Len(o),
         t[e] \in Boundary \cup {NUL}, o[e] \in Boundary \cup {NUL},
         \A j \in i..(e - 1) : t[j] \in Boundary \cup {NUL} <=> o[j] \in Boundary \cup {NUL}
  PROVE  WordEnd(t, i) = WordEnd(o, i)
<1> DEFINE B == Boundary \cup {NUL}
<1>1. PICK a : a = WordEnd(t, i)
  OBVIOUS
<1>2. PICK b : b = WordEnd(o, i)
  OBVIOUS
<1>3. a \in i..e /\ t[a] \in B /\ \A k \in i..(a - 1) : t[k] \notin B
  <2>1. PICK n \in Nat : n = Len(t)
    OBVIOUS
  <2>2. e \in i..Len(t)
    BY <2>1
  <2> QED BY <1>1, <2>2, FirstProps DEF WordEnd
<1>4. b \in i..e /\ o[b] \in B /\ \A k \in i..(b - 1) : o[k] \notin B
  <2>1. PICK n \in Nat : n = Len(o)
    OBVIOUS
  <2>2. e \in i..Len(o)
    BY <2>1
  <2> QED BY <1>2, <2>2, FirstProps DEF WordEnd
<1>5. ASSUME a < b PROVE FALSE
  <2>1. a \in i..(b - 1) /\ a \in i..(e - 1)
    BY <1>3, <1>4, <1>5
  <2> QED BY <1>3, <1>4, <2>1
<1>6. ASSUME b < a PROVE FALSE
  <2>1. b \in i..(a - 1) /\ b \in i..(e - 1)
    BY <1>3, <1>4, <1>6
  <2> QED BY <1>3, <1>4, <2>1
<1>7. a = b
  BY <1>3, <1>4, <1>5, <1>6
<1> QED BY <1>1, <1>2, <1>7

LEMMA AlikeSeparators ==
  ASSUME NEW t, NEW o, NEW i \in Nat \ {0}, NEW w \in Nat, WordEnd(t, i) = w, WordEnd(o, i) = w,
         \A j \in i..w : /\ t[j] = ":" <=> o[j] = ":"
                         /\ t[j] \in Boundary \cup {NUL} <=> o[j] \in Boundary \cup {NUL}
  PROVE  Separators(t, i) = Separators(o, i) /\ Separators(t, i) \subseteq (i + 1)..(w - 1)
<1> DEFINE Cuts(u) == {j \in Colons(u, i) : \A k \in Colons(u, i) : k >= j =>
                         k # i /\ u[k + 1] \notin Boundary \cup {NUL, ":"}}
<1>1. Colons(t, i) = Colons(o, i) /\ \A k \in Colons(t, i) : k \in i..(w - 1)
  BY DEF Colons
<1>2. \A k \in Colons(t, i) : t[k + 1] \in Boundary \cup {NUL, ":"}
                              <=> o[k + 1] \in Boundary \cup {NUL, ":"}
  <2>1. SUFFICES ASSUME NEW k \in Colons(t, i)
                 PROVE  t[k + 1] \in Boundary \cup {NUL, ":"}
                        <=> o[k + 1] \in Boundary \cup {NUL, ":"}
    OBVIOUS
  <2>2. k + 1 \in i..w
    BY <1>1
  <2> QED BY <2>2
<1>3. Cuts(t) = Cuts(o)
  BY <1>1, <1>2
<1>4. \A j \in Cuts(t) : j \in (i + 1)..(w - 1)
  <2>1. SUFFICES ASSUME NEW j \in Cuts(t) PROVE j \in (i + 1)..(w - 1)
    OBVIOUS
  <2>2. j \in i..(w - 1)
    BY <1>1
  <2>3. j # i
    BY <2>2
  <2> QED BY <2>2, <2>3
<1>5. Separators(t, i) = Cuts(t) /\ Separators(o, i) = Cuts(o)
  BY DEF Separators, CutColons
<1> QED BY <1>3, <1>4, <1>5

\* Where a call stands, no terminator is due in a word.
LastsOK(o, q) ==
  \A k \in 1..Len(q) :
    q[k].last # 0 => q[k].last <= q[Len(q)].s /\ o[q[k].last] \in Boundary \cup {NUL}

\* What a call reads ended at a bracket, or it is the whole program.
EndsOK(o, q) == \A k \in 1..Len(q) : o[q[k].end] \in Closers \cup {NUL}

\* The text after a word has been read, and the word's separators.
WordRead(t, f) ==
  Terminated(Underscored(t, f.s, WordEnd(t, f.s)), f.last)
NamesText(t, f) == CutAll(WordRead(t, f), Separators(WordRead(t, f), f.s))

\* Reading a word in place finds what is in the program: the same end, the same
\* separators, and between them the same characters, - being _.
LEMMA WordProps ==
  ASSUME NEW o \in Seq(Chars), NEW t \in Seq(Chars), Len(o) = Len(t),
         NEW f, IsCall(f), Reads(o, t, f), o[f.end] \in Closers \cup {NUL},
         t[f.s] \notin Boundary \cup {NUL}, f.last < f.s
  PROVE  /\ WordEnd(o, f.s) = WordEnd(t, f.s) /\ WordEnd(WordRead(t, f), f.s) = WordEnd(t, f.s)
         /\ o[WordEnd(t, f.s)] \in Boundary \cup {NUL}
         /\ Separators(WordRead(t, f), f.s) = Separators(o, f.s)
         /\ Separators(o, f.s) \subseteq (f.s + 1)..(WordEnd(t, f.s) - 1)
         /\ \A j \in f.s..(WordEnd(t, f.s) - 1) :
              /\ WordRead(t, f)[j] = IF o[j] = "-" THEN "_" ELSE o[j]
              /\ o[j] \notin Boundary \cup {NUL}
<1>1. PICK s \in Nat \ {0} : s = f.s
  BY CallFacts
<1>2. PICK end : end = WordEnd(t, s)
  OBVIOUS
<1>16. PICK N \in Nat : N = Len(t) /\ N = Len(o)
  OBVIOUS
<1>3. PICK t2 : t2 = WordRead(t, f)
  OBVIOUS
<1>4. f.end \in Nat /\ s <= f.end /\ f.end <= N /\ t[f.end] = NUL /\ f.last \in Nat
      /\ \A j \in s..(f.end - 1) : t[j] = o[j]
  BY <1>1, <1>16 DEF IsCall, Reads
<1>5. /\ end \in Nat \ {0} /\ s < end /\ end <= f.end
      /\ t[end] \in Boundary \cup {NUL} /\ SameFrom(t, t2, end)
  <2>1. f.end <= Len(t)
    BY <1>4, <1>16
  <2> QED BY <1>1, <1>2, <1>3, <1>4, <2>1, NamesCut DEF WordRead
<1>6. \A k \in s..(end - 1) : t[k] \notin Boundary \cup {NUL}
  <2>1. end \in s..Len(t)
    BY <1>4, <1>5, <1>16
  <2>2. \A k \in s..(First(t, s, Boundary \cup {NUL}) - 1) : t[k] \notin Boundary \cup {NUL}
    BY <1>5, <2>1, FirstProps
  <2> QED BY <1>2, <2>2 DEF WordEnd
<1>7. o[end] \in Boundary \cup {NUL}
  <2>1. CASE end = f.end
    BY <2>1 DEF Boundary
  <2>2. CASE end # f.end
    <3>1. end \in s..(f.end - 1)
      BY <1>4, <1>5, <2>2
    <3>2. t[end] = o[end]
      BY <1>4, <3>1
    <3> QED BY <1>5, <3>2
  <2> QED BY <2>1, <2>2
<1>8. \A k \in s..(end - 1) : o[k] = t[k]
  BY <1>4, <1>5
<1>9. t2 \in Seq(Chars) /\ Len(t2) = N /\ t2[end] = t[end]
  <2>1. end \in end..Len(t)
    BY <1>4, <1>5, <1>16
  <2> QED BY <1>5, <1>16, <2>1 DEF SameFrom
<1>10. ASSUME NEW k \in s..(end - 1) PROVE t2[k] = IF t[k] = "-" THEN "_" ELSE t[k]
  <2>1. PICK t1 : t1 = Underscored(t, s, end)
    OBVIOUS
  <2>2. k \in 1..N /\ k \in s..end /\ k # f.last
    BY <1>1, <1>4, <1>5
  <2>3. DOMAIN t1 = 1..N /\ t1[k] = IF t[k] = "-" THEN "_" ELSE t[k]
    BY <1>16, <2>1, <2>2 DEF Underscored
  <2>4. t2 = IF f.last = 0 THEN t1 ELSE [t1 EXCEPT ![f.last] = NUL]
    BY <1>1, <1>2, <1>3, <2>1 DEF WordRead, Terminated, Cut
  <2>5. t2[k] = t1[k]
    BY <2>2, <2>3, <2>4
  <2> QED BY <2>3, <2>5
<1>11. /\ "-" \notin Boundary \cup {NUL, ":"} /\ "_" \notin Boundary \cup {NUL, ":"}
       /\ ":" \notin Boundary \cup {NUL}
  BY DEF Boundary, Blank, Closers, NUL, NL
<1>12. \A j \in s..end : /\ t2[j] = ":" <=> o[j] = ":"
                         /\ t2[j] \in Boundary \cup {NUL} <=> o[j] \in Boundary \cup {NUL}
  <2>1. SUFFICES ASSUME NEW j \in s..end
                 PROVE  /\ t2[j] = ":" <=> o[j] = ":"
                        /\ t2[j] \in Boundary \cup {NUL} <=> o[j] \in Boundary \cup {NUL}
    OBVIOUS
  <2>2. CASE j = end
    <3>1. t2[j] \in Boundary \cup {NUL} /\ o[j] \in Boundary \cup {NUL}
      BY <1>5, <1>7, <1>9, <2>2
    <3> QED BY <1>11, <3>1
  <2>3. CASE j # end
    <3>1. j \in s..(end - 1)
      BY <1>5, <2>3
    <3>2. o[j] = t[j] /\ t2[j] = IF t[j] = "-" THEN "_" ELSE t[j]
      BY <1>8, <1>10, <3>1
    <3> QED BY <1>11, <3>2
  <2> QED BY <2>2, <2>3
<1>13. WordEnd(o, s) = end
  <2>1. end <= Len(t) /\ end <= Len(o) /\ s <= end
    BY <1>4, <1>5, <1>16
  <2>2. WordEnd(t, s) = WordEnd(o, s)
    BY <1>5, <1>7, <1>8, <2>1, AlikeEnds
  <2> QED BY <1>2, <2>2
<1>14. WordEnd(t2, s) = end
  <2>1. end <= Len(t2) /\ end <= Len(o) /\ s <= end
    BY <1>4, <1>5, <1>9, <1>16
  <2>2. t2[end] \in Boundary \cup {NUL}
    BY <1>5, <1>9
  <2>3. \A j \in s..(end - 1) : t2[j] \in Boundary \cup {NUL} <=> o[j] \in Boundary \cup {NUL}
    <3>1. \A j \in s..(end - 1) : j \in s..end
      BY <1>5
    <3> QED BY <1>12, <3>1
  <2>4. WordEnd(t2, s) = WordEnd(o, s)
    BY <1>5, <1>7, <1>9, <2>1, <2>2, <2>3, AlikeEnds
  <2> QED BY <1>13, <2>4
<1>15. /\ Separators(t2, s) = Separators(o, s)
       /\ Separators(t2, s) \subseteq (s + 1)..(end - 1)
  BY <1>5, <1>12, <1>13, <1>14, AlikeSeparators
<1> QED BY <1>1, <1>2, <1>3, <1>6, <1>7, <1>8, <1>10, <1>13, <1>14, <1>15

\* After it, the word is cut into the names that the program has.
LEMMA NameRead ==
  ASSUME NEW o \in Seq(Chars), NEW t \in Seq(Chars), Len(o) = Len(t),
         NEW f, IsCall(f), Reads(o, t, f), o[f.end] \in Closers \cup {NUL},
         t[f.s] \notin Boundary \cup {NUL}, f.last < f.s,
         NEW v, v = f.s \/ \E j \in Separators(o, f.s) : v = j + 1
  PROVE  /\ v \in Nat \ {0} /\ f.s <= v
         /\ Named(o, v, f.s) \in Seq(Chars \ {NUL})
         /\ v + Len(Named(o, v, f.s)) <= WordEnd(t, f.s)
         /\ \A j \in 1..Len(Named(o, v, f.s)) :
              NamesText(t, f)[v + j - 1] = Named(o, v, f.s)[j]
         /\ \/ NamesText(t, f)[v + Len(Named(o, v, f.s))] = NUL
            \/ v + Len(Named(o, v, f.s)) = WordEnd(t, f.s)
<1> DEFINE u == NamesText(t, f)
           name == Named(o, v, f.s)
<1>18. u = CutAll(WordRead(t, f), Separators(WordRead(t, f), f.s))
  BY DEF NamesText
<1>19. PICK N \in Nat : N = Len(t) /\ N = Len(o)
  OBVIOUS
<1>20. name = Named(o, v, f.s)
  OBVIOUS
<1> HIDE DEF u, name
<1>1. PICK s \in Nat \ {0} : s = f.s
  BY CallFacts
<1>2. PICK end \in Nat : end = WordEnd(t, s) /\ s < end /\ end <= N
  <2>1. f.end <= Len(t) /\ t[f.end] = NUL /\ f.end \in Nat
    BY <1>19, CallFacts DEF Reads
  <2>2. WordEnd(t, f.s) \in Nat \ {0} /\ f.s < WordEnd(t, f.s) /\ WordEnd(t, f.s) <= f.end
    BY <2>1, NamesCut
  <2> QED BY <1>1, <1>19, <2>1, <2>2
<1>3. PICK S : S = Separators(o, s)
  OBVIOUS
<1>4. PICK t2 : t2 = WordRead(t, f)
  OBVIOUS
<1>5. /\ WordEnd(o, s) = end /\ Separators(t2, s) = S /\ S \subseteq (s + 1)..(end - 1)
      /\ \A j \in s..(end - 1) : /\ t2[j] = IF o[j] = "-" THEN "_" ELSE o[j]
                                 /\ o[j] \notin Boundary \cup {NUL}
  <2>1. /\ WordEnd(o, f.s) = WordEnd(t, f.s) /\ WordEnd(WordRead(t, f), f.s) = WordEnd(t, f.s)
        /\ o[WordEnd(t, f.s)] \in Boundary \cup {NUL}
        /\ Separators(WordRead(t, f), f.s) = Separators(o, f.s)
        /\ Separators(o, f.s) \subseteq (f.s + 1)..(WordEnd(t, f.s) - 1)
        /\ \A j \in f.s..(WordEnd(t, f.s) - 1) :
              /\ WordRead(t, f)[j] = IF o[j] = "-" THEN "_" ELSE o[j]
              /\ o[j] \notin Boundary \cup {NUL}
    BY WordProps
  <2> QED BY <1>1, <1>2, <1>3, <1>4, <2>1
<1>6. v \in Nat \ {0} /\ s <= v /\ v <= end
  <2>1. CASE v = s
    BY <1>2, <2>1
  <2>2. CASE \E j \in S : v = j + 1
    <3>1. PICK j \in S : v = j + 1
      BY <2>2
    <3>2. j \in (s + 1)..(end - 1)
      BY <1>5
    <3> QED BY <1>2, <3>1, <3>2
  <2> QED BY <1>1, <1>3, <2>1, <2>2
<1>7. PICK x : x = NameEnd(o, v, s)
  OBVIOUS
<1>8. x \in v..end /\ (x \in S \/ x = end) /\ \A j \in S : j >= v => x <= j
  <2>1. PICK E : E = {j \in S : j >= v} \cup {end}
    OBVIOUS
  <2>2. \A j \in E : j \in (s + 1)..end
    <3>1. \A j \in S : j \in (s + 1)..(end - 1)
      BY <1>5
    <3> QED BY <1>2, <2>1, <3>1
  <2>6. E \in SUBSET Nat /\ E # {}
    BY <2>1, <2>2
  <2>3. Min(E) \in E /\ \A j \in E : Min(E) <= j
    BY <2>6, LeastOf
  <2>4. x = Min(E)
    BY <1>3, <1>5, <1>7, <2>1 DEF NameEnd
  <2>5. \A j \in E : j \in v..end
    <3>1. \A j \in E : j >= v
      BY <1>6, <2>1
    <3> QED BY <1>6, <2>2, <3>1
  <2> QED BY <2>1, <2>3, <2>4, <2>5
<1>9. PICK n \in Nat : n = x - v
  BY <1>6, <1>8
<1>10. name = [k \in 1..n |-> IF o[v + k - 1] = "-" THEN "_" ELSE o[v + k - 1]]
  BY <1>1, <1>7, <1>9, <1>20 DEF Named
<1>11. ASSUME NEW k \in 1..n
       PROVE  /\ name[k] \in Chars \ {NUL}
              /\ u[v + k - 1] = name[k]
  <2>1. PICK j : j = v + k - 1
    OBVIOUS
  <2>2. j \in s..(end - 1) /\ j \in 1..N /\ j >= v /\ j < x
    BY <1>2, <1>6, <1>8, <1>9, <2>1
  <2>3. j \notin S
    BY <1>8, <2>2
  <2>4. name[k] = t2[j]
    BY <1>5, <1>10, <2>1, <2>2
  <2>5. DOMAIN u = 1..N /\ u[j] = t2[j]
    <3>1. t2 \in Seq(Chars) /\ Len(t2) = N
      <4>1. f.end <= Len(t) /\ t[f.end] = NUL
        BY DEF Reads
      <4>2. SameFrom(t, t2, WordEnd(t, f.s))
        BY <1>4, <4>1, NamesCut DEF WordRead
      <4> QED BY <1>19, <4>2 DEF SameFrom
    <3>2. u = CutAll(t2, S)
      BY <1>1, <1>4, <1>5, <1>18
    <3> QED BY <2>2, <2>3, <3>1, <3>2 DEF CutAll
  <2>6. o[j] \in Chars /\ o[j] # NUL /\ "_" \in Chars /\ "_" # NUL
    BY <1>5, <1>19, <2>2, ElementsOf, SomeChars DEF NUL
  <2>7. name[k] \in Chars \ {NUL}
    BY <1>5, <2>2, <2>4, <2>6
  <2> QED BY <2>1, <2>4, <2>5, <2>7
<1>12. name \in Seq(Chars \ {NUL}) /\ Len(name) = n
  <2>1. DOMAIN name = 1..n /\ name = [k \in 1..n |-> name[k]]
    BY <1>10
  <2>2. \A k \in 1..n : name[k] \in Chars \ {NUL}
    BY <1>11
  <2>3. PICK C : C = Chars \ {NUL}
    OBVIOUS
  <2>4. [k \in 1..n |-> name[k]] \in Seq(C)
    BY <2>2, <2>3
  <2>5. Len([k \in 1..n |-> name[k]]) = n
    OBVIOUS
  <2> QED BY <2>1, <2>3, <2>4, <2>5
<1>13. x \in S => u[x] = NUL
  <2>1. SUFFICES ASSUME x \in S PROVE u[x] = NUL
    OBVIOUS
  <2>2. x \in 1..N
    BY <1>2, <1>6, <1>8
  <2>3. Len(t2) = N
    <3>1. f.end <= Len(t) /\ t[f.end] = NUL
      BY DEF Reads
    <3>2. SameFrom(t, t2, WordEnd(t, f.s))
      BY <1>4, <3>1, NamesCut DEF WordRead
    <3> QED BY <1>19, <3>2 DEF SameFrom
  <2> QED BY <1>1, <1>4, <1>5, <1>18, <2>1, <2>2, <2>3 DEF CutAll
<1>14. v + n = x
  BY <1>6, <1>8, <1>9
<1>15. v + Len(name) = x /\ x <= end
  BY <1>8, <1>12, <1>14
<1>16. u[x] = NUL \/ x = end
  BY <1>8, <1>13
<1>17. \A j \in 1..Len(name) : u[v + j - 1] = name[j]
  BY <1>11, <1>12
<1> QED BY <1>1, <1>2, <1>6, <1>12, <1>15, <1>16, <1>17 DEF u, name

LEMMA CtxFacts ==
  ASSUME NEW o, NEW t \in Seq(Chars), NEW q, FramesOK(o, t, q)
  PROVE  CtxOK(Ctx(o, t, q))
<1>1. \A k \in 1..Len(q) : q[k].last \in Nat
  BY DEF FramesOK, IsCall
<1> QED BY <1>1 DEF CtxOK, Ctx

\* The innermost call goes on, and if it has read an identifier, the one before
\* it is terminated.
LEMMA TopPasses ==
  ASSUME NEW o, NEW t \in Seq(Chars), NEW q, FramesOK(o, t, q), q # << >>, LastsOK(o, q),
         NEW f, IsCall(f), q[Len(q)].s <= f.s,
         NEW u, Len(u) = Len(t), t[q[Len(q)].s] = NUL => u[q[Len(q)].s] = NUL,
         \A j \in 1..Len(t) : j < q[Len(q)].s =>
           u[j] = t[j] \/ (u[j] = NUL /\ j = q[Len(q)].last),
         \/ f.last = q[Len(q)].last
         \/ /\ q[Len(q)].s <= f.last /\ o[f.last] \in Boundary \cup {NUL}
            /\ q[Len(q)].last = 0 \/ u[q[Len(q)].last] = NUL
  PROVE  /\ Passes(Ctx(o, t, q), Ctx(o, u, Replaced(q, Len(q), f)))
         /\ LastsOK(o, Replaced(q, Len(q), f))
<1>1. PICK n \in Nat : n = Len(q) /\ 1 <= n /\ IsSeq(q)
  BY NotEmpty DEF FramesOK
<1>2. PICK r : r = Replaced(q, n, f)
  OBVIOUS
<1>3. Len(r) = n /\ r[n] = f /\ \A i \in 1..n : i # n => r[i] = q[i]
  <2>1. n <= Len(q)
    BY <1>1
  <2> QED BY <1>1, <1>2, <2>1, ReplacedSeq
<1>4. \A i \in 1..n : IsCall(q[i])
  BY <1>1 DEF FramesOK
<1>5. PICK s : s = q[n].s /\ s \in Nat \ {0}
  BY <1>1, <1>4, CallFacts
<1>6. f.s \in Nat /\ f.last \in Nat /\ f.last <= f.s /\ s <= f.s
  BY <1>1, <1>5 DEF IsCall
<1>7. \A k \in 1..n : q[k].last \in Nat
  BY <1>4 DEF IsCall
<1>8. PICK old \in Nat : old = q[n].last
  BY <1>1, <1>7
<1>9. f.last = old \/ (s <= f.last /\ o[f.last] \in Boundary \cup {NUL} /\ (old = 0 \/ u[old] = NUL))
  BY <1>1, <1>5, <1>8
<1>10. PICK A : A = {q[k].last : k \in 1..n}
  OBVIOUS
<1>11. PICK B : B = {r[k].last : k \in 1..n}
  OBVIOUS
<1>12. old \in A /\ f.last \in B
  BY <1>1, <1>3, <1>8, <1>10, <1>11
<1>13. ASSUME NEW j \in A, j # 0 PROVE u[j] = NUL \/ j \in B
  <2>1. PICK k \in 1..n : j = q[k].last
    BY <1>10
  <2>2. CASE k # n
    <3>1. r[k].last = j
      BY <1>3, <2>1, <2>2
    <3> QED BY <1>11, <3>1
  <2>3. CASE k = n
    BY <1>8, <1>9, <1>12, <1>13, <2>1, <2>3
  <2> QED BY <2>2, <2>3
<1>14. ASSUME NEW j \in B PROVE s <= j \/ j \in A
  <2>1. PICK k \in 1..n : j = r[k].last
    BY <1>11
  <2>2. CASE k # n
    <3>1. q[k].last = j
      BY <1>3, <2>1, <2>2
    <3> QED BY <1>10, <3>1
  <2>3. CASE k = n
    BY <1>3, <1>9, <1>12, <2>1, <2>3
  <2> QED BY <2>2, <2>3
<1>15. \A j \in 1..Len(t) : j < s => u[j] = t[j] \/ (u[j] = NUL /\ j \in A)
  BY <1>1, <1>5, <1>8, <1>12
<1>16. t[s] = NUL => u[s] = NUL
  BY <1>1, <1>5
<1>17. Passes(Ctx(o, t, q), Ctx(o, u, r))
  BY <1>1, <1>3, <1>5, <1>6, <1>10, <1>11, <1>13, <1>14, <1>15, <1>16 DEF Passes, Ctx
<1>18. ASSUME NEW k \in 1..n, r[k].last # 0
       PROVE  r[k].last <= f.s /\ o[r[k].last] \in Boundary \cup {NUL}
  <2>1. ASSUME NEW m \in 1..n, q[m].last # 0
        PROVE  q[m].last <= f.s /\ o[q[m].last] \in Boundary \cup {NUL}
    <3>1. q[m].last <= s /\ o[q[m].last] \in Boundary \cup {NUL}
      BY <1>1, <1>5, <2>1 DEF LastsOK
    <3> QED BY <1>5, <1>6, <1>7, <3>1
  <2>2. CASE k # n
    BY <1>3, <1>18, <2>1, <2>2
  <2>3. CASE k = n /\ f.last = old
    <3>1. n \in 1..n /\ q[n].last = r[k].last
      BY <1>1, <1>3, <1>8, <2>3
    <3> QED BY <1>18, <2>1, <3>1
  <2>4. CASE k = n /\ f.last # old
    BY <1>3, <1>6, <1>9, <2>4
  <2> QED BY <2>2, <2>3, <2>4
<1>19. LastsOK(o, r)
  BY <1>3, <1>18 DEF LastsOK
<1> QED BY <1>1, <1>2, <1>17, <1>19

\* A list is read by a call of its own, which has no identifier yet.
LEMMA EnterPasses ==
  ASSUME NEW o, NEW t \in Seq(Chars), NEW q, FramesOK(o, t, q), q # << >>, LastsOK(o, q),
         NEW r, IsSeq(r), Len(r) = Len(q), \A k \in 1..Len(q) : r[k].last = q[k].last,
         NEW f, f.s \in Nat, q[Len(q)].s <= f.s, f.last = 0,
         NEW u, Len(u) = Len(t), t[q[Len(q)].s] = NUL => u[q[Len(q)].s] = NUL,
         \A j \in 1..Len(t) : j < q[Len(q)].s => u[j] = t[j]
  PROVE  /\ Passes(Ctx(o, t, q), Ctx(o, u, Append(r, f)))
         /\ LastsOK(o, Append(r, f))
<1>1. PICK n \in Nat : n = Len(q) /\ 1 <= n
  BY NotEmpty DEF FramesOK
<1>2. PICK v : v = Append(r, f)
  OBVIOUS
<1>3. Len(v) = n + 1 /\ v[n + 1] = f /\ \A i \in 1..n : v[i] = r[i]
  BY <1>1, <1>2, AppendSeq
<1>4. \A i \in 1..n : IsCall(q[i])
  BY <1>1 DEF FramesOK
<1>5. PICK s : s = q[n].s /\ s \in Nat \ {0}
  BY <1>1, <1>4, CallFacts
<1>6. \A k \in 1..n : q[k].last \in Nat
  BY <1>4 DEF IsCall
<1>7. PICK A : A = {q[k].last : k \in 1..n}
  OBVIOUS
<1>8. PICK B : B = {v[k].last : k \in 1..(n + 1)}
  OBVIOUS
<1>9. ASSUME NEW j \in A PROVE j \in B
  <2>1. PICK k \in 1..n : j = q[k].last
    BY <1>7
  <2>2. k \in 1..(n + 1) /\ v[k].last = j
    BY <1>1, <1>3, <2>1
  <2> QED BY <1>8, <2>2
<1>10. ASSUME NEW j \in B PROVE j = 0 \/ j \in A
  <2>1. PICK k \in 1..(n + 1) : j = v[k].last
    BY <1>8
  <2>2. CASE k \in 1..n
    BY <1>1, <1>3, <1>7, <2>1, <2>2
  <2>3. CASE k = n + 1
    BY <1>3, <2>1, <2>3
  <2> QED BY <1>1, <2>2, <2>3
<1>11. Passes(Ctx(o, t, q), Ctx(o, u, v))
  BY <1>1, <1>3, <1>5, <1>7, <1>8, <1>9, <1>10, SMTT(30) DEF Passes, Ctx
<1>12. ASSUME NEW k \in 1..(n + 1), v[k].last # 0
       PROVE  v[k].last <= f.s /\ o[v[k].last] \in Boundary \cup {NUL}
  <2>1. k \in 1..n
    BY <1>1, <1>3, <1>12
  <2>2. v[k].last = q[k].last
    BY <1>1, <1>3, <2>1
  <2>3. q[k].last <= s /\ o[q[k].last] \in Boundary \cup {NUL}
    BY <1>1, <1>5, <1>12, <2>1, <2>2 DEF LastsOK
  <2> QED BY <1>1, <1>5, <1>6, <2>1, <2>2, <2>3
<1>13. LastsOK(o, v)
  BY <1>3, <1>12 DEF LastsOK
<1> QED BY <1>2, <1>11, <1>13

\* At the end of its text the call terminates its last identifier.
LEMMA ReturnPasses ==
  ASSUME NEW o, NEW t \in Seq(Chars), NEW q, FramesOK(o, t, q), q # << >>, LastsOK(o, q),
         t[q[Len(q)].s] = NUL,
         NEW r, Len(r) = Len(q) - 1, Len(q) = 1 => r = << >>,
         \A k \in 1..(Len(q) - 1) : r[k].last = q[k].last /\ r[k].s = q[k].s,
         NEW u, u = Terminated(t, q[Len(q)].last)
  PROVE  Passes(Ctx(o, t, q), Ctx(o, u, r)) /\ LastsOK(o, r)
<1>1. PICK n \in Nat : n = Len(q) /\ 1 <= n
  BY NotEmpty DEF FramesOK
<1>2. \A i \in 1..n : IsCall(q[i])
  BY <1>1 DEF FramesOK
<1>3. PICK s : s = q[n].s /\ s \in Nat \ {0} /\ q[n].end \in Nat /\ s <= q[n].end
  BY <1>1, <1>2, CallFacts
<1>4. \A k \in 1..n : q[k].last \in Nat
  BY <1>2 DEF IsCall
<1>5. PICK old \in Nat : old = q[n].last
  BY <1>1, <1>4
<1>6. PICK N \in Nat : N = Len(t)
  OBVIOUS
<1>7. s <= N /\ t[s] = NUL /\ old <= s
  <2>1. q[n].end <= N
    BY <1>1, <1>6 DEF FramesOK, Reads
  <2>2. old <= s
    <3>1. IsCall(q[n])
      BY <1>1, <1>2
    <3>2. q[n].last <= q[n].s
      BY <3>1 DEF IsCall
    <3> QED BY <1>3, <1>5, <3>2
  <2> QED BY <1>1, <1>3, <2>1, <2>2
<1>8. Len(u) = N /\ \A j \in 1..N : u[j] = IF j = old /\ old # 0 THEN NUL ELSE t[j]
  <2>1. CASE old = 0
    BY <1>1, <1>5, <1>6, <2>1 DEF Terminated
  <2>2. CASE old # 0
    <3>1. u = [k \in 1..N |-> IF k = old THEN NUL ELSE t[k]]
      BY <1>1, <1>5, <1>6, <2>2, ElementsOf DEF Terminated, Cut
    <3> QED BY <1>6, <2>2, <3>1
  <2> QED BY <2>1, <2>2
<1>9. PICK A : A = {q[k].last : k \in 1..n}
  OBVIOUS
<1>10. PICK B : B = {r[k].last : k \in 1..(n - 1)}
  OBVIOUS
<1>11. old \in A
  BY <1>1, <1>5, <1>9
<1>12. ASSUME NEW j \in A, j # 0 PROVE u[j] = NUL \/ j \in B
  <2>1. PICK k \in 1..n : j = q[k].last
    BY <1>9
  <2>2. CASE k # n
    <3>1. k \in 1..(n - 1)
      BY <2>2
    <3>2. r[k].last = j
      BY <1>1, <2>1, <3>1
    <3> QED BY <1>10, <3>1, <3>2
  <2>3. CASE k = n
    <3>1. j = old /\ old \in 1..N
      BY <1>3, <1>5, <1>7, <1>12, <2>1, <2>3
    <3> QED BY <1>8, <1>12, <3>1
  <2> QED BY <2>2, <2>3
<1>13. ASSUME NEW j \in B PROVE j \in A
  <2>1. PICK k \in 1..(n - 1) : j = r[k].last
    BY <1>10
  <2>2. k \in 1..n /\ q[k].last = j
    BY <1>1, <2>1
  <2> QED BY <1>9, <2>2
<1>14. \A j \in 1..N : j < s => u[j] = t[j] \/ (u[j] = NUL /\ j \in A)
  BY <1>8, <1>11
<1>15. u[s] = NUL
  <2>1. s \in 1..N
    BY <1>3, <1>7
  <2> QED BY <1>7, <1>8, <2>1
<1>16. ASSUME r # << >>
       PROVE  /\ n - 1 \in 1..(n - 1) /\ r[n - 1].s = q[n - 1].s /\ q[n - 1].s \in Nat
              /\ s <= r[n - 1].s
  <2>1. n - 1 \in 1..(n - 1) /\ n - 1 \in 1..n
    BY <1>1, <1>16
  <2>2. r[n - 1].s = q[n - 1].s /\ q[n - 1].s \in Nat
    BY <1>1, <1>2, <2>1, CallFacts
  <2>3. q[n].end < q[n - 1].s
    BY <1>1, <2>1 DEF FramesOK
  <2> QED BY <1>3, <2>1, <2>2, <2>3
<1>17. Passes(Ctx(o, t, q), Ctx(o, u, r))
  BY <1>1, <1>3, <1>6, <1>8, <1>9, <1>10, <1>12, <1>13, <1>14, <1>15, <1>16, SMTT(30)
     DEF Passes, Ctx
<1>18. ASSUME NEW k \in 1..(n - 1), r[k].last # 0
       PROVE  r[k].last <= r[n - 1].s /\ o[r[k].last] \in Boundary \cup {NUL}
  <2>1. k \in 1..n /\ r[k].last = q[k].last
    BY <1>1
  <2>2. q[k].last <= s /\ o[q[k].last] \in Boundary \cup {NUL}
    BY <1>1, <1>3, <1>18, <2>1 DEF LastsOK
  <2>3. n - 1 \in 1..(n - 1) /\ n - 1 \in 1..n
    BY <1>1
  <2>4. r[n - 1].s = q[n - 1].s /\ q[n - 1].s \in Nat /\ q[n].end < q[n - 1].s
    BY <1>1, <1>2, <2>3, CallFacts DEF FramesOK
  <2> QED BY <1>3, <1>4, <2>1, <2>2, <2>4
<1>19. LastsOK(o, r)
  BY <1>1, <1>18 DEF LastsOK
<1> QED BY <1>17, <1>19

LEMMA LeastIs ==
  ASSUME NEW S \in SUBSET Nat, NEW m \in S, \A j \in S : m <= j
  PROVE  Min(S) = m
<1>1. Min(S) \in S /\ \A j \in S : Min(S) <= j
  BY LeastOf
<1>2. Min(S) <= m /\ m <= Min(S) /\ Min(S) \in Nat /\ m \in Nat
  BY <1>1
<1> QED BY <1>2

\* A string literal of a list ends in the text where it does in the program.
LEMMA AlikeStrings ==
  ASSUME NEW o \in Seq(Chars), NEW t \in Seq(Chars), NEW N \in Nat, N = Len(t), N = Len(o),
         t[N] = NUL, o[N] = NUL, NEW e \in Nat, e <= N, t[e] = NUL,
         o[e] \in Closers \cup {NUL}, NEW s \in Nat \ {0},
         \A j \in s..(e - 1) : t[j] = o[j]
  PROVE  \A k \in (s + 1)..e : StringEnd(t, k) # 0 => StringEnd(o, k) = StringEnd(t, k)
<1> DEFINE Bad == {k \in (s + 1)..e : StringEnd(t, k) # 0 /\ StringEnd(o, k) # StringEnd(t, k)}
<1>1. ASSUME NEW k \in (s + 1)..e, StringEnd(t, k) # 0, StringEnd(o, k) # StringEnd(t, k)
      PROVE  \E a \in (k + 1)..e : StringEnd(t, a) # 0 /\ StringEnd(o, a) # StringEnd(t, a)
  <2>1. k \in 1..N /\ k \in 1..e /\ e <= Len(t)
    OBVIOUS
  <2>2. StringEnd(t, k) = StringEndAt(t, k) /\ StringEnd(o, k) = StringEndAt(o, k)
    BY <2>1, StringEndUnfolds
  <2>3. PICK j : j = PartEnd(t, k)
    OBVIOUS
  <2>4. j # 0
    BY <1>1, <2>2, <2>3 DEF StringEndAt
  <2>5. j \in k..(e - 1)
    BY <2>1, <2>3, <2>4, PartEndProps
  <2>6. PartEnd(o, k) = j
    <3>1. PICK A : A = {x \in k..N : t[x] = NUL \/ (t[x] = Quote /\ t[x - 1] # Backslash)}
      OBVIOUS
    <3>2. PICK B : B = {x \in k..N : o[x] = NUL \/ (o[x] = Quote /\ o[x - 1] # Backslash)}
      OBVIOUS
    <3>3. t[j] # NUL /\ j = Min(A)
      BY <2>3, <2>4, <3>1 DEF PartEnd
    <3>4. \A x \in k..(e - 1) : x \in A <=> x \in B
      <4>1. SUFFICES ASSUME NEW x \in k..(e - 1) PROVE x \in A <=> x \in B
        OBVIOUS
      <4>2. x \in s..(e - 1) /\ x - 1 \in s..(e - 1) /\ x \in k..N
        OBVIOUS
      <4>3. t[x] = o[x] /\ t[x - 1] = o[x - 1]
        BY <4>2
      <4> QED BY <3>1, <3>2, <4>2, <4>3
    <3>5. j \in A /\ \A x \in A : j <= x
      <4>1. A \in SUBSET Nat /\ e \in A
        BY <3>1
      <4> QED BY <3>3, <4>1, LeastOf
    <3>6. j \in B /\ \A x \in B : j <= x
      <4>1. j \in B
        BY <2>5, <3>4, <3>5
      <4>2. ASSUME NEW x \in B, x < j PROVE FALSE
        <5>1. x \in k..(e - 1)
          BY <2>5, <3>2, <4>2
        <5>2. x \in A
          BY <3>4, <5>1
        <5>3. j <= x
          BY <3>5, <5>2
        <5> QED BY <2>5, <4>2, <5>1, <5>3
      <4>3. B \in SUBSET Nat
        BY <3>2
      <4> QED BY <2>5, <4>1, <4>2, <4>3
    <3>7. Min(B) = j
      <4>1. B \in SUBSET Nat
        BY <3>2
      <4> QED BY <3>6, <4>1, LeastIs
    <3>8. o[j] # NUL
      <4>1. j \in s..(e - 1)
        BY <2>5
      <4> QED BY <3>3, <4>1
    <3> QED BY <3>2, <3>7, <3>8 DEF PartEnd
  <2>7. t[j + 1] = Backslash <=> o[j + 1] = Backslash
    <3>1. CASE j + 1 = e
      <4>1. Backslash \notin Closers \cup {NUL}
        BY Zenon DEF Backslash, Closers, NUL
      <4> QED BY <3>1, <4>1
    <3>2. CASE j + 1 # e
      <4>1. j + 1 \in s..(e - 1)
        BY <2>5, <3>2
      <4> QED BY <4>1
    <3> QED BY <3>1, <3>2
  <2>8. t[j + 1] = Backslash
    <3> SUFFICES ASSUME t[j + 1] # Backslash PROVE FALSE
      OBVIOUS
    <3>1. StringEnd(t, k) = j /\ StringEnd(o, k) = j
      BY <2>2, <2>3, <2>6, <2>7 DEF StringEndAt
    <3> QED BY <1>1, <3>1
  <2>9. PICK m : m = NextPart(t, j)
    OBVIOUS
  <2>10. t[m] = Quote /\ StringEnd(t, k) = StringEnd(t, m + 1)
    BY <1>1, <2>2, <2>3, <2>4, <2>8, <2>9 DEF StringEndAt
  <2>11. m \in (j + 1)..(e - 1) /\ m + 1 \in (k + 1)..e
    BY <2>1, <2>3, <2>4, <2>9, <2>10, PartsProps
  <2>12. NextPart(o, j) = m
    <3>1. PICK A : A = {x \in (j + 1)..N : t[x] \notin Blank \cup {Backslash}}
      OBVIOUS
    <3>2. PICK B : B = {x \in (j + 1)..N : o[x] \notin Blank \cup {Backslash}}
      OBVIOUS
    <3>3. m = Min(A)
      BY <2>9, <3>1 DEF NextPart
    <3>4. \A x \in (j + 1)..(e - 1) : x \in A <=> x \in B
      <4>1. SUFFICES ASSUME NEW x \in (j + 1)..(e - 1) PROVE x \in A <=> x \in B
        OBVIOUS
      <4>2. x \in s..(e - 1) /\ x \in (j + 1)..N
        BY <2>5
      <4>3. t[x] = o[x]
        BY <4>2
      <4> QED BY <3>1, <3>2, <4>2, <4>3
    <3>5. m \in A /\ \A x \in A : m <= x
      <4>1. t[e] \notin Blank \cup {Backslash}
        BY DEF Blank, NUL, NL, Backslash
      <4>2. e \in (j + 1)..N
        BY <2>5
      <4>3. A \in SUBSET Nat /\ e \in A
        BY <2>5, <3>1, <4>1, <4>2
      <4> QED BY <3>3, <4>3, LeastOf
    <3>6. B \in SUBSET Nat
      BY <2>5, <3>2
    <3>7. m \in B /\ \A x \in B : m <= x
      <4>1. m \in B
        BY <2>11, <3>4, <3>5
      <4>2. ASSUME NEW x \in B, x < m PROVE FALSE
        <5>1. x \in (j + 1)..(e - 1)
          BY <2>5, <2>11, <3>2, <4>2
        <5>2. x \in A
          BY <3>4, <5>1
        <5>3. m <= x
          BY <3>5, <5>2
        <5> QED BY <2>5, <2>11, <4>2, <5>1, <5>3
      <4> QED BY <2>5, <2>11, <3>6, <4>1, <4>2
    <3>8. Min(B) = m
      BY <3>6, <3>7, LeastIs
    <3> QED BY <3>2, <3>8 DEF NextPart
  <2>13. o[m] = Quote
    <3>1. m \in s..(e - 1)
      BY <2>5, <2>11
    <3> QED BY <2>10, <3>1
  <2>14. StringEnd(o, k) = StringEnd(o, m + 1)
    BY <2>2, <2>4, <2>6, <2>7, <2>8, <2>12, <2>13 DEF StringEndAt
  <2> QED BY <1>1, <2>10, <2>11, <2>14
<1>2. ASSUME NEW k \in Bad PROVE \E a \in Bad : a > k
  <2>1. PICK a \in (k + 1)..e : StringEnd(t, a) # 0 /\ StringEnd(o, a) # StringEnd(t, a)
    BY <1>1
  <2>2. a \in (s + 1)..e /\ a > k
    OBVIOUS
  <2> QED BY <2>1, <2>2
<1>3. Bad = {}
  <2>1. Bad \in SUBSET (1..e)
    OBVIOUS
  <2> HIDE DEF Bad
  <2> QED BY <1>2, <2>1, NoLast
<1> QED BY <1>3

\* A literal is overwritten, from its first character on, by what it stands for.
Literally(t, b, e)  == Unescaped(SubSeq(t, b, e - 1), Quote)
StringText(t, b, e) == Prepared(Cut(t, e), b, Literally(t, b, e))

LEMMA StringRead ==
  ASSUME NEW o \in Seq(Chars), NEW t \in Seq(Chars), Len(o) = Len(t),
         NEW b \in Nat \ {0}, NEW e \in Nat, b <= e, e <= Len(t),
         \A j \in b..(e - 1) : t[j] = o[j] /\ t[j] # NUL, Literally(t, b, e) # Wrong
  PROVE  /\ Literally(t, b, e) \in Seq(Chars \ {NUL}) /\ b + Len(Literally(t, b, e)) <= e
         /\ Literally(o, b, e) = Literally(t, b, e)
         /\ \A j \in 1..Len(Literally(t, b, e)) :
              StringText(t, b, e)[b + j - 1] = Literally(t, b, e)[j]
         /\ StringText(t, b, e)[b + Len(Literally(t, b, e))] = NUL
<1> DEFINE c == Literally(t, b, e)
           u == StringText(t, b, e)
<1>15. c = Unescaped(SubSeq(t, b, e - 1), Quote) /\ c # Wrong
  BY DEF Literally
<1>16. u = Prepared(Cut(t, e), b, c)
  BY DEF StringText
<1>17. PICK N \in Nat : N = Len(t) /\ N = Len(o)
  OBVIOUS
<1> HIDE DEF c, u
<1>1. PICK a : a = SubSeq(t, b, e - 1)
  OBVIOUS
<1>2. PICK m \in Nat : m = e - b
  OBVIOUS
<1>3. a = [i \in 1..m |-> t[b + i - 1]]
  <2>1. a = [i \in 1..(1 + (e - 1) - b) |-> t[i + b - 1]]
    BY <1>1 DEF SubSeq
  <2>2. 1 + (e - 1) - b = m /\ \A i \in 1..m : i + b - 1 = b + i - 1
    BY <1>2
  <2> QED BY <2>1, <2>2
<1>4. SubSeq(o, b, e - 1) = a
  <2>1. SubSeq(o, b, e - 1) = [i \in 1..m |-> o[b + i - 1]]
    <3>1. SubSeq(o, b, e - 1) = [i \in 1..(1 + (e - 1) - b) |-> o[i + b - 1]]
      BY DEF SubSeq
    <3>2. 1 + (e - 1) - b = m /\ \A i \in 1..m : i + b - 1 = b + i - 1
      BY <1>2
    <3> QED BY <3>1, <3>2
  <2>2. \A i \in 1..m : b + i - 1 \in b..(e - 1)
    BY <1>2
  <2>3. \A i \in 1..m : o[b + i - 1] = t[b + i - 1]
    BY <2>2
  <2> QED BY <1>3, <2>1, <2>3
<1>5. PICK C : C = Chars \ {NUL}
  OBVIOUS
<1>6. a \in Seq(C) /\ Len(a) = m
  <2>1. \A i \in 1..m : b + i - 1 \in b..(e - 1) /\ b + i - 1 \in 1..N
    BY <1>2, <1>17
  <2>2. \A i \in 1..m : t[b + i - 1] \in C
    BY <1>5, <1>17, <2>1, ElementsOf
  <2>3. a = [i \in 1..m |-> a[i]]
    BY <1>3
  <2>4. \A i \in 1..m : a[i] \in C
    BY <1>3, <2>2
  <2>5. [i \in 1..m |-> a[i]] \in Seq(C)
    BY <2>4
  <2>6. Len([i \in 1..m |-> a[i]]) = m
    OBVIOUS
  <2> QED BY <2>3, <2>5, <2>6
<1>7. c \in Seq(C) /\ Len(c) <= m
  <2>1. Chars \ {NUL} \subseteq C
    BY <1>5
  <2> QED BY <1>1, <1>6, <1>15, <2>1, UnescapedProps
<1>8. PICK n \in Nat : n = Len(c)
  BY <1>7
<1>9. n <= m /\ b + n <= e
  BY <1>2, <1>7, <1>8
<1>10. PICK t1 : t1 = Cut(t, e)
  OBVIOUS
<1>11. Len(t1) = N
  <2>1. SameFrom(t, Cut(t, e), e + 1)
    BY CutSame
  <2> QED BY <1>10, <1>17, <2>1 DEF SameFrom
<1>12. u = [j \in 1..N |-> IF j \in b..(b + n - 1) THEN c[j - b + 1]
                           ELSE IF j = b + n THEN NUL ELSE t1[j]]
  BY <1>8, <1>10, <1>11, <1>16 DEF Prepared
<1>13. ASSUME NEW j \in 1..n PROVE u[b + j - 1] = c[j]
  <2>1. b + j - 1 \in 1..N /\ b + j - 1 \in b..(b + n - 1) /\ (b + j - 1) - b + 1 = j
    BY <1>9, <1>17
  <2> QED BY <1>12, <2>1
<1>14. u[b + n] = NUL
  <2>1. b + n \in 1..N /\ b + n \notin b..(b + n - 1)
    BY <1>9, <1>17
  <2> QED BY <1>12, <2>1
<1>18. Literally(o, b, e) = c
  BY <1>1, <1>4, <1>15 DEF Literally
<1> QED BY <1>5, <1>7, <1>8, <1>9, <1>13, <1>14, <1>18 DEF c, u

\* The lists under construction, and where those inside of others began.
PlacesOK(c, q) ==
  \A i \in 1..Len(q) : Placed(c, q[i].items) /\ (i > 1 => PlaceOK(c.o, q[i].at))

Now == Ctx(Original, text, frames)

\* The invariant of what has been read.
ElementsInv ==
  /\ phase # "idle" => sources # << >>
  /\ Len(sources) < Indices => atfile = Len(sources)
  /\ PlacesOK(Now, frames)
  /\ LastsOK(Original, frames)
  /\ EndsOK(Original, frames)
  /\ phase = "done" => Placed(Now, result)

LEMMA PlacesPass ==
  ASSUME NEW c, NEW d, CtxOK(c), CtxOK(d), Passes(c, d), NEW q, PlacesOK(c, q)
  PROVE  PlacesOK(d, q)
<1>1. d.o = c.o
  BY DEF Passes
<1>2. ASSUME NEW i \in 1..Len(q)
      PROVE  Placed(d, q[i].items) /\ (i > 1 => PlaceOK(d.o, q[i].at))
  BY <1>1, PlacedPasses DEF PlacesOK
<1> QED BY <1>2 DEF PlacesOK

LEMMA ReplacedPlaces ==
  ASSUME NEW c, NEW q, IsSeq(q), q # << >>, PlacesOK(c, q),
         NEW f, Placed(c, f.items), f.at = q[Len(q)].at
  PROVE  PlacesOK(c, Replaced(q, Len(q), f))
<1>1. PICK n \in Nat : n = Len(q) /\ 1 <= n
  BY NotEmpty
<1>2. PICK r : r = Replaced(q, n, f)
  OBVIOUS
<1>3. Len(r) = n /\ r[n] = f /\ \A i \in 1..n : i # n => r[i] = q[i]
  <2>1. n <= Len(q)
    BY <1>1
  <2> QED BY <1>1, <1>2, <2>1, ReplacedSeq
<1>4. ASSUME NEW i \in 1..n PROVE Placed(c, r[i].items) /\ (i > 1 => PlaceOK(c.o, r[i].at))
  BY <1>1, <1>3 DEF PlacesOK
<1> QED BY <1>1, <1>2, <1>3, <1>4 DEF PlacesOK

LEMMA AppendedPlaces ==
  ASSUME NEW c, NEW q, IsSeq(q), PlacesOK(c, q),
         NEW f, Placed(c, f.items), q # << >> => PlaceOK(c.o, f.at)
  PROVE  PlacesOK(c, Append(q, f))
<1>1. PICK n \in Nat : n = Len(q)
  BY NotEmpty
<1>2. PICK r : r = Append(q, f)
  OBVIOUS
<1>3. Len(r) = n + 1 /\ r[n + 1] = f /\ \A i \in 1..n : r[i] = q[i]
  BY <1>1, <1>2, AppendSeq
<1>4. ASSUME NEW i \in 1..(n + 1)
      PROVE  Placed(c, r[i].items) /\ (i > 1 => PlaceOK(c.o, r[i].at))
  <2>1. CASE i \in 1..n
    BY <1>1, <1>3, <2>1 DEF PlacesOK
  <2>2. CASE i = n + 1
    <3>1. i > 1 => q # << >>
      BY <1>1, <2>2, NotEmpty
    <3> QED BY <1>3, <2>2, <3>1
  <2> QED BY <1>1, <2>1, <2>2
<1> QED BY <1>2, <1>3, <1>4 DEF PlacesOK

LEMMA PrefixPlaces ==
  ASSUME NEW c, NEW q, IsSeq(q), PlacesOK(c, q), NEW k \in Nat, k <= Len(q)
  PROVE  PlacesOK(c, SubSeq(q, 1, k))
<1>1. /\ Len(SubSeq(q, 1, k)) = k
      /\ \A i \in 1..k : SubSeq(q, 1, k)[i] = q[i]
  BY PrefixSeq
<1>2. \A i \in 1..k : i \in 1..Len(q)
  BY NotEmpty
<1> QED BY <1>1, <1>2 DEF PlacesOK

LEMMA ReplacedEnds ==
  ASSUME NEW o, NEW q, IsSeq(q), q # << >>, EndsOK(o, q), NEW f, f.end = q[Len(q)].end
  PROVE  EndsOK(o, Replaced(q, Len(q), f))
<1>1. PICK n \in Nat : n = Len(q) /\ 1 <= n
  BY NotEmpty
<1>2. PICK r : r = Replaced(q, n, f)
  OBVIOUS
<1>3. Len(r) = n /\ r[n] = f /\ \A i \in 1..n : i # n => r[i] = q[i]
  <2>1. n <= Len(q)
    BY <1>1
  <2> QED BY <1>1, <1>2, <2>1, ReplacedSeq
<1>4. ASSUME NEW i \in 1..n PROVE o[r[i].end] \in Closers \cup {NUL}
  BY <1>1, <1>3 DEF EndsOK
<1> QED BY <1>1, <1>2, <1>3, <1>4 DEF EndsOK

LEMMA AppendedEnds ==
  ASSUME NEW o, NEW q, IsSeq(q), EndsOK(o, q), NEW f, o[f.end] \in Closers \cup {NUL}
  PROVE  EndsOK(o, Append(q, f))
<1>1. PICK n \in Nat : n = Len(q)
  BY NotEmpty
<1>2. PICK r : r = Append(q, f)
  OBVIOUS
<1>3. Len(r) = n + 1 /\ r[n + 1] = f /\ \A i \in 1..n : r[i] = q[i]
  BY <1>1, <1>2, AppendSeq
<1>4. ASSUME NEW i \in 1..(n + 1) PROVE o[r[i].end] \in Closers \cup {NUL}
  <2>1. i \in 1..n \/ i = n + 1
    BY <1>1
  <2> QED BY <1>1, <1>3, <2>1 DEF EndsOK
<1> QED BY <1>2, <1>3, <1>4 DEF EndsOK

LEMMA PrefixEnds ==
  ASSUME NEW o, NEW q, IsSeq(q), EndsOK(o, q), NEW k \in Nat, k <= Len(q)
  PROVE  EndsOK(o, SubSeq(q, 1, k))
<1>1. /\ Len(SubSeq(q, 1, k)) = k
      /\ \A i \in 1..k : SubSeq(q, 1, k)[i] = q[i]
  BY PrefixSeq
<1>2. \A i \in 1..k : i \in 1..Len(q)
  BY NotEmpty
<1> QED BY <1>1, <1>2 DEF EndsOK

\* What the invariant says of the call that reads.
LEMMA TopElements ==
  ASSUME IInv, ElementsInv, phase = "reading"
  PROVE  /\ Placed(Now, Top.items) /\ CtxOK(Now)
         /\ FramesOK(Original, text, frames) /\ LastsOK(Original, frames)
         /\ EndsOK(Original, frames)
         /\ Original[Top.end] \in Closers \cup {NUL}
         /\ Original \in Seq(Chars) /\ Len(Original) = Len(text)
         /\ Original[Len(Original)] = NUL
<1>1. Len(frames) \in 1..Len(frames)
  BY TopProps
<1>2. Placed(Now, Top.items) /\ Original[Top.end] \in Closers \cup {NUL}
  BY <1>1 DEF ElementsInv, PlacesOK, EndsOK, Top
<1>3. FramesOK(Original, text, frames) /\ text \in Seq(Chars)
  BY DEF IInv, SourcesOK
<1>4. CtxOK(Now)
  BY <1>3, CtxFacts DEF Now
<1>5. Original \in Seq(Chars) /\ Original[Len(Original)] = NUL
  <2>1. PICK a : a = Text(Program)
    OBVIOUS
  <2>2. a \in Seq(Chars \ {NUL})
    BY <2>1, ProgramText DEF IInv, SourcesOK
  <2>3. PICK n \in Nat : n = Len(a)
    BY <2>2
  <2>4. a = [i \in 1..n |-> a[i]] /\ \A i \in 1..n : a[i] \in Chars
    BY <2>2, <2>3
  <2>5. a \in Seq(Chars)
    BY <2>4
  <2>6. Original = Append(a, NUL)
    BY <2>1 DEF Original
  <2>7. PICK r : r = Append(a, NUL)
    OBVIOUS
  <2>8. r \in Seq(Chars)
    <3>1. NUL \in Chars
      BY SomeChars
    <3> QED BY <2>5, <2>7, <3>1
  <2>9. Len(r) = n + 1 /\ r[n + 1] = NUL
    BY <2>3, <2>5, <2>7
  <2> QED BY <2>6, <2>7, <2>8, <2>9
<1> QED BY <1>2, <1>3, <1>4, <1>5 DEF IInv, SourcesOK, ElementsInv

\* A name, a literal or a list begins where a call stands.
LEMMA HerePlaced ==
  ASSUME IInv, phase = "reading", Here \notin {NUL, NL}
  PROVE  PlaceOK(Original, Top.s)
<1>1. /\ Top.s \in Nat \ {0} /\ Top.end \in Nat /\ Top.s < Top.end
      /\ Top.end <= Len(text) /\ Len(text) \in Nat /\ Reads(Original, text, Top)
  BY TopProps
<1>2. Len(Original) = Len(text)
  BY DEF IInv, SourcesOK
<1>3. Original[Top.s] = Here
  BY <1>1 DEF Reads, Here
<1> QED BY <1>1, <1>2, <1>3 DEF PlaceOK

LEMMA InsertedItems ==
  ASSUME NEW f, IsCall(f), NEW item, NEW s
  PROVE  Inserted(f, item, s).items = Append(f.items, item) /\ Inserted(f, item, s).at = f.at
<1>1. PICK g : g = Inserted(f, item, s)
  OBVIOUS
<1>2. PICK head : head = IF f.head = 0 /\ item.kind # "list" THEN Len(f.items) + 1 ELSE f.head
  OBVIOUS
<1>3. g = [s |-> s, at |-> f.at, curly |-> f.curly, end |-> f.end,
           items |-> Append(f.items, item), head |-> head, last |-> f.last]
  BY <1>1, <1>2 DEF Inserted, IsCall
<1> QED BY <1>1, <1>3

LEMMA ElementsGoOn ==
  ASSUME IInv, IInv', ElementsInv, phase = "reading", NEW f, Continue(f),
         f.at = Top.at, f.end = Top.end,
         Passes(Now, Now'), LastsOK(Original', frames'), Placed(Now', f.items)
  PROVE  ElementsInv'
<1>1. IsSeq(frames) /\ frames # << >>
  BY TopProps
<1>2. Original' = Original /\ UNCHANGED <<sources, atfile, phase>>
  BY DEF Continue, Original, Program
<1>3. PICK d : d = Now'
  OBVIOUS
<1>4. CtxOK(d) /\ CtxOK(Now)
  <2>1. text' \in Seq(Chars) /\ FramesOK(Original', text', frames')
    BY DEF IInv, SourcesOK
  <2>2. CtxOK(Ctx(Original', text', frames'))
    BY <2>1, CtxFacts
  <2> QED BY <1>3, <2>2, TopElements DEF Now
<1>5. PlacesOK(d, frames)
  BY <1>3, <1>4, PlacesPass DEF ElementsInv
<1>6. frames' = Replaced(frames, Len(frames), f)
  BY DEF Continue, Replaced
<1>7. PlacesOK(Now', frames')
  BY <1>1, <1>3, <1>5, <1>6, ReplacedPlaces DEF Top
<1>8. EndsOK(Original', frames')
  BY <1>1, <1>2, <1>6, TopElements, ReplacedEnds DEF Top
<1> QED BY <1>2, <1>7, <1>8 DEF ElementsInv

LEMMA ElementsFail ==
  ASSUME IInv, ElementsInv, phase = "reading", Fail
  PROVE  ElementsInv'
<1>1. UNCHANGED <<sources, atfile>> /\ frames' = << >> /\ phase' = "failed"
  BY DEF Fail
<1>2. PlacesOK(Now', << >>) /\ LastsOK(Original', << >>) /\ EndsOK(Original', << >>)
  BY DEF PlacesOK, LastsOK, EndsOK
<1> QED BY <1>1, <1>2 DEF ElementsInv

\* An element is appended to the list, or only the call goes on.  Nothing is
\* written before the place where it stood.
LEMMA ElementsGoTo ==
  ASSUME IInv, IInv', ElementsInv, phase = "reading", NEW s \in Nat, Top.s <= s, s <= Top.end,
         SameBefore(text, text', Top.s), Here = NUL => text'[Top.s] = NUL,
         \/ Continue(Moved(Top, s))
         \/ \E item : /\ Continue(Inserted(Top, item, s))
                      /\ Passes(Now, Now') => ElementOK(Now', item)
  PROVE  ElementsInv'
<1>1. /\ IsCall(Top) /\ Placed(Now, Top.items) /\ CtxOK(Now) /\ text \in Seq(Chars)
      /\ FramesOK(Original, text, frames) /\ LastsOK(Original, frames) /\ frames # << >>
  BY TopProps, TopElements
<1>2. CtxOK(Now')
  <2>1. text' \in Seq(Chars) /\ FramesOK(Original', text', frames')
    BY DEF IInv, SourcesOK
  <2>2. CtxOK(Ctx(Original', text', frames'))
    BY <2>1, CtxFacts
  <2> QED BY <2>2 DEF Now
<1>3. ASSUME NEW f, Continue(f), IsCall(f), f.s = s, f.last = Top.last
      PROVE  Passes(Now, Now') /\ LastsOK(Original', frames')
  <2>1. frames' = Replaced(frames, Len(frames), f) /\ Original' = Original
    BY <1>3 DEF Continue, Replaced, Original, Program
  <2>2. PICK q : q = frames
    OBVIOUS
  <2>3. Top = q[Len(q)]
    BY <2>2 DEF Top
  <2>4. PICK t : t = text
    OBVIOUS
  <2>5. PICK u : u = text'
    OBVIOUS
  <2>6. PICK o : o = Original
    OBVIOUS
  <2>7. /\ Len(u) = Len(t)
        /\ t[q[Len(q)].s] = NUL => u[q[Len(q)].s] = NUL
        /\ \A j \in 1..Len(t) : j < q[Len(q)].s =>
             u[j] = t[j] \/ (u[j] = NUL /\ j = q[Len(q)].last)
    BY <2>3, <2>4, <2>5 DEF SameBefore, Here
  <2>8. /\ t \in Seq(Chars) /\ FramesOK(o, t, q) /\ q # << >> /\ LastsOK(o, q)
        /\ q[Len(q)].s <= f.s /\ f.last = q[Len(q)].last
    BY <1>1, <1>3, <2>2, <2>3, <2>4, <2>6
  <2>9. /\ Passes(Ctx(o, t, q), Ctx(o, u, Replaced(q, Len(q), f)))
        /\ LastsOK(o, Replaced(q, Len(q), f))
    BY <1>3, <2>7, <2>8, TopPasses
  <2> QED BY <2>1, <2>2, <2>4, <2>5, <2>6, <2>9 DEF Now
<1>4. CASE Continue(Moved(Top, s))
  <2>1. PICK f : f = Moved(Top, s)
    OBVIOUS
  <2>2. f = [s |-> s, at |-> Top.at, curly |-> Top.curly, end |-> Top.end,
             items |-> Top.items, head |-> Top.head, last |-> Top.last]
    BY <1>1, <2>1 DEF Moved, IsCall
  <2>3. IsCall(f)
    BY <1>1, <2>1, MovedProps
  <2>4. /\ f.s = s /\ f.last = Top.last /\ f.at = Top.at /\ f.end = Top.end
        /\ f.items = Top.items
    BY <2>2
  <2>5. Passes(Now, Now') /\ LastsOK(Original', frames')
    BY <1>3, <1>4, <2>1, <2>3, <2>4
  <2>6. Placed(Now', f.items)
    BY <1>1, <1>2, <2>4, <2>5, PlacedPasses
  <2> QED BY <1>4, <2>1, <2>4, <2>5, <2>6, ElementsGoOn
<1>5. CASE \E item : /\ Continue(Inserted(Top, item, s))
                     /\ Passes(Now, Now') => ElementOK(Now', item)
  <2>1. PICK item : /\ Continue(Inserted(Top, item, s))
                    /\ Passes(Now, Now') => ElementOK(Now', item)
    BY <1>5
  <2>2. PICK f : f = Inserted(Top, item, s)
    OBVIOUS
  <2>3. IsCall(f) /\ f.s = s /\ f.end = Top.end /\ f.last = Top.last
    BY <1>1, <2>2, InsertedProps
  <2>4. f.items = Append(Top.items, item) /\ f.at = Top.at
    BY <1>1, <2>2, InsertedItems
  <2>5. Passes(Now, Now') /\ LastsOK(Original', frames')
    BY <1>3, <2>1, <2>2, <2>3
  <2>6. Placed(Now', Top.items)
    BY <1>1, <1>2, <2>5, PlacedPasses
  <2>7. Placed(Now', f.items)
    BY <2>1, <2>4, <2>5, <2>6, AppendPlaced
  <2> QED BY <2>1, <2>2, <2>3, <2>4, <2>5, <2>7, ElementsGoOn
<1> QED BY <1>4, <1>5

\* A literal that has no pointer.
LEMMA HereLeaf ==
  ASSUME IInv, phase = "reading", Here \notin {NUL, NL},
         NEW d, Passes(Now, d), NEW k, k \notin {"list", "ident", "string"}, NEW v
  PROVE  ElementOK(d, [kind |-> k, at |-> Top.s, value |-> v])
<1>1. d.o = Original
  BY DEF Passes, Now, Ctx
<1>2. PlaceOK(d.o, Top.s)
  BY <1>1, HerePlaced
<1> QED BY <1>2, LeafOK

LEMMA ElementsSkip ==
  ASSUME IInv, IInv', ElementsInv, Skip
  PROVE  ElementsInv'
<1>1. phase = "reading" /\ Here # NUL /\ text' = text
  BY DEF Skip, Blank, Closers, NUL, NL
<1>2. Top.s < Top.end /\ Top.s \in Nat /\ Top.end \in Nat
  BY <1>1, TopProps
<1>3. Continue(Moved(Top, Top.s + 1))
  BY DEF Skip, Moved
<1>4. SameBefore(text, text', Top.s)
  BY <1>1 DEF SameBefore
<1>5. Top.s + 1 \in Nat /\ Top.s <= Top.s + 1 /\ Top.s + 1 <= Top.end
  BY <1>2
<1> QED BY <1>1, <1>3, <1>4, <1>5, ElementsGoTo

LEMMA ElementsComment ==
  ASSUME IInv, IInv', ElementsInv, Comment
  PROVE  ElementsInv'
<1>1. phase = "reading" /\ text' = text
  BY DEF Comment
<1>2. /\ Top.s \in Nat \ {0} /\ Top.end \in Nat /\ text \in Seq(Chars)
      /\ Top.s <= Top.end /\ Top.end <= Len(text) /\ text[Top.end] = NUL
      /\ Len(text) \in Nat
  BY <1>1, TopProps
<1>3. PICK s : s = CommentEnd(text, Top.s)
  OBVIOUS
<1>4. s \in Top.s..Top.end
  <2>1. Top.end \in Top.s..Len(text) /\ text[Top.end] \in {NL, NUL}
    BY <1>2
  <2> QED BY <1>2, <1>3, <2>1, FirstProps DEF CommentEnd
<1>5. Continue(Moved(Top, s))
  BY <1>3 DEF Comment, Moved
<1>6. SameBefore(text, text', Top.s) /\ (Here = NUL => text'[Top.s] = NUL)
  BY <1>1 DEF SameBefore, Here
<1>7. s \in Nat /\ Top.s <= s /\ s <= Top.end
  BY <1>2, <1>4
<1> QED BY <1>1, <1>5, <1>6, <1>7, ElementsGoTo

LEMMA ElementsNumber ==
  ASSUME IInv, IInv', ElementsInv, Number
  PROVE  ElementsInv'
<1>1. phase = "reading" /\ text' = text /\ IsNumber(text, Top.s)
  BY DEF Number
<1>2. Here \notin {NUL, NL}
  BY <1>1 DEF IsNumber, Here, Digit, NUL, NL
<1>3. /\ Top.s \in Nat \ {0} /\ Top.end \in Nat /\ text \in Seq(Chars)
      /\ Top.s <= Top.end /\ Top.end <= Len(text) /\ text[Top.end] = NUL
  BY <1>1, TopProps
<1>4. PICK s : s = WordEnd(text, Top.s)
  OBVIOUS
<1>5. s \in Top.s..Top.end
  BY <1>3, <1>4, WordEndProps
<1>6. PICK item : item = NumberAt(text, Top.s, Top.s)
  OBVIOUS
<1>7. Continue(Inserted(Top, item, s))
  BY <1>4, <1>6 DEF Number
<1>8. Passes(Now, Now') => ElementOK(Now', item)
  BY <1>1, <1>2, <1>6, HereLeaf DEF NumberAt, Literal
<1>9. SameBefore(text, text', Top.s)
  BY <1>1 DEF SameBefore
<1>10. s \in Nat /\ Top.s <= s /\ s <= Top.end
  BY <1>3, <1>5
<1> QED BY <1>1, <1>2, <1>7, <1>8, <1>9, <1>10, ElementsGoTo

LEMMA ElementsSemicolon ==
  ASSUME IInv, IInv', ElementsInv, Semicolon
  PROVE  ElementsInv'
<1>1. phase = "reading" /\ Here # NUL
  BY DEF Semicolon, NUL
<1>2. CASE Fail
  BY <1>1, <1>2, ElementsFail
<1>3. CASE Top.head # 0
  <2>1. PICK f : f = [Top EXCEPT !.s = @ + 1, !.items = Group(@, Top.head), !.head = 0]
    OBVIOUS
  <2>2. Continue(f) /\ text' = text
    BY <1>3, <2>1 DEF Semicolon
  <2>3. /\ IsCall(Top) /\ Placed(Now, Top.items) /\ CtxOK(Now) /\ text \in Seq(Chars)
        /\ FramesOK(Original, text, frames) /\ LastsOK(Original, frames) /\ frames # << >>
        /\ Top.s < Top.end /\ Top.s \in Nat /\ Top.end \in Nat
    BY <1>1, TopProps, TopElements
  <2>4. f = [s |-> Top.s + 1, at |-> Top.at, curly |-> Top.curly, end |-> Top.end,
             items |-> Group(Top.items, Top.head), head |-> 0, last |-> Top.last]
    BY <2>1, <2>3 DEF IsCall
  <2>5. /\ f.s = Top.s + 1 /\ f.at = Top.at /\ f.end = Top.end /\ f.last = Top.last
        /\ f.items = Group(Top.items, Top.head)
    BY <2>4
  <2>6. Top.head \in Nat \ {0} /\ Top.head <= Len(Top.items)
    BY <1>3, <2>3 DEF IsCall
  <2>7. IsCall(f)
    <3>1. IsSeq(Group(Top.items, Top.head))
      BY <2>3, <2>6, GroupSeq DEF IsCall
    <3>2. Len(Group(Top.items, Top.head)) \in Nat
      BY <3>1, NotEmpty
    <3> QED BY <2>3, <2>4, <3>1, <3>2 DEF IsCall
  <2>8. PICK q : q = frames
    OBVIOUS
  <2>9. PICK o : o = Original
    OBVIOUS
  <2>10. /\ Passes(Ctx(o, text, q), Ctx(o, text, Replaced(q, Len(q), f)))
         /\ LastsOK(o, Replaced(q, Len(q), f))
    <3>1. Top = q[Len(q)] /\ Top.s <= f.s
      BY <2>3, <2>5, <2>8 DEF Top
    <3> QED BY <2>3, <2>5, <2>7, <2>8, <2>9, <3>1, TopPasses
  <2>11. frames' = Replaced(frames, Len(frames), f) /\ Original' = Original
    BY <2>2 DEF Continue, Replaced, Original, Program
  <2>12. Passes(Now, Now') /\ LastsOK(Original', frames')
    BY <2>2, <2>8, <2>9, <2>10, <2>11 DEF Now
  <2>13. CtxOK(Now')
    <3>1. text' \in Seq(Chars) /\ FramesOK(Original', text', frames')
      BY DEF IInv, SourcesOK
    <3>2. CtxOK(Ctx(Original', text', frames'))
      BY <3>1, CtxFacts
    <3> QED BY <3>2 DEF Now
  <2>14. Placed(Now', Top.items)
    BY <2>3, <2>12, <2>13, PlacedPasses
  <2>15. Placed(Now', f.items)
    BY <2>5, <2>6, <2>14, GroupPlaced
  <2> QED BY <1>1, <2>2, <2>5, <2>12, <2>15, ElementsGoOn
<1> QED BY <1>2, <1>3 DEF Semicolon

\* The pointer of a literal stands for the literal.
LEMMA ElementsString ==
  ASSUME IInv, IInv', ElementsInv, String
  PROVE  ElementsInv'
<1>1. phase = "reading" /\ Here = Quote
  BY DEF String
<1>2. Here \notin {NUL, NL}
  BY <1>1, Zenon DEF Quote, NUL, NL
<1>3. /\ Top.s \in Nat \ {0} /\ Top.end \in Nat /\ text \in Seq(Chars)
      /\ Top.s < Top.end /\ Top.end <= Len(text) /\ text[Top.end] = NUL
      /\ text[Len(text)] = NUL /\ Reads(Original, text, Top)
      /\ \A j \in Top.s..(Top.end - 1) : text[j] # NUL
  BY <1>1, <1>2, TopProps
<1>4. PICK begin : begin = Top.s + 1
  OBVIOUS
<1>5. PICK end : end = StringEnd(text, begin)
  OBVIOUS
<1>6. PICK chars : chars = Unescaped(SubSeq(text, begin, end - 1), Quote)
  OBVIOUS
<1>7. CASE Fail
  BY <1>1, <1>7, ElementsFail
<1>8. CASE ~(end = 0 \/ chars = Wrong)
  <2>1. text' = Prepared(Cut(text, end), begin, chars)
    BY <1>4, <1>5, <1>6, <1>8 DEF String
  <2>2. PICK item : item = [kind |-> "string", at |-> Top.s, value |-> begin]
    OBVIOUS
  <2>3. Continue(Inserted(Top, item, end + 1))
    BY <1>4, <1>5, <1>6, <1>8, <2>2 DEF String
  <2>4. begin \in 1..Top.end /\ begin \in Nat \ {0}
    BY <1>3, <1>4
  <2>5. end \in begin..(Top.end - 1)
    BY <1>3, <1>5, <1>8, <2>4, StringEndProps
  <2>6. PICK N \in Nat : N = Len(text)
    BY <1>3
  <2>7. end \in Nat /\ begin <= end /\ end <= N
    BY <1>3, <2>4, <2>5, <2>6
  <2>8. SameBefore(text, text', begin)
    <3>1. SameBefore(text, Cut(text, end), begin)
      BY <1>3, <2>4, <2>7, CutBefore
    <3>2. Cut(text, end) \in Seq(Chars) /\ Len(chars) \in Nat
      <4>1. SameFrom(text, Cut(text, end), end + 1)
        BY <1>3, <2>7, CutSame
      <4>2. end <= Len(text) /\ text \in Seq(Chars)
        BY <1>3, <2>6, <2>7
      <4>3. chars \in Seq(Chars \ {NUL})
        <5>1. \A j \in begin..(end - 1) : text[j] = text[j] /\ text[j] # NUL
          BY <1>3, <1>4, <2>5
        <5>2. chars = Literally(text, begin, end) /\ Literally(text, begin, end) # Wrong
          BY <1>6, <1>8 DEF Literally
        <5> QED BY <1>3, <2>4, <2>6, <2>7, <5>1, <5>2, StringRead
      <4> QED BY <4>1, <4>3 DEF SameFrom
    <3>3. SameBefore(Cut(text, end), text', begin)
      BY <2>1, <2>4, <3>2, PreparedBefore
    <3> QED BY <3>1, <3>3, BeforeTrans
  <2>9. SameBefore(text, text', Top.s)
    <3>1. \A j \in 1..Len(text) : j < Top.s => j < begin
      BY <1>3, <1>4
    <3> QED BY <2>8, <3>1 DEF SameBefore
  <2>10. Here # NUL
    BY <1>2
  <2>11. end + 1 \in Nat /\ Top.s <= end + 1 /\ end + 1 <= Top.end
    BY <1>3, <1>4, <2>5
  <2>12. PICK o : o = Original
    OBVIOUS
  <2>13. /\ o \in Seq(Chars) /\ N = Len(o) /\ o[N] = NUL
         /\ o[Top.end] \in Closers \cup {NUL} /\ LastsOK(o, frames)
    BY <1>1, <2>6, <2>12, TopElements
  <2>14. \A j \in Top.s..(Top.end - 1) : text[j] = o[j]
    BY <1>3, <2>12 DEF Reads
  <2>15. StringEnd(o, begin) = end
    <3>1. begin \in (Top.s + 1)..Top.end /\ StringEnd(text, begin) # 0
      BY <1>3, <1>4, <1>5, <1>8
    <3>2. \A k \in (Top.s + 1)..Top.end :
            StringEnd(text, k) # 0 => StringEnd(o, k) = StringEnd(text, k)
      <4>1. text[N] = NUL /\ Top.end <= N /\ text[Top.end] = NUL /\ text \in Seq(Chars)
            /\ Top.end \in Nat /\ Top.s \in Nat \ {0}
        BY <1>3, <2>6
      <4> QED BY <2>6, <2>13, <2>14, <4>1, AlikeStrings, ZenonT(60)
    <3> QED BY <1>5, <3>1, <3>2
  <2>16. /\ chars \in Seq(Chars \ {NUL}) /\ begin + Len(chars) <= end
         /\ Unescaped(SubSeq(o, begin, end - 1), Quote) = chars
         /\ \A j \in 1..Len(chars) : text'[begin + j - 1] = chars[j]
         /\ text'[begin + Len(chars)] = NUL
    <3>1. \A j \in begin..(end - 1) : text[j] = o[j] /\ text[j] # NUL
      BY <1>3, <1>4, <2>5, <2>14
    <3>2. PICK u : u = text'
      OBVIOUS
    <3>3. PICK t : t = text
      OBVIOUS
    <3>4. t \in Seq(Chars) /\ end <= Len(t) /\ chars = Literally(t, begin, end)
          /\ Literally(t, begin, end) # Wrong /\ u = StringText(t, begin, end)
      BY <1>3, <1>6, <1>8, <2>1, <2>6, <2>7, <3>2, <3>3 DEF Literally, StringText
    <3>5. \A j \in begin..(end - 1) : t[j] = o[j] /\ t[j] # NUL
      BY <3>1, <3>3
    <3>6. o \in Seq(Chars) /\ Len(o) = Len(t)
      BY <2>6, <2>13, <3>3
    <3>7. begin \in Nat \ {0} /\ end \in Nat /\ begin <= end
      BY <2>4, <2>7
    <3>8. /\ Literally(t, begin, end) \in Seq(Chars \ {NUL})
          /\ begin + Len(Literally(t, begin, end)) <= end
          /\ Literally(o, begin, end) = Literally(t, begin, end)
          /\ \A j \in 1..Len(Literally(t, begin, end)) :
               StringText(t, begin, end)[begin + j - 1] = Literally(t, begin, end)[j]
          /\ StringText(t, begin, end)[begin + Len(Literally(t, begin, end))] = NUL
      BY <3>4, <3>5, <3>6, <3>7, StringRead, ZenonT(60)
    <3>9. Literally(o, begin, end) = Unescaped(SubSeq(o, begin, end - 1), Quote)
      BY DEF Literally
    <3> QED BY <3>2, <3>4, <3>8, <3>9
  <2>17. ASSUME Passes(Now, Now') PROVE ElementOK(Now', item)
    <3>1. PICK f : f = Inserted(Top, item, end + 1)
      OBVIOUS
    <3>2. f.s = end + 1 /\ f.last = Top.last
      <4>1. IsCall(Top)
        BY <1>1, TopProps
      <4> QED BY <2>11, <3>1, <4>1, InsertedProps
    <3>3. IsSeq(frames) /\ frames # << >>
      BY <1>1, TopProps
    <3>4. PICK n \in Nat : n = Len(frames) /\ 1 <= n
      BY <3>3, NotEmpty
    <3>5. PICK r : r = frames' /\ Len(r) = n /\ r[n] = f /\ \A i \in 1..n : i # n => r[i] = frames[i]
      <4>1. frames' = Replaced(frames, n, f) /\ n <= Len(frames)
        BY <2>3, <3>1, <3>4 DEF Continue, Replaced
      <4> QED BY <3>3, <3>4, <4>1, ReplacedSeq
    <3>6. ASSUME NEW k \in 1..n PROVE r[k].last \in Nat /\ r[k].last <= Top.s
      <4>1. r[k].last = frames[k].last
        BY <3>2, <3>4, <3>5 DEF Top
      <4>2. IsCall(frames[k])
        BY <3>4 DEF IInv, FramesOK
      <4>3. frames[k].last \in Nat /\ (frames[k].last # 0 => frames[k].last <= Top.s)
        BY <2>13, <3>4, <4>2 DEF IsCall, LastsOK, Top
      <4> QED BY <1>3, <4>1, <4>3
    <3>7. PICK d : d = Now'
      OBVIOUS
    <3>8. d.t = text' /\ d.q = r /\ d.o = o
      <4>1. d.t = text' /\ d.q = frames' /\ Now.o = Original
        BY <3>7 DEF Now, Ctx
      <4>2. d.o = Now.o
        BY <2>17, <3>7 DEF Passes
      <4> QED BY <2>12, <3>5, <4>1, <4>2
    <3>9. PICK m \in Nat : m = Len(chars)
      BY <2>16
    <3>10. Held(d, begin, chars)
      <4>1. Len(text') = N
        BY <2>6, <2>8 DEF SameBefore
      <4>2. begin + m <= N /\ begin + m <= f.s
        BY <2>4, <2>7, <2>16, <3>2, <3>9
      <4>3. ASSUME NEW k \in 1..n PROVE r[k].last \notin begin..(begin + m - 1)
        BY <1>3, <1>4, <3>6
      <4> QED BY <2>4, <2>16, <3>4, <3>5, <3>8, <3>9, <4>1, <4>2, <4>3 DEF Held
    <3>11. PlaceOK(d.o, Top.s)
      BY <1>1, <1>2, <2>12, <3>8, HerePlaced
    <3>12. item.at = Top.s /\ item.value = begin /\ item.kind = "string"
      BY <2>2
    <3>13. Says(d.o, item) = chars
      BY <2>15, <2>16, <3>8, <3>12 DEF Says
    <3>14. Good(d, item)
      BY <3>10, <3>11, <3>12, <3>13 DEF Good
    <3> QED BY <3>7, <3>12, <3>14, ElementIs
  <2> QED BY <1>1, <2>3, <2>9, <2>10, <2>11, <2>17, ElementsGoTo
<1> QED BY <1>4, <1>5, <1>6, <1>7, <1>8 DEF String

LEMMA ElementsChar ==
  ASSUME IInv, IInv', ElementsInv, Char
  PROVE  ElementsInv'
<1>1. phase = "reading" /\ Here \notin {NUL, NL}
  BY DEF Char, NUL, NL
<1>2. /\ Top.s \in Nat \ {0} /\ Top.end \in Nat /\ text \in Seq(Chars)
      /\ Top.s < Top.end /\ Top.end <= Len(text) /\ text[Top.end] = NUL
  BY <1>1, TopProps
<1>3. PICK begin : begin = Top.s + 1
  OBVIOUS
<1>4. PICK end : end = First(text, begin, {"'", NUL})
  OBVIOUS
<1>5. PICK chars : chars = Unescaped(SubSeq(text, begin, end - 1), "'")
  OBVIOUS
<1>6. CASE Fail
  BY <1>1, <1>6, ElementsFail
<1>7. CASE ~(\/ text[end] = NUL \/ chars = Wrong
            \/ Prepared(Cut(text, end), begin, chars)[begin + 1] # NUL)
  <2>1. text' = Prepared(Cut(text, end), begin, chars)
    BY <1>3, <1>4, <1>5, <1>7 DEF Char
  <2>2. PICK item : item = Literal("char", chars, Top.s)
    OBVIOUS
  <2>3. Continue(Inserted(Top, item, end + 1))
    BY <1>3, <1>4, <1>5, <1>7, <2>2 DEF Char
  <2>4. begin \in Nat \ {0}
    BY <1>2, <1>3
  <2>5. end \in begin..Top.end
    <3>1. PICK n \in Nat : n = Len(text)
      BY <1>2
    <3>2. Top.end \in begin..Len(text) /\ text[Top.end] \in {"'", NUL}
      BY <1>2, <1>3, <3>1
    <3> QED BY <1>2, <1>4, <2>4, <3>2, FirstProps
  <2>6. end # Top.end
    BY <1>2, <1>7
  <2>7. PICK N \in Nat : N = Len(text)
    BY <1>2
  <2>8. end \in Nat /\ begin <= end /\ end <= N
    BY <1>2, <2>4, <2>5, <2>7
  <2>9. SameBefore(text, text', begin)
    <3>1. SameBefore(text, Cut(text, end), begin)
      BY <1>2, <2>4, <2>8, CutBefore
    <3>2. Cut(text, end) \in Seq(Chars)
      <4>1. SameFrom(text, Cut(text, end), end + 1)
        BY <1>2, <2>8, CutSame
      <4> QED BY <4>1 DEF SameFrom
    <3>3. Len(chars) \in Nat
      <4>1. PICK a : a = SubSeq(text, begin, end - 1)
        OBVIOUS
      <4>2. a \in Seq(Chars)
        <5>1. \A k \in 1..(end - begin) : text[begin + k - 1] \in Chars
          BY <1>2, <2>4, <2>7, <2>8, ElementsOf
        <5> QED BY <1>2, <2>4, <2>7, <2>8, <4>1, <5>1
      <4>3. Chars \ {NUL} \subseteq Chars
        OBVIOUS
      <4>4. chars \in Seq(Chars)
        BY <1>5, <1>7, <4>1, <4>2, <4>3, UnescapedProps
      <4> QED BY <4>4
    <3>4. SameBefore(Cut(text, end), text', begin)
      BY <2>1, <2>4, <3>2, <3>3, PreparedBefore
    <3> QED BY <3>1, <3>4, BeforeTrans
  <2>10. SameBefore(text, text', Top.s)
    BY <1>2, <1>3, <2>9 DEF SameBefore
  <2>11. Here # NUL
    BY <1>1
  <2>12. end + 1 \in Nat /\ Top.s <= end + 1 /\ end + 1 <= Top.end
    BY <1>2, <1>3, <2>5, <2>6
  <2>13. Passes(Now, Now') => ElementOK(Now', item)
    BY <1>1, <2>2, HereLeaf DEF Literal
  <2> QED BY <1>1, <2>3, <2>10, <2>11, <2>12, <2>13, ElementsGoTo
<1> QED BY <1>3, <1>4, <1>5, <1>6, <1>7 DEF Char

\* The name, cut out of the text, or the names around its colons.
LEMMA ElementsIdentifier ==
  ASSUME IInv, IInv', ElementsInv, Identifier
  PROVE  ElementsInv'
<1>1. phase = "reading" /\ Here \notin Boundary \cup {NUL}
  BY DEF Identifier, Boundary
<1>2. PICK f : f = Top
  OBVIOUS
<1>3. PICK t : t = text
  OBVIOUS
<1>4. PICK o : o = Original
  OBVIOUS
<1>5. /\ f.s \in Nat \ {0} /\ f.end \in Nat /\ t \in Seq(Chars) /\ f.s < f.end
      /\ f.end <= Len(t) /\ t[f.end] = NUL /\ IsCall(f) /\ Reads(o, t, f)
      /\ t[f.s] \notin Boundary \cup {NUL}
  BY <1>1, <1>2, <1>3, <1>4, TopProps DEF Here
<1>6. /\ Placed(Now, f.items) /\ CtxOK(Now) /\ FramesOK(o, t, frames) /\ LastsOK(o, frames)
      /\ o[f.end] \in Closers \cup {NUL} /\ o \in Seq(Chars) /\ Len(o) = Len(t)
  BY <1>1, <1>2, <1>3, <1>4, TopElements
<1>7. PICK N \in Nat : N = Len(t) /\ N = Len(o)
  BY <1>5, <1>6
<1>8. PICK n \in Nat : n = Len(frames) /\ 1 <= n /\ f = frames[n] /\ IsSeq(frames) /\ frames # << >>
  <2>1. IsSeq(frames) /\ frames # << >>
    BY <1>1, TopProps
  <2> QED BY <1>2, <2>1, NotEmpty DEF Top
\* The word has not been written over by a terminator that is due.
<1>9. ASSUME NEW k \in 1..n
      PROVE  frames[k].last \in Nat /\ frames[k].last < f.s
  <2>1. IsCall(frames[k])
    BY <1>6, <1>8 DEF FramesOK
  <2>2. frames[k].last \in Nat
    BY <2>1 DEF IsCall
  <2>3. frames[k].last # 0 => /\ frames[k].last <= f.s
                              /\ o[frames[k].last] \in Boundary \cup {NUL}
    BY <1>6, <1>8 DEF LastsOK
  <2>4. f.s \in f.s..(f.end - 1)
    BY <1>5
  <2>5. t[f.s] = o[f.s]
    BY <1>5, <2>4 DEF Reads
  <2>6. frames[k].last # f.s
    BY <1>5, <2>3, <2>5
  <2> QED BY <1>5, <2>2, <2>3, <2>6
<1>10. PICK old \in Nat : old = f.last /\ old < f.s
  BY <1>8, <1>9
<1>11. PICK end : end = WordEnd(t, f.s)
  OBVIOUS
<1>12. PICK t2 : t2 = WordRead(t, f)
  OBVIOUS
<1>13. /\ end \in Nat \ {0} /\ f.s < end /\ end <= f.end
       /\ t[end] \in Boundary \cup {NUL} /\ SameFrom(t, t2, end)
  BY <1>5, <1>11, <1>12, NamesCut DEF WordRead
<1>14. /\ WordEnd(t2, f.s) = end /\ o[end] \in Boundary \cup {NUL}
       /\ Separators(t2, f.s) = Separators(o, f.s)
       /\ Separators(o, f.s) \subseteq (f.s + 1)..(end - 1)
  <2>1. f.last < f.s
    BY <1>10
  <2>3. /\ o \in Seq(Chars) /\ t \in Seq(Chars) /\ Len(o) = Len(t) /\ IsCall(f) /\ Reads(o, t, f)
        /\ o[f.end] \in Closers \cup {NUL} /\ t[f.s] \notin Boundary \cup {NUL}
    BY <1>5, <1>6
  <2>2. /\ WordEnd(o, f.s) = WordEnd(t, f.s) /\ WordEnd(WordRead(t, f), f.s) = WordEnd(t, f.s)
        /\ o[WordEnd(t, f.s)] \in Boundary \cup {NUL}
        /\ Separators(WordRead(t, f), f.s) = Separators(o, f.s)
        /\ Separators(o, f.s) \subseteq (f.s + 1)..(WordEnd(t, f.s) - 1)
        /\ \A j \in f.s..(WordEnd(t, f.s) - 1) :
             /\ WordRead(t, f)[j] = IF o[j] = "-" THEN "_" ELSE o[j]
             /\ o[j] \notin Boundary \cup {NUL}
    BY <2>1, <2>3, WordProps
  <2> QED BY <1>11, <1>12, <2>2
<1>15. PICK S : S = Separators(o, f.s)
  OBVIOUS
<1>16. PICK u : u = CutAll(t2, S) /\ u = NamesText(t, f)
  BY <1>12, <1>14, <1>15 DEF NamesText
<1>17. text' = u
  <2>1. text' = Transformed(t2, f.s, f.s).text
    BY <1>2, <1>3, <1>11, <1>12 DEF Identifier, PreviousOne, WordRead
  <2> QED BY <1>14, <1>15, <1>16, <2>1 DEF Transformed
<1>18. PICK item : item = Transformed(t2, f.s, f.s).item
  OBVIOUS
<1>19. PICK g : g = Ended(Inserted(f, item, end), end)
  OBVIOUS
<1>20. Continue(g)
  BY <1>2, <1>3, <1>11, <1>12, <1>18, <1>19 DEF Identifier, PreviousOne, WordRead, Ended
<1>21. /\ IsCall(g) /\ g.s = end /\ g.end = f.end /\ g.at = f.at /\ g.last = end
       /\ g.items = Append(f.items, item)
  <2>1. PICK h : h = Inserted(f, item, end)
    OBVIOUS
  <2>2. IsCall(h) /\ h.s = end /\ h.end = f.end /\ h.items = Append(f.items, item) /\ h.at = f.at
    BY <1>5, <1>13, <2>1, InsertedProps, InsertedItems
  <2>3. IsCall(g)
    BY <1>13, <1>19, <2>1, <2>2, EndedProps
  <2>4. g = [s |-> h.s, at |-> h.at, curly |-> h.curly, end |-> h.end,
             items |-> h.items, head |-> h.head, last |-> end]
    BY <1>19, <2>1, <2>2 DEF Ended, IsCall
  <2> QED BY <2>2, <2>3, <2>4
\* What is written before the word is the terminator of the name before it.
<1>22. Len(t2) = N /\ \A j \in 1..N : j < f.s => t2[j] = IF j = old THEN NUL ELSE t[j]
  <2>1. PICK t1 : t1 = Underscored(t, f.s, end)
    OBVIOUS
  <2>2. t1 = [k \in 1..N |-> IF k \in f.s..end /\ t[k] = "-" THEN "_" ELSE t[k]]
    BY <1>7, <2>1 DEF Underscored
  <2>3. \A j \in 1..N : j < f.s => t1[j] = t[j]
    <3>1. \A j \in 1..N : j < f.s => j \notin f.s..end
      BY <1>5, <1>13
    <3> QED BY <2>2, <3>1
  <2>4. t2 = IF old = 0 THEN t1 ELSE [t1 EXCEPT ![old] = NUL]
    BY <1>10, <1>11, <1>12, <2>1 DEF WordRead, Terminated, Cut
  <2>5. DOMAIN t1 = 1..N
    BY <2>2
  <2>6. Len(t2) = N
    BY <1>7, <1>13 DEF SameFrom
  <2>7. CASE old = 0
    BY <2>3, <2>4, <2>6, <2>7
  <2>8. CASE old # 0
    <3>1. t2 = [t1 EXCEPT ![old] = NUL]
      BY <2>4, <2>8
    <3> QED BY <2>3, <2>5, <2>6, <3>1
  <2> QED BY <2>7, <2>8
<1>23. u = [k \in 1..N |-> IF k \in S THEN NUL ELSE t2[k]]
  BY <1>16, <1>22 DEF CutAll
<1>24. Len(u) = N /\ \A j \in 1..N : j < f.s => u[j] = IF j = old THEN NUL ELSE t[j]
  <2>1. \A j \in 1..N : j < f.s => j \notin S
    <3>1. \A j \in S : j \in (f.s + 1)..(end - 1)
      BY <1>14, <1>15
    <3> QED BY <1>5, <3>1
  <2>2. Len(u) = N
    BY <1>23
  <2> QED BY <1>22, <1>23, <2>1, <2>2
<1>25. old = 0 \/ u[old] = NUL
  <2>1. old # 0 => old \in 1..N
    BY <1>5, <1>7, <1>10
  <2> QED BY <1>10, <1>24, <2>1
<1>26. PICK q : q = frames
  OBVIOUS
<1>27. /\ Passes(Ctx(o, t, q), Ctx(o, u, Replaced(q, Len(q), g)))
       /\ LastsOK(o, Replaced(q, Len(q), g))
  <2>1. q[Len(q)] = f /\ FramesOK(o, t, q) /\ q # << >> /\ LastsOK(o, q)
    BY <1>6, <1>8, <1>26
  <2>2. q[Len(q)].s <= g.s /\ Len(u) = Len(t)
    BY <1>5, <1>7, <1>13, <1>21, <1>24, <2>1
  <2>3. t[q[Len(q)].s] = NUL => u[q[Len(q)].s] = NUL
    BY <1>5, <2>1
  <2>4. \A j \in 1..Len(t) : j < q[Len(q)].s =>
          u[j] = t[j] \/ (u[j] = NUL /\ j = q[Len(q)].last)
    BY <1>7, <1>10, <1>24, <2>1
  <2>5. /\ q[Len(q)].s <= g.last /\ o[g.last] \in Boundary \cup {NUL}
        /\ q[Len(q)].last = 0 \/ u[q[Len(q)].last] = NUL
    <3>1. q[Len(q)].s <= g.last /\ o[g.last] \in Boundary \cup {NUL}
      BY <1>5, <1>13, <1>14, <1>21, <2>1
    <3>2. q[Len(q)].last = 0 \/ u[q[Len(q)].last] = NUL
      BY <1>10, <1>25, <2>1
    <3> QED BY <3>1, <3>2
  <2> QED BY <1>5, <1>21, <2>1, <2>2, <2>3, <2>4, <2>5, TopPasses
<1>28. PICK r : r = Replaced(q, Len(q), g)
  OBVIOUS
<1>29. frames' = r /\ Original' = o
  BY <1>4, <1>20, <1>26, <1>28 DEF Continue, Replaced, Original, Program
<1>30. PICK d : d = Now'
  OBVIOUS
<1>31. d = Ctx(o, u, r)
  BY <1>17, <1>29, <1>30 DEF Now
<1>32. Passes(Now, d) /\ LastsOK(o, r)
  BY <1>3, <1>4, <1>26, <1>27, <1>28, <1>31 DEF Now
<1>33. d.o = o /\ d.t = u /\ d.q = r
  BY <1>31 DEF Ctx
<1>34. Len(r) = n /\ r[n] = g /\ \A i \in 1..n : i # n => r[i] = frames[i]
  <2>1. n <= Len(frames)
    BY <1>8
  <2> QED BY <1>8, <1>26, <1>28, <2>1, ReplacedSeq
<1>35. PlaceOK(o, f.s)
  <2>1. Here \notin {NUL, NL}
    BY <1>1 DEF Boundary, Blank
  <2> QED BY <1>1, <1>2, <1>4, <2>1, HerePlaced
<1>36. ASSUME NEW v, v = f.s \/ \E j \in S : v = j + 1
       PROVE  ElementOK(d, Pointer(v, f.s))
  <2>1. PICK name : name = Named(o, v, f.s)
    OBVIOUS
  <2>2. /\ v \in Nat \ {0} /\ f.s <= v
        /\ name \in Seq(Chars \ {NUL}) /\ v + Len(name) <= end
        /\ \A j \in 1..Len(name) : u[v + j - 1] = name[j]
        /\ u[v + Len(name)] = NUL \/ v + Len(name) = end
    <3>2. v = f.s \/ \E j \in Separators(o, f.s) : v = j + 1
      BY <1>15, <1>36
    <3>3. f.last < f.s
      BY <1>10
    <3>5. /\ o \in Seq(Chars) /\ t \in Seq(Chars) /\ Len(o) = Len(t) /\ IsCall(f) /\ Reads(o, t, f)
          /\ o[f.end] \in Closers \cup {NUL} /\ t[f.s] \notin Boundary \cup {NUL}
      BY <1>5, <1>6
    <3>4. /\ v \in Nat \ {0} /\ f.s <= v
          /\ Named(o, v, f.s) \in Seq(Chars \ {NUL})
          /\ v + Len(Named(o, v, f.s)) <= WordEnd(t, f.s)
          /\ \A j \in 1..Len(Named(o, v, f.s)) :
               NamesText(t, f)[v + j - 1] = Named(o, v, f.s)[j]
          /\ \/ NamesText(t, f)[v + Len(Named(o, v, f.s))] = NUL
             \/ v + Len(Named(o, v, f.s)) = WordEnd(t, f.s)
      BY <3>2, <3>3, <3>5, NameRead
    <3> QED BY <1>11, <1>16, <2>1, <3>4
  <2>3. PICK m \in Nat : m = Len(name)
    BY <2>2
  <2>4. v + m <= end /\ end <= N
    BY <1>5, <1>7, <1>13, <2>2, <2>3
  <2>5. u[v + m] = NUL \/ \E k \in 1..n : r[k].last = v + m
    <3>1. n \in 1..n /\ r[n].last = end
      BY <1>8, <1>21, <1>34
    <3> QED BY <2>2, <2>3, <3>1
  <2>6. ASSUME NEW k \in 1..n PROVE r[k].last \notin v..(v + m - 1)
    <3>1. CASE k # n
      <4>1. r[k].last \in Nat /\ r[k].last < f.s
        BY <1>9, <1>34, <3>1
      <4> QED BY <1>5, <2>2, <4>1
    <3>2. CASE k = n
      <4>1. r[k].last = end
        BY <1>21, <1>34, <3>2
      <4> QED BY <1>13, <2>2, <2>4, <4>1
    <3> QED BY <3>1, <3>2
  <2>7. Held(d, v, name)
    <3>1. r[n].s = end /\ v + m <= N
      BY <1>7, <1>13, <1>21, <1>34, <2>2, <2>4
    <3> QED BY <1>24, <1>33, <1>34, <2>2, <2>3, <2>4, <2>5, <2>6, <3>1 DEF Held
  <2>8. PICK e : e = Pointer(v, f.s)
    OBVIOUS
  <2>9. e.at = f.s /\ e.value = v /\ e.kind = "ident"
    BY <2>8 DEF Pointer
  <2>10. Good(d, e)
    BY <1>33, <1>35, <2>1, <2>7, <2>9 DEF Good, Says
  <2> QED BY <2>8, <2>9, <2>10, ElementIs
<1>37. ElementOK(d, item)
  <2>1. ElementOK(d, Pointer(f.s, f.s))
    BY <1>36
  <2>2. \A j \in Separators(t2, f.s) : ElementOK(d, Pointer(j + 1, f.s))
    BY <1>14, <1>15, <1>36
  <2>3. WordEnd(t2, f.s) \in f.s..N
    BY <1>5, <1>7, <1>13, <1>14
  <2>4. PlaceOK(d.o, f.s)
    BY <1>33, <1>35
  <2>5. N = Len(t2) /\ f.s \in Nat
    BY <1>5, <1>22
  <2> QED BY <1>18, <2>1, <2>2, <2>3, <2>4, <2>5, TransformedOK
<1>38. CtxOK(d)
  <2>1. text' \in Seq(Chars) /\ FramesOK(Original', text', frames')
    BY DEF IInv, SourcesOK
  <2>2. CtxOK(Ctx(Original', text', frames'))
    BY <2>1, CtxFacts
  <2> QED BY <1>30, <2>2 DEF Now
<1>39. Placed(d, g.items)
  <2>1. Placed(d, f.items)
    BY <1>6, <1>32, <1>38, PlacedPasses
  <2> QED BY <1>21, <1>37, <2>1, AppendPlaced
<1>40. g.at = Top.at /\ g.end = Top.end
  BY <1>2, <1>21
<1> QED BY <1>1, <1>20, <1>29, <1>30, <1>32, <1>39, <1>40, ElementsGoOn

\* The list that a call of its own reads has no element yet.
LEMMA ElementsOpen ==
  ASSUME IInv, IInv', ElementsInv, Open
  PROVE  ElementsInv'
<1>1. phase = "reading" /\ Here \in Openers
  BY DEF Open
<1>2. Here \notin {NUL, NL}
  BY <1>1 DEF Openers, NUL, NL
<1>3. PICK q : q = frames
  OBVIOUS
<1>4. PICK t : t = text
  OBVIOUS
<1>5. PICK o : o = Original
  OBVIOUS
<1>6. /\ Top.s \in Nat \ {0} /\ Top.end \in Nat /\ t \in Seq(Chars) /\ Top.s < Top.end
      /\ Top.end <= Len(t) /\ t[Top.end] = NUL /\ IsCall(Top) /\ Reads(o, t, Top)
      /\ IsSeq(q) /\ q # << >>
      /\ \A j \in Top.s..(Top.end - 1) : t[j] # NUL
  BY <1>1, <1>2, <1>3, <1>4, <1>5, TopProps
<1>7. /\ FramesOK(o, t, q) /\ LastsOK(o, q) /\ EndsOK(o, q) /\ PlacesOK(Now, q)
      /\ Placed(Now, Top.items) /\ CtxOK(Now)
  BY <1>1, <1>3, <1>4, <1>5, TopElements DEF ElementsInv
<1>8. PICK n \in Nat : n = Len(q) /\ 1 <= n /\ Top = q[n]
  <2>1. Len(q) \in Nat /\ 1 <= Len(q) /\ Top = q[Len(q)]
    BY <1>3, <1>6, NotEmpty DEF Top
  <2> QED BY <2>1
<1>9. PICK c : c = Closer(t, Top.s)
  OBVIOUS
<1>10. CASE c = 0
  <2>1. Fail
    BY <1>4, <1>9, <1>10 DEF Open
  <2> QED BY <1>1, <2>1, ElementsFail
<1>11. CASE c # 0
  <2>1. c \in (Top.s + 1)..(Top.end - 1) /\ t[c] \in Closers
    <3>1. Top.end = Len(t) \/ Commented(t, Top.s, Top.end)
      BY <1>7, <1>8 DEF FramesOK
    <3>2. Top.s \in 1..(Top.end - 1)
      BY <1>6
    <3>3. t[Top.s] \in Openers
      BY <1>1, <1>4 DEF Here
    <3> QED BY <1>6, <1>9, <1>11, <3>1, <3>2, <3>3, CloserProps
  <2>2. c \in Nat /\ Top.s < c /\ c < Top.end
    BY <1>6, <2>1
  <2>3. PICK u : u = text'
    OBVIOUS
  <2>4. u = Cut(t, c)
    BY <1>4, <1>9, <1>11, <2>3 DEF Open
  <2>5. PICK f : f = Moved(Top, c + 1)
    OBVIOUS
  <2>6. f = [s |-> c + 1, at |-> Top.at, curly |-> Top.curly, end |-> Top.end,
             items |-> Top.items, head |-> Top.head, last |-> Top.last]
    BY <1>6, <2>5 DEF Moved, IsCall
  <2>7. /\ f.s = c + 1 /\ f.last = Top.last /\ f.at = Top.at /\ f.end = Top.end
        /\ f.items = Top.items
    BY <2>6
  <2>8. PICK r : r = Replaced(q, Len(q), f)
    OBVIOUS
  <2>9. IsSeq(r) /\ Len(r) = Len(q) /\ \A k \in 1..Len(q) : r[k].last = q[k].last
    <3>1. Len(q) \in Nat /\ 1 <= Len(q) /\ Len(q) <= Len(q)
      BY <1>8
    <3>2. /\ IsSeq(r) /\ Len(r) = Len(q) /\ r[Len(q)] = f
          /\ \A i \in 1..Len(q) : i # Len(q) => r[i] = q[i]
      BY <1>6, <2>8, <3>1, ReplacedSeq
    <3> QED BY <1>8, <2>7, <3>2
  <2>10. PICK g : g = Call(Top.s + 1, Top.s, Here = "{", c)
    OBVIOUS
  <2>11. /\ g.s = Top.s + 1 /\ g.at = Top.s /\ g.end = c /\ g.last = 0 /\ g.items = << >>
    BY <2>10 DEF Call
  <2>12. frames' = Append(r, g) /\ Original' = o /\ UNCHANGED <<sources, atfile, result, phase>>
    BY <1>3, <1>4, <1>5, <1>9, <1>11, <2>5, <2>8, <2>10
       DEF Open, Replaced, Moved, Top, Original, Program
  <2>13. Passes(Ctx(o, t, q), Ctx(o, u, Append(r, g))) /\ LastsOK(o, Append(r, g))
    <3>1. SameBefore(t, u, Top.s)
      <4>1. Top.s \in Nat /\ Top.s <= c
        BY <1>6, <2>2
      <4> QED BY <1>6, <2>2, <2>4, <4>1, CutBefore
    <3>2. /\ Len(u) = Len(t)
          /\ \A j \in 1..Len(t) : j < q[Len(q)].s => u[j] = t[j]
      BY <1>8, <3>1 DEF SameBefore
    <3>3. t[q[Len(q)].s] = NUL => u[q[Len(q)].s] = NUL
      BY <1>2, <1>4, <1>8 DEF Here
    <3>4. g.s \in Nat /\ q[Len(q)].s <= g.s /\ g.last = 0
      BY <1>6, <1>8, <2>11
    <3> QED BY <1>6, <1>7, <2>9, <3>2, <3>3, <3>4, EnterPasses
  <2>14. PICK d : d = Now'
    OBVIOUS
  <2>15. d = Ctx(o, u, Append(r, g)) /\ Now = Ctx(o, t, q) /\ d.o = o
    BY <1>3, <1>4, <1>5, <2>3, <2>12, <2>14 DEF Now, Ctx
  <2>16. CtxOK(d)
    <3>1. text' \in Seq(Chars) /\ FramesOK(Original', text', frames')
      BY DEF IInv, SourcesOK
    <3>2. CtxOK(Ctx(Original', text', frames'))
      BY <3>1, CtxFacts
    <3> QED BY <2>14, <3>2 DEF Now
  <2>17. PlacesOK(d, r)
    <3>1. Passes(Now, d)
      BY <2>13, <2>15
    <3>2. PlacesOK(d, q) /\ Placed(d, Top.items)
      BY <1>7, <2>16, <3>1, PlacesPass, PlacedPasses
    <3>3. Placed(d, f.items) /\ f.at = q[Len(q)].at
      BY <1>8, <2>7, <3>2
    <3> QED BY <1>6, <2>8, <3>2, <3>3, ReplacedPlaces
  <2>18. PlacesOK(d, Append(r, g))
    <3>1. PlaceOK(d.o, g.at)
      BY <1>1, <1>2, <1>5, <2>11, <2>15, HerePlaced
    <3>2. Placed(d, g.items)
      BY <2>11, EmptyPlaced
    <3> QED BY <2>9, <2>17, <3>1, <3>2, AppendedPlaces
  <2>19. EndsOK(o, Append(r, g))
    <3>1. f.end = q[Len(q)].end
      BY <1>8, <2>7
    <3>2. EndsOK(o, r)
      BY <1>6, <1>7, <2>8, <3>1, ReplacedEnds
    <3>3. o[g.end] \in Closers \cup {NUL}
      <4>1. c \in Top.s..(Top.end - 1)
        BY <1>6, <2>2
      <4>2. t[c] = o[c]
        BY <1>6, <4>1 DEF Reads
      <4> QED BY <2>1, <2>11, <4>2
    <3> QED BY <2>9, <3>2, <3>3, AppendedEnds
  <2>20. PlacesOK(Now', frames') /\ LastsOK(Original', frames') /\ EndsOK(Original', frames')
    BY <2>12, <2>13, <2>14, <2>18, <2>19
  <2> QED BY <1>1, <2>12, <2>20 DEF ElementsInv
<1> QED BY <1>10, <1>11

\* What the call has read becomes the result, or an element of the list around.
LEMMA ElementsReturn ==
  ASSUME IInv, IInv', ElementsInv, Return
  PROVE  ElementsInv'
<1>1. phase = "reading" /\ Here = NUL /\ UNCHANGED <<sources, atfile>>
  BY DEF Return
<1>2. PICK q : q = frames
  OBVIOUS
<1>3. PICK t : t = text
  OBVIOUS
<1>4. PICK o : o = Original
  OBVIOUS
<1>5. t \in Seq(Chars) /\ IsSeq(q) /\ q # << >> /\ IsCall(Top)
  BY <1>1, <1>2, <1>3, TopProps
<1>6. /\ FramesOK(o, t, q) /\ LastsOK(o, q) /\ EndsOK(o, q) /\ PlacesOK(Now, q)
      /\ Placed(Now, Top.items) /\ CtxOK(Now)
  BY <1>1, <1>2, <1>3, <1>4, TopElements DEF ElementsInv
<1>7. PICK n \in Nat : n = Len(q) /\ 1 <= n /\ Top = q[n]
  <2>1. Len(q) \in Nat /\ 1 <= Len(q) /\ Top = q[Len(q)]
    BY <1>2, <1>5, NotEmpty DEF Top
  <2> QED BY <2>1
<1>8. PICK u : u = text'
  OBVIOUS
<1>9. u = Terminated(t, q[Len(q)].last) /\ t[q[Len(q)].s] = NUL
  BY <1>1, <1>3, <1>7, <1>8 DEF Return, Here
<1>10. Original' = o
  BY <1>1, <1>4 DEF Original, Program
<1>11. PICK d : d = Now'
  OBVIOUS
<1>12. CtxOK(d)
  <2>1. text' \in Seq(Chars) /\ FramesOK(Original', text', frames')
    BY DEF IInv, SourcesOK
  <2>2. CtxOK(Ctx(Original', text', frames'))
    BY <2>1, CtxFacts
  <2> QED BY <1>11, <2>2 DEF Now
<1>13. Now = Ctx(o, t, q) /\ d = Ctx(o, u, frames') /\ d.o = o
  BY <1>2, <1>3, <1>4, <1>8, <1>10, <1>11 DEF Now, Ctx
<1>14. CASE n = 1
  <2>1. result' = Top.items /\ frames' = << >>
    BY <1>2, <1>7, <1>14 DEF Return
  <2>2. PICK r : r = << >>
    OBVIOUS
  <2>3. Passes(Ctx(o, t, q), Ctx(o, u, r)) /\ LastsOK(o, r)
    <3>1. Len(r) = Len(q) - 1 /\ (Len(q) = 1 => r = << >>)
      BY <1>7, <1>14, <2>2
    <3>2. \A k \in 1..(Len(q) - 1) : r[k].last = q[k].last /\ r[k].s = q[k].s
      BY <1>7, <1>14
    <3> QED BY <1>5, <1>6, <1>9, <3>1, <3>2, ReturnPasses
  <2>4. Placed(Now', result')
    <3>1. Passes(Now, d)
      BY <1>13, <2>1, <2>2, <2>3
    <3>2. Placed(d, Top.items)
      BY <1>6, <1>12, <3>1, PlacedPasses
    <3> QED BY <1>11, <2>1, <3>2
  <2>5. PlacesOK(Now', << >>) /\ LastsOK(Original', << >>) /\ EndsOK(Original', << >>)
    BY DEF PlacesOK, LastsOK, EndsOK
  <2> QED BY <1>1, <2>1, <2>4, <2>5 DEF ElementsInv
<1>15. CASE n # 1
  <2>1. n - 1 \in 1..n /\ n - 2 \in Nat /\ n > 1
    BY <1>7, <1>15
  <2>2. PICK around : around = q[n - 1]
    OBVIOUS
  <2>3. PICK name : name = IF Top.curly THEN <<Scope(Top.at)>> ELSE << >>
    OBVIOUS
  <2>4. PICK item : item = List(name \o Top.items, Top.at)
    OBVIOUS
  <2>5. PICK f : f = Inserted(around, item, around.s)
    OBVIOUS
  <2>6. PICK p : p = SubSeq(q, 1, n - 2)
    OBVIOUS
  <2>7. PICK r : r = Append(p, f)
    OBVIOUS
  <2>8. frames' = r /\ UNCHANGED <<result, phase>>
    BY <1>2, <1>7, <1>15, <2>2, <2>3, <2>4, <2>5, <2>6, <2>7 DEF Return
  <2>9. IsCall(around)
    BY <1>6, <1>7, <2>1, <2>2 DEF FramesOK
  <2>10. /\ f.s = around.s /\ f.end = around.end /\ f.last = around.last
         /\ f.items = Append(around.items, item) /\ f.at = around.at
    <3>1. around.s \in Nat /\ around.s <= around.s /\ around.s <= around.end
      BY <2>9 DEF IsCall
    <3> QED BY <2>5, <2>9, <3>1, InsertedProps, InsertedItems
  <2>11. IsSeq(p) /\ Len(p) = n - 2 /\ \A i \in 1..(n - 2) : p[i] = q[i]
    <3>1. n - 2 <= Len(q)
      BY <1>7
    <3> QED BY <1>5, <2>1, <2>6, <3>1, PrefixSeq
  <2>12. Len(r) = n - 1 /\ r[n - 1] = f /\ \A i \in 1..(n - 2) : r[i] = p[i]
    <3>1. Len(p) + 1 = n - 1
      BY <1>7, <2>11
    <3>2. Len(r) = Len(p) + 1 /\ r[Len(p) + 1] = f /\ \A i \in 1..Len(p) : r[i] = p[i]
      BY <2>7, <2>11, AppendSeq
    <3> QED BY <2>11, <3>1, <3>2
  <2>13. Passes(Ctx(o, t, q), Ctx(o, u, r)) /\ LastsOK(o, r)
    <3>1. Len(r) = Len(q) - 1 /\ (Len(q) = 1 => r = << >>)
      BY <1>7, <1>15, <2>12
    <3>2. ASSUME NEW k \in 1..(Len(q) - 1)
          PROVE  r[k].last = q[k].last /\ r[k].s = q[k].s
      <4>1. CASE k = n - 1
        BY <2>2, <2>10, <2>12, <4>1
      <4>2. CASE k # n - 1
        <5>1. k \in 1..(n - 2)
          BY <1>7, <4>2
        <5> QED BY <2>11, <2>12, <5>1
      <4> QED BY <4>1, <4>2
    <3> QED BY <1>5, <1>6, <1>9, <3>1, <3>2, ReturnPasses
  <2>14. PlacesOK(d, q) /\ Placed(d, Top.items)
    <3>1. Passes(Now, d)
      BY <1>13, <2>8, <2>13
    <3> QED BY <1>6, <1>12, <3>1, PlacesPass, PlacedPasses
  <2>15. PlaceOK(d.o, Top.at)
    BY <1>7, <2>1, <2>14 DEF PlacesOK
  <2>16. Placed(d, name \o Top.items)
    <3>1. ElementOK(d, Scope(Top.at))
      BY <2>15, LeafOK DEF Scope
    <3>2. /\ Placed(d, <<Scope(Top.at)>> \o Top.items)
          /\ Placed(d, << >> \o Top.items)
      BY <2>14, <3>1, BehindPlaced
    <3> QED BY <2>3, <3>2
  <2>17. ElementOK(d, item)
    BY <2>4, <2>15, <2>16, ListOK
  <2>18. Placed(d, around.items) /\ (n - 1 > 1 => PlaceOK(d.o, around.at))
    BY <1>7, <2>1, <2>2, <2>14 DEF PlacesOK
  <2>19. Placed(d, f.items)
    BY <2>10, <2>17, <2>18, AppendPlaced
  <2>20. PlacesOK(d, p) /\ EndsOK(o, p)
    <3>1. n - 2 <= Len(q)
      BY <1>7
    <3> QED BY <1>5, <1>6, <2>1, <2>6, <2>14, <3>1, PrefixPlaces, PrefixEnds
  <2>21. p # << >> => PlaceOK(d.o, f.at)
    <3> SUFFICES ASSUME p # << >> PROVE PlaceOK(d.o, f.at)
      OBVIOUS
    <3>1. n - 1 > 1
      BY <1>7, <2>11, NotEmpty
    <3> QED BY <2>10, <2>18, <3>1
  <2>22. PlacesOK(d, r)
    BY <2>7, <2>11, <2>19, <2>20, <2>21, AppendedPlaces
  <2>23. EndsOK(o, r)
    <3>1. o[f.end] \in Closers \cup {NUL}
      BY <1>6, <1>7, <2>1, <2>2, <2>10 DEF EndsOK
    <3> QED BY <2>7, <2>11, <2>20, <3>1, AppendedEnds
  <2>24. PlacesOK(Now', frames') /\ LastsOK(Original', frames') /\ EndsOK(Original', frames')
    BY <1>10, <1>11, <2>8, <2>13, <2>22, <2>23
  <2> QED BY <1>1, <2>8, <2>24 DEF ElementsInv
<1> QED BY <1>14, <1>15

LEMMA ElementsRead ==
  ASSUME IInv, IInv', ElementsInv, NEW p, Read(p)
  PROVE  ElementsInv'
<1>1. PICK m \in Nat : m = Len(sources)
  BY DEF IInv, SourcesOK
<1>2. Len(sources') = m + 1 /\ sources' # << >> /\ sources'[m + 1] = p
  <2>1. sources' = Append(sources, p) /\ IsSeq(sources)
    BY DEF IInv, SourcesOK, Read, IsSeq
  <2>2. Len(sources') = m + 1 /\ IsSeq(sources') /\ sources'[m + 1] = p
    BY <1>1, <2>1, AppendSeq
  <2> QED BY <2>2, NotEmpty
<1>3. m + 1 < Indices => atfile' = m + 1
  <2> SUFFICES ASSUME m + 1 < Indices PROVE atfile' = m + 1
    OBVIOUS
  <2>1. atfile = m
    BY <1>1, IndexAssumption DEF ElementsInv
  <2>2. atfile' = (m + 1) % Indices
    BY <2>1 DEF Read, Numbered
  <2> QED BY <1>1, <2>2, IndexAssumption
<1>4. Original' = text'
  BY <1>2 DEF Read, Original, Program
<1>5. PICK f : f = Call(1, 1, FALSE, Len(text'))
  OBVIOUS
<1>6. frames' = <<f>> /\ phase' = "reading"
  BY <1>5 DEF Read
<1>7. f.items = << >> /\ f.last = 0 /\ f.end = Len(text')
  BY <1>5 DEF Call
<1>8. PlacesOK(Now', <<f>>)
  <2>1. PICK d : d = Now'
    OBVIOUS
  <2>2. Placed(d, f.items)
    BY <1>7, EmptyPlaced
  <2> QED BY <2>1, <2>2 DEF PlacesOK
<1>9. LastsOK(Original', <<f>>)
  BY <1>7 DEF LastsOK
<1>10. EndsOK(Original', <<f>>)
  <2>1. text'[f.end] = NUL
    <3>1. FramesOK(Original', text', <<f>>)
      BY <1>6 DEF IInv
    <3>2. Len(<<f>>) = 1 /\ <<f>>[1] = f
      OBVIOUS
    <3> QED BY <3>1, <3>2 DEF FramesOK, Reads
  <2> QED BY <1>4, <2>1 DEF EndsOK
<1> QED BY <1>2, <1>3, <1>6, <1>8, <1>9, <1>10 DEF ElementsInv

LEMMA ElementsInductive == IInv /\ ElementsInv /\ [Next]_vars => ElementsInv'
<1> SUFFICES ASSUME IInv, IInv', ElementsInv, [Next]_vars PROVE ElementsInv'
  BY Inductive
<1>1. ASSUME NEW p, Read(p) PROVE ElementsInv'
  BY <1>1, ElementsRead
<1>2. CASE Skip
  BY <1>2, ElementsSkip
<1>3. CASE Comment
  BY <1>3, ElementsComment
<1>4. CASE Open
  BY <1>4, ElementsOpen
<1>5. CASE Return
  BY <1>5, ElementsReturn
<1>6. CASE Semicolon
  BY <1>6, ElementsSemicolon
<1>7. CASE String
  BY <1>7, ElementsString
<1>8. CASE Char
  BY <1>8, ElementsChar
<1>9. CASE Number
  BY <1>9, ElementsNumber
<1>10. CASE Identifier
  BY <1>10, ElementsIdentifier
<1>11. CASE UNCHANGED vars
  <2>1. Now' = Now /\ Original' = Original
    BY <1>11 DEF vars, Now, Original, Program
  <2> QED BY <1>11, <2>1 DEF vars, ElementsInv
<1> QED BY <1>1, <1>2, <1>3, <1>4, <1>5, <1>6, <1>7, <1>8, <1>9, <1>10, <1>11 DEF Next

LEMMA ElementsInitially == Init => ElementsInv
<1>1. Init => PlacesOK(Now, frames) /\ LastsOK(Original, frames) /\ EndsOK(Original, frames)
  BY DEF Init, PlacesOK, LastsOK, EndsOK
<1> QED BY <1>1 DEF Init, ElementsInv

\* The elements of lists are as good as the lists, however deep they lie.
LEMMA ElementsPlaced ==
  ASSUME NEW c, Placed(c, result), Len(text) \in Nat
  PROVE  \A e \in Elements : Good(c, e)
<1>1. PICK S : Closed(c, S) /\ Range(result) \subseteq S
  BY DEF Placed
<1>2. PICK N \in Nat : N = Len(text)
  OBVIOUS
<1>3. \A X \in SUBSET S : Inner(X) \in SUBSET S
  BY <1>1 DEF Closed, Inner
<1> DEFINE B(f, n) == IF n = 0 THEN Range(result) ELSE Inner(f[n - 1])
           deep == CHOOSE f : f = [n \in 0..N |-> B(f, n)]
           V == SUBSET S
           G == [x \in [1..(N + 1) -> V] \X (1..(N + 1)) |->
                   IF x[2] = N + 1 THEN Range(result) ELSE Inner(x[1][x[2] + 1])]
<1>4. Elements = UNION {deep[n] : n \in 0..N}
  BY <1>2 DEF Elements
\* Counted from the deepest level, the function is computed backwards.
<1>5. PICK f : IsComputed(f, G, N + 1, V)
  <2>1. \A g \in [1..(N + 1) -> V] : \A m \in 1..(N + 1) :
          G[<<g, m>>] = IF m = N + 1 THEN Range(result) ELSE Inner(g[m + 1])
    OBVIOUS
  <2>2. ASSUME NEW g \in [1..(N + 1) -> V], NEW m \in 1..(N + 1)
        PROVE  /\ G[<<g, m>>] \in V
               /\ \A h \in [1..(N + 1) -> V] :
                    (\A k \in (m + 1)..(N + 1) : g[k] = h[k]) => G[<<g, m>>] = G[<<h, m>>]
    <3> HIDE DEF G
    <3>1. CASE m = N + 1
      <4>1. \A h \in [1..(N + 1) -> V] : G[<<h, m>>] = Range(result)
        BY <2>1, <3>1
      <4> QED BY <1>1, <4>1
    <3>2. CASE m # N + 1
      <4>1. m + 1 \in (m + 1)..(N + 1) /\ m + 1 \in 1..(N + 1)
        BY <3>2
      <4>2. \A h \in [1..(N + 1) -> V] : G[<<h, m>>] = Inner(h[m + 1])
        BY <2>1, <3>2
      <4>3. g[m + 1] \in V
        BY <4>1
      <4> QED BY <1>3, <4>1, <4>2, <4>3
    <3> QED BY <3>1, <3>2
  <2>3. GoesBackwards(G, N + 1, V)
    <3> HIDE DEF G, V
    <3> QED BY <2>2 DEF GoesBackwards
  <2>4. V # {} /\ N + 1 \in Nat
    OBVIOUS
  <2> HIDE DEF G, V
  <2> QED BY <2>3, <2>4, Backwards
<1>6. PICK d : d = [n \in 0..N |-> f[N + 1 - n]]
  OBVIOUS
<1>7. ASSUME NEW n \in 0..N PROVE d[n] = B(d, n) /\ d[n] \in V
  <2>1. N + 1 - n \in 1..(N + 1) /\ d[n] = f[N + 1 - n]
    BY <1>6
  <2>2. f \in [1..(N + 1) -> V] /\ f[N + 1 - n] = G[<<f, N + 1 - n>>]
    BY <1>5, <2>1 DEF IsComputed
  <2>3. f[N + 1 - n] = IF N + 1 - n = N + 1 THEN Range(result) ELSE Inner(f[(N + 1 - n) + 1])
    BY <2>1, <2>2
  <2> HIDE DEF V, G
  <2>4. CASE n = 0
    BY <2>1, <2>2, <2>3, <2>4
  <2>5. CASE n # 0
    <3>1. n - 1 \in 0..N /\ (N + 1 - n) + 1 = N + 1 - (n - 1) /\ N + 1 - n # N + 1
      BY <2>5
    <3>2. d[n - 1] = f[N + 1 - (n - 1)]
      BY <1>6, <3>1
    <3> QED BY <2>1, <2>2, <2>3, <2>5, <3>1, <3>2
  <2> QED BY <2>4, <2>5
<1>8. d = [n \in 0..N |-> B(d, n)]
  <2> HIDE DEF B
  <2>1. d = [n \in 0..N |-> d[n]]
    BY <1>6
  <2> QED BY <1>7, <2>1
<1>9. deep = [n \in 0..N |-> B(deep, n)]
  <2> HIDE DEF B
  <2> QED BY <1>8
<1>10. \A n \in 0..N : deep[n] = B(deep, n)
  <2> HIDE DEF B, deep
  <2> QED BY <1>9
<1> HIDE DEF deep
<1> DEFINE Bad == {n \in 0..N : ~(deep[n] \in V)}
<1>11. Bad = {}
  <2> SUFFICES ASSUME Bad # {} PROVE FALSE
    OBVIOUS
  <2>1. PICK m : m = Min(Bad)
    OBVIOUS
  <2>2. m \in Bad /\ \A j \in Bad : m <= j
    <3>1. Bad \in SUBSET Nat
      OBVIOUS
    <3> HIDE DEF Bad
    <3> QED BY <2>1, <3>1, LeastOf
  <2>3. m \in 0..N /\ deep[m] = B(deep, m)
    BY <1>10, <2>2
  <2>4. CASE m = 0
    BY <1>1, <2>2, <2>3, <2>4
  <2>5. CASE m # 0
    <3>1. m - 1 \in 0..N /\ ~(m <= m - 1)
      BY <2>3, <2>5
    <3>2. deep[m - 1] \in SUBSET S
      BY <2>2, <3>1
    <3> QED BY <1>3, <2>2, <2>3, <2>5, <3>2
  <2> QED BY <2>4, <2>5
<1>12. Elements \subseteq S
  BY <1>4, <1>11
<1> QED BY <1>1, <1>12 DEF Closed

\* Counting up to a place finds its line, and the last end of a line before it
\* is as far away as there are characters between them.
LEMMA CountedLines ==
  ASSUME NEW t, NEW at \in Nat \ {0}, t[at] # NL
  PROVE  /\ Cardinality(LinesBefore(t, at)) = Cardinality({j \in 1..(at - 1) : t[j] = NL})
         /\ at - 1 - Max(LinesBefore(t, at) \cup {0}) = Column(t, at)
<1>1. PICK lines : lines = LinesBefore(t, at)
  OBVIOUS
<1>2. lines = {j \in 1..(at - 1) : t[j] = NL}
  BY <1>1 DEF LinesBefore
<1>3. PICK last : last = Max(lines \cup {0})
  OBVIOUS
<1>4. last \in lines \cup {0} /\ \A j \in lines \cup {0} : j <= last
  <2>1. lines \cup {0} \in SUBSET (0..(at - 1)) /\ lines \cup {0} # {}
    BY <1>2
  <2>2. at - 1 \in Nat
    OBVIOUS
  <2> QED BY <1>3, <2>1, <2>2, GreatestOf
<1>5. last \in 0..(at - 1)
  BY <1>2, <1>4
<1>6. PICK rest : rest = {j \in 1..(at - 1) : \A k \in j..(at - 1) : t[k] # NL}
  OBVIOUS
<1>7. rest = (last + 1)..(at - 1)
  <2>1. ASSUME NEW j \in rest PROVE j \in (last + 1)..(at - 1)
    <3>1. j \in 1..(at - 1) /\ \A k \in j..(at - 1) : t[k] # NL
      BY <1>6
    <3>2. ~(j <= last)
      <4> SUFFICES ASSUME j <= last PROVE FALSE
        OBVIOUS
      <4>1. last \in j..(at - 1) /\ last # 0
        BY <1>5, <3>1
      <4>2. t[last] = NL
        BY <1>2, <1>4, <4>1
      <4> QED BY <3>1, <4>1, <4>2
    <3> QED BY <1>5, <3>1, <3>2
  <2>2. ASSUME NEW j \in (last + 1)..(at - 1) PROVE j \in rest
    <3>1. j \in 1..(at - 1)
      BY <1>5
    <3>2. ASSUME NEW k \in j..(at - 1), t[k] = NL PROVE FALSE
      <4>1. k \in lines
        BY <1>2, <3>1, <3>2
      <4>2. k <= last
        BY <1>4, <4>1
      <4> QED BY <1>5, <4>2
    <3> QED BY <1>6, <3>1, <3>2
  <2> QED BY <2>1, <2>2
<1>8. Cardinality(rest) = at - 1 - last
  <2>1. last + 1 \in Int /\ at - 1 \in Int
    BY <1>5
  <2>2. Cardinality((last + 1)..(at - 1))
          = IF last + 1 > at - 1 THEN 0 ELSE (at - 1) - (last + 1) + 1
    BY <2>1, FS_Interval
  <2> QED BY <1>5, <1>7, <2>2
<1>9. Column(t, at) = at - 1 - last
  BY <1>6, <1>8 DEF Column
<1> QED BY <1>1, <1>2, <1>3, <1>9

\* As long as the number of a text fits, an error is reported at the line and
\* the character of the program at which its element began, in whatever list
\* that lies and however many texts have been read (list.c:341-371).
THEOREM LocatedCorrect == Spec => []Located
<1>1. IInv /\ ElementsInv => Located
  <2> SUFFICES ASSUME IInv, ElementsInv, phase = "done", Len(sources) < Indices
               PROVE  /\ get_source_file(atfile) = Program
                      /\ \A e \in Elements :
                           get_loc_info(atfile, e.at) = [line |-> Line(Text(Program), e.at),
                                                         chr  |-> Column(Text(Program), e.at)]
    BY DEF Located
  <2>1. atfile = Len(sources) /\ atfile # 0
    <3>1. IsSeq(sources) /\ sources # << >> /\ atfile = Len(sources)
      BY DEF ElementsInv, IInv, SourcesOK, IsSeq
    <3> QED BY <3>1, NotEmpty
  <2>2. get_source_file(atfile) = Program
    BY <2>1 DEF get_source_file, Program
  <2>3. PICK t : t = Text(Program)
    OBVIOUS
  <2>4. Original = Append(t, NUL) /\ t \in Seq(Chars \ {NUL})
    BY <2>3, ProgramText DEF ElementsInv, IInv, Original
  <2>5. PICK n \in Nat : n = Len(t)
    BY <2>4
  <2>6. ASSUME NEW e \in Elements
        PROVE  get_loc_info(atfile, e.at) = [line |-> Line(t, e.at), chr |-> Column(t, e.at)]
    <3>1. PlaceOK(Original, e.at)
      <4>1. Len(text) \in Nat /\ Placed(Now, result)
        BY DEF IInv, SourcesOK, ElementsInv
      <4>2. Good(Now, e)
        BY <4>1, ElementsPlaced
      <4> QED BY <4>2 DEF Good, Now, Ctx
    <3>2. e.at \in 1..n /\ t[e.at] # NL
      <4>1. Len(Original) = n + 1 /\ \A j \in 1..n : Original[j] = t[j]
        BY <2>4, <2>5
      <4> QED BY <3>1, <4>1 DEF PlaceOK
    <3>3. PICK at \in Nat \ {0} : at = e.at
      BY <3>2
    <3>4. get_loc_info(atfile, at)
            = [line |-> 1 + Cardinality(LinesBefore(t, at)),
               chr |-> at - 1 - Max(LinesBefore(t, at) \cup {0})]
      BY <2>2, <2>3 DEF get_loc_info
    <3> QED BY <3>2, <3>3, <3>4, CountedLines DEF Line
  <2> QED BY <2>2, <2>3, <2>6
<1>2. IInv /\ ElementsInv /\ [Next]_vars => (IInv /\ ElementsInv)'
  BY Inductive, ElementsInductive
<1> QED BY <1>1, <1>2, Initially, ElementsInitially, PTL DEF Spec

LEMMA PartIs ==
  ASSUME NEW t, NEW a \in Int, NEW b \in Int
  PROVE  SubSeq(t, a, b) = [i \in 1..(1 + b - a) |-> t[i + a - 1]]
BY DEF SubSeq

LEMMA Within ==
  ASSUME NEW v \in Nat, NEW n \in Nat, NEW x \in v..(v + n), x # v + n
  PROVE  x - v + 1 \in 1..n /\ v + (x - v + 1) - 1 = x
OBVIOUS

\* The string behind a pointer ends at the first NUL.
LEMMA StringIs ==
  ASSUME NEW t \in Seq(Chars), NEW v \in Nat \ {0}, NEW u \in Seq(Chars \ {NUL}),
         v + Len(u) <= Len(t), t[v + Len(u)] = NUL,
         \A j \in 1..Len(u) : t[v + j - 1] = u[j]
  PROVE  StringAt(t, v) = u
<1>1. PICK n \in Nat : n = Len(u)
  OBVIOUS
<1>2. PICK N \in Nat : N = Len(t)
  OBVIOUS
<1>3. First(t, v, {NUL}) = v + n
  <2>1. PICK x : x = First(t, v, {NUL})
    OBVIOUS
  <2>2. x \in v..(v + n) /\ t[x] = NUL
    <3>1. v + n \in v..Len(t) /\ t[v + n] \in {NUL}
      BY <1>1, <1>2
    <3> QED BY <2>1, <3>1, FirstProps
  <2>3. x # v + n => FALSE
    <3> SUFFICES ASSUME x # v + n PROVE FALSE
      OBVIOUS
    <3>1. x - v + 1 \in 1..n /\ v + (x - v + 1) - 1 = x
      BY <2>2, Within
    <3>2. PICK j \in 1..n : j = x - v + 1 /\ v + j - 1 = x
      BY <3>1
    <3>3. u[j] \in Chars \ {NUL}
      BY <1>1
    <3>4. t[x] = u[j]
      BY <1>1, <3>2
    <3> QED BY <2>2, <3>3, <3>4
  <2> QED BY <2>1, <2>3
<1>4. PICK w \in Int : w = v + n - 1
  OBVIOUS
<1>5. SubSeq(t, v, w) = u
  <2>1. SubSeq(t, v, w) = [i \in 1..(1 + w - v) |-> t[i + v - 1]]
    BY PartIs
  <2>2. 1 + w - v = n /\ \A i \in 1..n : i + v - 1 = v + i - 1
    BY <1>4
  <2>3. SubSeq(t, v, w) = [i \in 1..n |-> t[v + i - 1]]
    BY <2>1, <2>2
  <2>4. u = [i \in 1..n |-> u[i]]
    BY <1>1
  <2>5. \A i \in 1..n : t[v + i - 1] = u[i]
    BY <1>1
  <2> QED BY <2>3, <2>4, <2>5
<1>6. StringAt(t, v) = SubSeq(t, v, First(t, v, {NUL}) - 1)
  BY DEF StringAt
<1>7. First(t, v, {NUL}) - 1 = w
  BY <1>3, <1>4
<1> QED BY <1>5, <1>6, <1>7

\* Writing terminators late and over what has been read, the reader leaves
\* behind every name and every string literal, however deep, the characters
\* that an unaltered copy of the program has there (list.c:690-770).
THEOREM NamesCorrect == Spec => []NamesAreWhole
<1>1. IInv /\ ElementsInv => NamesAreWhole
  <2> SUFFICES ASSUME IInv, ElementsInv, phase = "done",
                      NEW e \in Elements, e.kind \in {"ident", "string"}
               PROVE  StringAt(text, e.value) = Says(Original, e)
    BY DEF NamesAreWhole
  <2>1. text \in Seq(Chars) /\ Placed(Now, result) /\ frames = << >>
    BY DEF IInv, SourcesOK, ElementsInv
  <2>2. Good(Now, e)
    <3>1. Len(text) \in Nat
      BY <2>1
    <3> QED BY <2>1, <3>1, ElementsPlaced
  <2>3. PICK u : u = Says(Original, e)
    OBVIOUS
  <2>4. Held(Now, e.value, u)
    BY <2>2, <2>3 DEF Good, Now, Ctx
  <2>5. Now.t = text /\ Now.q = << >>
    BY <2>1 DEF Now, Ctx
  <2>6. /\ e.value \in Nat \ {0} /\ u \in Seq(Chars \ {NUL})
        /\ e.value + Len(u) <= Len(text)
        /\ \A j \in 1..Len(u) : text[e.value + j - 1] = u[j]
        /\ text[e.value + Len(u)] = NUL
    BY <2>4, <2>5 DEF Held
  <2>7. StringAt(text, e.value) = u
    BY <2>1, <2>6, StringIs
  <2> QED BY <2>3, <2>7
<1>2. IInv /\ ElementsInv /\ [Next]_vars => (IInv /\ ElementsInv)'
  BY Inductive, ElementsInductive
<1> QED BY <1>1, <1>2, Initially, ElementsInitially, PTL DEF Spec
=============================================================================
