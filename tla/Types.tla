-------------------------------- MODULE Types --------------------------------
(***************************************************************************)
(* Types and conversions: type.c, basictypes.c, structs.c and the parts of *)
(* eval.c, var.c and def.dlr that make or use values.  Every value has two *)
(* types, the LLVM type of the instruction that computes it and the type   *)
(* the language gives it (struct rtv: v, t).  Nothing keeps them together  *)
(* but the code below.  A compile error, or a NULL that is dereferenced,   *)
(* ends the program: it has no successor here.                             *)
(*                                                                         *)
(* A type is the sequence of props that its outermost prop leads to.  A    *)
(* pointer is followed by what it points to (if it has a type), an array   *)
(* by the type of its elements, an alias by the type it stands for (if it  *)
(* is not opaque).  A prop is compared as a pointer; that of an array      *)
(* names the declaration that made it, since every evaluation of           *)
(* (array n T) allocates a new one.  An LLVM type is a sequence, too.      *)
(***************************************************************************)
EXTENDS Integers, Sequences, FiniteSets

CONSTANTS
  Var,       \* variables of the function that is compiled
  TypeExpr,  \* type expressions: a name, after any number of ptr and array
  Alias,     \* name of an alias |-> the type expressions it may stand for
  Struct,    \* name of a struct |-> the lists of members it may have
  Fun,       \* function |-> [parm, ret], two type expressions
  Slot,      \* operands of the expression that is compiled
  None

Expr == {e \in Seq(STRING) \ {<< >>} :
           \A i \in 1..(Len(e) - 1) : e[i] \in {"ptr", "array"}}

ASSUME NoneAssumption   == None \notin Nat \X Nat
ASSUME ExprAssumption   == TypeExpr \subseteq Expr
ASSUME AliasAssumption  == \A n \in DOMAIN Alias : Alias[n] \subseteq Expr
ASSUME StructAssumption ==
  \A n \in DOMAIN Struct : Struct[n] \subseteq
    Seq([union: BOOLEAN, memb: Seq([type: Expr, name: STRING]) \ {<< >>}])
ASSUME FunAssumption    == Fun \in [DOMAIN Fun -> [parm: Expr, ret: Expr]]

VARIABLES
  types,    \* map_types: a name |-> the type that its macro returns
  aliases,  \* name |-> its struct typealias: t, an LLVM type
  structs,  \* name |-> struct structprop: memb and the LLVM body
  locals,   \* funvars in scope: name |-> struct rtv
  slot,     \* what eval has returned
  built     \* the last instruction: the type LLVM wants and the one it gets

vars == <<types, aliases, structs, locals, slot, built>>

Integer(n, signed) == <<"integer", n, signed>>
Float(n)           == <<"float", n>>
Pointer            == <<"pointer">>
Array(owner)       == <<"array", owner>>
AliasOf(n)         == <<"alias", n>>
StructOf(n)        == <<"struct", n>>
FunptrOf(f)        == <<"funptr", f>>

PointerTo(t) == <<Pointer>> \o t
Untyped      == <<Pointer>>
Class(t)     == t[1][1]
\* basictypes_integer stores its size and sign, basictypes_float a rank.
Num(t)       == t[1][2]

Ptr(l) == <<<<"ptr">>>> \o l
Byte   == <<<<"i", 8>>>>

\* An rtv.  "loose": its type was asserted, its LLVM value left as it was.
Rtv(l, t, lv, loose) == [l |-> l, t |-> t, lv |-> lv, loose |-> loose]
Rtt(l, t)            == [l |-> l, t |-> t, loose |-> FALSE]

From(s, i) == SubSeq(s, i, Len(s))
\* How many of the positions 1..n come before the first that is not in S.
Leading(n, S) ==
  CHOOSE k \in 0..n : 1..k \subseteq S /\ (k < n => k + 1 \notin S)

\* LLVM type of a type: that of an alias is the one it was created with.
LowerProp(p) == CASE p[1] = "integer" -> <<"i", p[2]>>
                  [] p[1] = "float"   -> <<"f", p[2]>>
                  [] p[1] = "pointer" -> <<"ptr">>
                  [] p[1] = "array"   -> <<"array">>
                  [] p[1] = "struct"  -> <<"struct", p[2]>>
                  [] p[1] = "funptr"  -> <<"fun", p[2]>>
Visible(t) == Leading(Len(t), {i \in DOMAIN t : t[i][1] # "alias"})
Lower(t) ==
  LET k == Visible(t)
  IN  [i \in 1..k |-> LowerProp(t[i])]
      \o (CASE k < Len(t)                      -> aliases[t[k + 1][2]]
            [] k = Len(t) /\ t[k] = Pointer    -> Byte
            [] k = Len(t) /\ t[k] # Pointer    -> << >>)

Known(e) == e[Len(e)] \in DOMAIN types \cup DOMAIN Fun \cup {"ptr"}

\* eval_type, for a declaration of "owner".
Base(n) == IF n = "ptr" THEN Untyped
           ELSE IF n \in DOMAIN Fun THEN <<FunptrOf(n)>> ELSE types[n]
EvalType(e, owner) ==
  [i \in 1..(Len(e) - 1) |-> IF e[i] = "ptr" THEN Pointer ELSE Array(owner)]
  \o Base(e[Len(e)])
-----------------------------------------------------------------------------
\* What the compiler registers before it reads a file.
Basic ==
  [bool |-> <<Integer(1, TRUE)>>, i8 |-> <<Integer(8, TRUE)>>,
   u8 |-> <<Integer(8, FALSE)>>, i32 |-> <<Integer(32, TRUE)>>,
   u32 |-> <<Integer(32, FALSE)>>, i64 |-> <<Integer(64, TRUE)>>,
   float |-> <<Float(1)>>, double |-> <<Float(2)>>, val |-> <<AliasOf("val")>>]

Init ==
  /\ types = Basic
  /\ aliases = [val |-> Ptr(Byte)]
  /\ structs = << >>
  /\ locals = << >>
  /\ slot = [s \in Slot |-> None]
  /\ built = None

\* register_type: a name is given once.
NewName(n)         == n \notin DOMAIN types
AnyName(n)         == TRUE
MayRegister(n)     == NewName(n)
Extended(f, n, v)  == [x \in DOMAIN f \cup {n} |-> IF x = n THEN v ELSE f[x]]
Register(n, t)     == /\ MayRegister(n)
                      /\ types' = Extended(types, n, t)

\* create_alias keeps the LLVM type that the aliased type has now.
CreateAlias(n, e) ==
  /\ Known(e)
  /\ LET l == EvalType(e, n) IN
       /\ aliases' = Extended(aliases, n, Lower(l))
       /\ Register(n, <<AliasOf(n)>> \o l)
  /\ built' = None
  /\ UNCHANGED <<structs, locals, slot>>

\* GetTypeSize, of the types that the unions of Struct have.
Size(l) == LET p == l[1] IN
  CASE p[1] = "i"   -> IF p[2] > 8 THEN p[2] \div 8 ELSE 1
    [] p[1] = "f"   -> 4 * p[2]
    [] p[1] = "ptr" -> 8

Memb(name, type, unionmain, llvmnum) ==
  [name |-> name, type |-> type, unionmain |-> unionmain, llvmnum |-> llvmnum]

\* The place of a member: the item of the list and its number in the item.
Members(item)         == IF item.union THEN item.memb ELSE <<item.memb[1]>>
Places(decl)          == UNION {{j} \X DOMAIN Members(decl[j]) : j \in DOMAIN decl}
TypeAt(n, decl, j, i) == EvalType(Members(decl[j])[i].type, n)

\* The first of the longest members of a union.
IsLongest(n, decl, j, m) ==
  LET size(i) == Size(Lower(TypeAt(n, decl, j, i)))
  IN  \A i \in DOMAIN Members(decl[j]) : /\ size(i) <= size(m)
                                         /\ i < m => size(i) < size(m)
Main(n, decl, j) ==
  IF decl[j].union THEN CHOOSE m \in DOMAIN Members(decl[j]) : IsLongest(n, decl, j, m)
                   ELSE 1

\* The LLVM field of item j; indices of memb are used by mistake.
Field(decl, j)       == j - 1
FieldOfMemb(decl, j) == Cardinality({p \in Places(decl) : p[1] < j})
FieldNumber(decl, j) == Field(decl, j)

\* Of a union only the longest member gets a number, the other ones keep
\* the 0 that get_mem has left there.
Item(n, decl, j, i) ==
  Memb(Members(decl[j])[i].name, TypeAt(n, decl, j, i),
       IF decl[j].union THEN <<j, Main(n, decl, j)>> ELSE None,
       IF i = Main(n, decl, j) THEN FieldNumber(decl, j) ELSE 0)

Defstruct(n, decl) ==
  /\ \A p \in Places(decl) : Known(Members(decl[p[1]])[p[2]].type)
  /\ \A j \in DOMAIN decl : \* "empty union forbidden"
       decl[j].union => \E m \in DOMAIN decl[j].memb : IsLongest(n, decl, j, m)
  /\ structs' = Extended(structs, n,
       [memb |-> [p \in Places(decl) |-> Item(n, decl, p[1], p[2])],
        body |-> [j \in DOMAIN decl |-> Lower(TypeAt(n, decl, j, Main(n, decl, j)))]])
  /\ Register(n, <<StructOf(n)>>)
  /\ built' = None
  /\ UNCHANGED <<aliases, locals, slot>>
-----------------------------------------------------------------------------
Pointee(v) == Tail(v.l)

\* prepare_read
PrepareRead(v) == IF v.lv THEN Rtv(Pointee(v), v.t, FALSE, v.loose) ELSE v

\* unwrap_type
UnwrapType(v) == [l |-> IF v.lv THEN Pointee(v) ELSE v.l, t |-> v.t,
                  loose |-> v.loose]

\* convert_equal_types: any function pointer is as good as another.
SameType(t, u)  == /\ Class(t) = Class(u)
                   /\ (t = u \/ Class(t) = "funptr")
SameClass(t, u) == Class(t) = Class(u)
Equal(t, u)     == SameType(t, u)

IsInt(t)     == Class(t) = "integer"
IsFloat(t)   == Class(t) = "float"
IsPointer(t) == Class(t) = "pointer"

\* A narrowing of integers is allowed, a widening of floats is not.
IsNumberConversion(t, u, explicit) ==
  \/ IsInt(t) /\ IsInt(u)
  \/ IsFloat(t) /\ IsFloat(u) /\ (explicit \/ Num(t) >= Num(u))
  \/ IsInt(t) /\ IsFloat(u)
  \/ IsFloat(t) /\ IsInt(u) /\ explicit

\* What the first two converters convert.
IsDirect(t, u, explicit) == \/ Equal(t, u)
                            \/ IsPointer(t) /\ IsPointer(u)
                            \/ IsInt(t) /\ Class(u) = "funptr" /\ explicit

\* The converters but that of aliases, in the order of init_basictypes;
\* None is NULL.
ConvertPlain(v, to, explicit) ==
  IF Equal(v.t, to.t) THEN [v EXCEPT !.loose = @ \/ v.t # to.t]
  ELSE IF IsPointer(v.t) /\ IsPointer(to.t)
  THEN [v EXCEPT !.t = to.t, !.loose = @ \/ v.t # to.t]
  ELSE IF IsDirect(v.t, to.t, explicit) THEN Rtv(to.l, to.t, FALSE, FALSE)
  ELSE IF IsNumberConversion(v.t, to.t, explicit)
  THEN Rtv(to.l, to.t, FALSE, to.loose)
  ELSE None

\* convert_alias_unwrap, k times: opaque types stay.  The value keeps its
\* LLVM value, the type it is converted to is the aliased one as create_alias
\* found it.
Depth(t)        == Leading(Len(t), {i \in 1..(Len(t) - 1) : t[i][1] = "alias"})
Unwrapped(t, k) == IF k < Depth(t) THEN k ELSE Depth(t)
Unwrap(v, k)    == [v EXCEPT !.t = From(@, Unwrapped(@, k) + 1)]
UnwrapTo(to, k) ==
  LET j == Unwrapped(to.t, k)
  IN  IF j = 0 THEN to ELSE Rtt(aliases[to.t[j][2]], From(to.t, j + 1))

\* convert_type calls itself for what an alias stands for, without the flags
\* of its caller, until one of the first two converters gives a value or no
\* alias is left.
Calls(t, u) == IF Depth(t) < Depth(u) THEN Depth(u) ELSE Depth(t)
ConvertRead(v, to, explicit) ==
  LET n == Calls(v.t, to.t)
      k == Leading(n, {i \in 1..n : ~IsDirect(Unwrap(v, i - 1).t, UnwrapTo(to, i - 1).t,
                                             explicit /\ i = 1)})
  IN  ConvertPlain(Unwrap(v, k), UnwrapTo(to, k), explicit /\ k = 0)

ConvertType(v, to, explicit) == ConvertRead(PrepareRead(v), to, explicit)

\* expect_same_number, of values that were read: both of them, or a crash.
SameNumber(v, w) ==
  LET t == v.t
      u == w.t
      Both(x, y) == IF x = None \/ y = None THEN None ELSE <<x, y>>
      ToRight == Both(ConvertType(v, UnwrapType(w), TRUE), w)
      ToLeft  == Both(v, ConvertType(w, UnwrapType(v), TRUE))
      WidenV  == Both(ConvertType(v, UnwrapType(w), FALSE), w)
      WidenW  == Both(v, ConvertType(w, UnwrapType(v), FALSE))
  IN  CASE (IsInt(t) /\ IsInt(u)) \/ (IsFloat(t) /\ IsFloat(u)) ->
             IF Num(t) = Num(u) THEN <<v, w>>
             ELSE IF Num(t) < Num(u) THEN WidenV ELSE WidenW
        [] IsFloat(t) /\ IsInt(u) -> ToLeft
        [] IsInt(t) /\ IsFloat(u) -> ToRight
        [] OTHER -> None
\* The forgotten conversion of one of the operands.
AsTheyAre(v, w) == IF IsInt(v.t) /\ IsInt(w.t) THEN <<v, w>>
                   ELSE SameNumber(v, w)
ExpectSameNumber(v, w) == SameNumber(v, w)
-----------------------------------------------------------------------------
Result(s, v) == /\ slot' = [slot EXCEPT ![s] = v]
                /\ UNCHANGED <<types, aliases, structs, locals>>
Builds(want, got, loose) ==
  built' = [want |-> want, got |-> got, loose |-> loose]

\* Constants of the reader.
Literal(s, t) ==
  /\ Result(s, Rtv(Lower(t), t, FALSE, FALSE))
  /\ built' = None

\* eval of a variable's name
Ident(s, x) ==
  /\ x \in DOMAIN locals
  /\ Result(s, locals[x])
  /\ built' = None

\* convert
Convert(s, e) ==
  /\ slot[s] # None
  /\ Known(e)
  /\ LET t == EvalType(e, "convert")
         c == ConvertType(slot[s], Rtt(Lower(t), t), TRUE)
     IN  c # None /\ Result(s, c)
  /\ built' = None

\* lower_ptr_to: an array gives the address of its first element.  What LLVM
\* makes of an access through a value whose type was only asserted is not
\* followed.
LowerPtrTo(v) ==
  IF Class(v.t) = "array"
  THEN Rtv(Ptr(Tail(Pointee(v))), PointerTo(Tail(v.t)), FALSE, v.loose)
  ELSE Rtv(v.l, PointerTo(v.t), FALSE, v.loose)

PtrTo(s) ==
  /\ slot[s] # None
  /\ slot[s].lv
  /\ Class(slot[s].t) = "array" => ~slot[s].loose
  /\ Result(s, LowerPtrTo(slot[s]))
  /\ built' = None

\* ptr_deref: the pointer becomes an l-value.
AsLvalue(v)      == Rtv(v.l, Tail(v.t), TRUE, v.loose)
Loaded(v)        == Rtv(Pointee(v), Tail(v.t), TRUE, v.loose)
Dereferenced(v)  == AsLvalue(v)

PtrDeref(s) ==
  /\ slot[s] # None
  /\ LET v == PrepareRead(slot[s]) IN
       /\ IsPointer(v.t) /\ v.t # Untyped
       /\ ~v.loose
       /\ Result(s, Dereferenced(v))
  /\ built' = None

\* memb of a struct: the first member of the name.
Precedes(p, q) == p[1] < q[1] \/ (p[1] = q[1] /\ p[2] < q[2])
MembStruct(s, name) ==
  /\ slot[s] # None
  /\ Class(slot[s].t) = "struct"
  /\ slot[s].lv
  /\ LET o == slot[s]
         p == structs[Num(o.t)]
         Named == {i \in DOMAIN p.memb : p.memb[i].name = name}
     IN  \E i \in Named :
           /\ \A k \in Named : ~Precedes(k, i)
           /\ LET m    == p.memb[i]
                  main == p.memb[m.unionmain]
              IN  IF m.unionmain = None
                  THEN Result(s, Rtv(Ptr(p.body[m.llvmnum + 1]), m.type, TRUE, o.loose))
                  ELSE Result(s, Rtv(Ptr(Lower(m.type)), main.type, TRUE,
                                     o.loose \/ m.type # main.type))
  /\ built' = None

\* Numbers that the code makes types of by itself: an index, a truth value.
Index == Rtt(<<<<"i", 64>>>>, <<Integer(64, FALSE)>>)
Truth == Rtt(<<<<"i", 1>>>>, <<Integer(1, FALSE)>>)

\* memb_array: the index must be convertible to a number of 64 bits.
MembArray(s, i) ==
  /\ s # i
  /\ slot[s] # None /\ slot[i] # None
  /\ Class(slot[s].t) = "array"
  /\ slot[s].lv
  /\ ~slot[s].loose
  /\ LET ptr == LowerPtrTo(slot[s])
         idx == ConvertType(slot[i], Index, FALSE)
     IN  /\ idx # None
         /\ slot' = [slot EXCEPT ![s] = AsLvalue(ptr), ![i] = None]
         /\ Builds(Index.l, idx.l, idx.loose)
  /\ UNCHANGED <<types, aliases, structs, locals>>

\* arithmetic-op and comparison-op
Operator(s, w, comparison) ==
  /\ s # w
  /\ slot[s] # None /\ slot[w] # None
  /\ LET both == ExpectSameNumber(PrepareRead(slot[s]), PrepareRead(slot[w]))
     IN  /\ both # None
         /\ slot' = [slot EXCEPT ![w] = None, ![s] =
              IF comparison THEN Rtv(Truth.l, Truth.t, FALSE, FALSE)
                            ELSE both[1]]
         /\ Builds(both[1].l, both[2].l, both[1].loose \/ both[2].loose)
  /\ UNCHANGED <<types, aliases, structs, locals>>

\* The condition of cond and while, of which the operand is not used again.
Condition(s) ==
  /\ slot[s] # None
  /\ LET c == ConvertType(slot[s], Truth, TRUE)
     IN  c # None /\ Builds(Truth.l, c.l, c.loose)
  /\ slot' = [slot EXCEPT ![s] = None]
  /\ UNCHANGED <<types, aliases, structs, locals>>

\* lower_assign: the store of a converted value.
Store(lhs, v) ==
  LET c == ConvertType(v, [UnwrapType(lhs) EXCEPT !.loose = FALSE], FALSE)
  IN  c # None /\ Builds(Pointee(lhs), c.l, c.loose \/ lhs.loose)

Assign(s, w) ==
  /\ s # w
  /\ slot[s] # None /\ slot[w] # None
  /\ slot[s].lv
  /\ Store(slot[s], slot[w])
  /\ slot' = [slot EXCEPT ![s] = None, ![w] = None]
  /\ UNCHANGED <<types, aliases, structs, locals>>

\* add_variable; the l-value is what LLVMBuildAlloca returns.
Unallocated(to) == Rtv(to.l, to.t, TRUE, to.loose)
Allocated(to)   == Rtv(Ptr(to.l), to.t, TRUE, to.loose)
Variable(to)    == Allocated(to)

\* var, without an initial value
DefineVar(x, e) ==
  /\ x \notin DOMAIN locals
  /\ Known(e)
  /\ LET t == EvalType(e, x) IN
       locals' = Extended(locals, x, Variable(Rtt(Lower(t), t)))
  /\ built' = None
  /\ UNCHANGED <<types, aliases, structs, slot>>

\* :=, which takes the type of the value
Introduce(x, s) ==
  /\ x \notin DOMAIN locals
  /\ slot[s] # None
  /\ LET v == Variable(UnwrapType(slot[s])) IN
       /\ locals' = Extended(locals, x, v)
       /\ Store(v, slot[s])
       /\ slot' = [slot EXCEPT ![s] = v]
  /\ UNCHANGED <<types, aliases, structs>>

\* A declaration of a function evaluates its types.
Declared(f) == Known(Fun[f].parm) /\ Known(Fun[f].ret)

\* funptr_to
FunptrTo(s, f) ==
  /\ Declared(f)
  /\ Result(s, Rtv(Lower(<<FunptrOf(f)>>), <<FunptrOf(f)>>, FALSE, FALSE))
  /\ built' = None

\* call_funptr, with one argument: lower_funcall converts it.
CallFunptr(s, w) ==
  /\ s # w
  /\ slot[s] # None /\ slot[w] # None
  /\ LET f == PrepareRead(slot[s]) IN
       /\ Class(f.t) = "funptr" /\ Declared(Num(f.t))
       /\ LET parm == EvalType(Fun[Num(f.t)].parm, "parm")
              ret  == EvalType(Fun[Num(f.t)].ret, "ret")
              c    == ConvertType(slot[w], Rtt(Lower(parm), parm), FALSE)
          IN  /\ c # None
              /\ Builds(Lower(parm), c.l, c.loose)
              /\ slot' = [slot EXCEPT ![w] = None,
                            ![s] = Rtv(Lower(ret), ret, FALSE, FALSE)]
  /\ UNCHANGED <<types, aliases, structs, locals>>

Literals == {<<Integer(64, TRUE)>>, <<Integer(8, FALSE)>>, <<Float(2)>>}

Next ==
  \/ \E n \in DOMAIN Alias : \E e \in Alias[n] : CreateAlias(n, e)
  \/ \E n \in DOMAIN Struct : \E d \in Struct[n] : Defstruct(n, d)
  \/ \E x \in Var, e \in TypeExpr : DefineVar(x, e)
  \/ \E s \in Slot :
       \/ \E t \in Literals : Literal(s, t)
       \/ \E x \in Var : Ident(s, x) \/ Introduce(x, s)
       \/ \E e \in TypeExpr : Convert(s, e)
       \/ PtrTo(s)
       \/ PtrDeref(s)
       \/ \E n \in DOMAIN structs : \E i \in DOMAIN structs[n].memb :
            MembStruct(s, structs[n].memb[i].name)
       \/ Condition(s)
       \/ \E f \in DOMAIN Fun : FunptrTo(s, f)
       \/ \E w \in Slot :
            \/ MembArray(s, w)
            \/ \E comparison \in BOOLEAN : Operator(s, w, comparison)
            \/ Assign(s, w)
            \/ CallFunptr(s, w)

Spec == Init /\ [][Next]_vars
-----------------------------------------------------------------------------
\* A type the state gives a meaning to: nothing follows the prop of a number,
\* a struct or a function, something follows an array, and the props behind an
\* alias are those that it was declared with.
Owner == Var \cup DOMAIN Alias \cup DOMAIN Struct \cup {"convert", "parm", "ret"}
Prop  == {Pointer} \cup ({"array"} \X Owner)
         \cup ({"integer"} \X {1, 8, 32, 64} \X BOOLEAN) \cup ({"float"} \X {1, 2})
         \cup ({"alias"} \X DOMAIN aliases) \cup ({"struct"} \X DOMAIN structs)
         \cup ({"funptr"} \X DOMAIN Fun)
IsType(t) ==
  /\ t \in Seq(Prop) \ {<< >>}
  /\ \A i \in 1..(Len(t) - 1) : t[i][1] \in {"pointer", "array", "alias"}
  /\ t[Len(t)][1] # "array"
  /\ \A i \in 1..Len(t) : t[i][1] = "alias" => types[t[i][2]] = From(t, i)

LProp == {<<"ptr">>, <<"array">>} \cup ({"i", "f"} \X Nat)
         \cup ({"struct"} \X DOMAIN Struct) \cup ({"fun"} \X DOMAIN Fun)

Values == ({slot[s] : s \in Slot} \ {None})
          \cup {locals[x] : x \in DOMAIN locals}

\* Every name, member, variable and value has a type that is defined: no
\* value outlives or precedes the declaration of its type.  An l-value is an
\* address.
TypeOK ==
  /\ \A n \in DOMAIN types : IsType(types[n])
  /\ \A n \in DOMAIN aliases :
       /\ n \in DOMAIN types /\ types[n][1] = AliasOf(n)
       /\ aliases[n] \in Seq(LProp)
  /\ \A n \in DOMAIN structs :
       /\ n \in DOMAIN Struct \cap DOMAIN types /\ types[n] = <<StructOf(n)>>
       /\ \A p \in DOMAIN structs[n].memb :
            p \in Nat \X Nat /\ IsType(structs[n].memb[p].type)
  /\ DOMAIN slot = Slot
  /\ \A v \in Values :
       /\ v \in [l: Seq(LProp), t: Seq(Prop), lv: BOOLEAN, loose: BOOLEAN]
       /\ IsType(v.t)
       /\ v.lv => v.l # << >> /\ v.l[1] = <<"ptr">>

\* The LLVM value behind every value is of the type that the language gives
\* the value (a pointer to it, for an l-value), unless that type was asserted
\* by a conversion of pointers or by a member of a union.
ValuesAgree ==
  \A v \in Values :
    v.loose \/ v.l = (IF v.lv THEN Ptr(Lower(v.t)) ELSE Lower(v.t))

\* The operands of every store, call, index, condition and operator have the
\* LLVM types that the instruction needs: what convert_type and
\* expect_same_number say of the types of the language holds of the values.
InstructionsTyped == built # None => built.loose \/ built.want = built.got

\* A member of a struct, and the longest member of a union, has a field of
\* its own that LLVM made for its type, whatever unions precede it; the other
\* members of a union are no larger than that field (structs.c:67-111).
FieldsHold ==
  \A n \in DOMAIN structs :
    LET p      == structs[n]
        main   == {i \in DOMAIN p.memb : p.memb[i].unionmain \in {None, i}}
        field(i) == p.memb[i].llvmnum + 1
    IN  /\ \A i \in main : /\ field(i) \in DOMAIN p.body
                           /\ p.body[field(i)] = Lower(p.memb[i].type)
        /\ \A i, k \in main : i # k => field(i) # field(k)
        /\ \A i \in DOMAIN p.memb \ main :
             /\ p.memb[i].unionmain \in main
             /\ Size(Lower(p.memb[i].type))
                  <= Size(p.body[field(p.memb[i].unionmain)])

\* Nothing but a value of an opaque type, or of an alias that stands for it,
\* converts to that type: no number or pointer becomes a handle of the
\* compiler.
OpaqueIsClosed ==
  \A v \in Values : \A n \in DOMAIN aliases : \A explicit \in BOOLEAN :
    LET to == Rtt(aliases[n], types[n]) IN
    Len(types[n]) = 1 /\ ConvertType(v, to, explicit) # None
      => From(v.t, Depth(v.t) + 1) = types[n]

\* A name of a type keeps its meaning: aliases and structs that were laid out
\* with it stay right.
NamesKeepMeaning ==
  [][\A n \in DOMAIN types : n \in DOMAIN types' /\ types'[n] = types[n]
       /\ (n \in DOMAIN aliases => aliases'[n] = aliases[n])
       /\ (n \in DOMAIN structs => structs'[n] = structs[n])]_vars
==============================================================================
