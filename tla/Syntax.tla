------------------------------- MODULE Syntax --------------------------------
(***************************************************************************)
(* What a Dolorem program means to the reader, token by token: the         *)
(* specification that Reader is checked against.  A program is a sequence  *)
(* of tokens; Wording is how one writes it, Meaning the list it stands     *)
(* for, with the place of every element, if any.                           *)
(***************************************************************************)
EXTENDS Lists, SequencesExt

\* The characters of each token.  The tokens that are not characters of
\* their own are named after what they show; the name quasiunquote is as good
\* as one character.
Spelling(token) ==
  CASE token = "word"     -> <<"a">>
    [] token = "dashed"   -> <<"a", "-", "b">>
    [] token = "member"   -> <<"a", ":", "b", ":", "c">>
    [] token = "element"  -> <<"a", ":", "0">>
    [] token = "number"   -> <<"5">>
    [] token = "negative" -> <<"-", "5">>
    [] token = "char"     -> <<"'", "\\", "n", "'">>
    [] token = "empty"    -> <<"'", "'">>
    [] token = "string"   -> <<"\"", "a", "\\", "\"", "b", "\"">>
    [] token = "parts"    -> <<"\"", "a", "\"", "\\", " ", "\"", "b", "\"">>
    [] token = "comment"  -> <<"#", ")", "\"", "(", NL>>
    [] token = "remark"   -> <<"#", "a">>
    [] token = "bracket"  -> <<"\"", "(", "\"">>
    [] token = "hash"     -> <<"\"", "#", "\"">>
    [] OTHER              -> <<token>>

\* A blank follows every token that is not a bracket, unless a bracket closes
\* after it or a semicolon follows.
Gap(p, i) == IF p[i] \in Openers \/ i = Len(p) \/ p[i + 1] \in Closers \cup {";"}
             THEN << >> ELSE <<" ">>

Written(p) == [i \in 1..Len(p) |-> Spelling(p[i]) \o Gap(p, i)]
Wording(p) == FlattenSeq(Written(p))
\* Where the i-th token begins.
Place(p, i) == 1 + Len(FlattenSeq(SubSeq(Written(p), 1, i - 1)))
-----------------------------------------------------------------------------
\* a:b is the list (memb a b); all of it is where a begins.
Memb(object, name, at) == List(<<Ident(<<"memb">>, at), object, name>>, at)

Element(token, at) ==
  CASE token = "word"    -> Ident(<<"a">>, at)
    [] token = "quasiunquote" -> Ident(<<"quasiunquote">>, at)
    [] token = "dashed"  -> Ident(<<"a", "_", "b">>, at)
    [] token = "member"  -> Memb(Memb(Ident(<<"a">>, at), Ident(<<"b">>, at), at),
                                 Ident(<<"c">>, at), at)
    [] token = "element" -> Memb(Ident(<<"a">>, at), Literal("int", <<"0">>, at), at)
    [] token = "number"  -> Literal("int", <<"5">>, at)
    [] token = "negative" -> Literal("int", <<"-", "5">>, at)
    [] token = "-"       -> Ident(<<"_">>, at)
    [] token = "char"    -> Literal("char", <<NL>>, at)
    [] token = "empty"   -> Literal("char", << >>, at)
    [] token = "string"  -> Literal("string", <<"a", "\"", "b">>, at)
    [] token = "parts"   -> Literal("string", <<"a", "b">>, at)
    [] token = "bracket" -> Literal("string", <<"(">>, at)
    [] token = "hash"    -> Literal("string", <<"#">>, at)

\* '' is a character only at the end of its list, with nothing between them.
EndsText(p, i, whole) == i = Len(p) \/ (p[i + 1] \in Closers /\ ~whole)

\* What the tokens from the i-th on add to a list: up to the bracket that
\* closes it, or in a whole program, where brackets too many are ignored, to
\* the end.  A semicolon makes a list of what precedes it, from the last
\* semicolon on without leading lists.
RECURSIVE Forms(_, _, _, _, _)
Forms(p, i, items, head, whole) ==
  IF i > Len(p) THEN [items |-> items, next |-> IF whole THEN i ELSE 0]
  ELSE
  CASE p[i] \in Closers ->
         IF whole THEN Forms(p, i + 1, items, head, whole)
                  ELSE [items |-> items, next |-> i + 1]
    [] p[i] \in Openers ->
         LET inner == Forms(p, i + 1, << >>, 0, FALSE)
             name  == IF p[i] = "{" THEN <<Ident(<<"scope">>, Place(p, i))>> ELSE << >>
         IN IF inner.next = 0 THEN inner
            ELSE Forms(p, inner.next,
                       Append(items, List(name \o inner.items, Place(p, i))),
                       head, whole)
    [] p[i] = ";" ->
         IF head = 0 THEN [items |-> items, next |-> 0]
         ELSE Forms(p, i + 1, Group(items, head), 0, whole)
    [] p[i] = "empty" /\ ~EndsText(p, i, whole) -> [items |-> items, next |-> 0]
    [] p[i] \in {"comment", "remark"} -> Forms(p, i + 1, items, head, whole)
    [] OTHER ->
         LET e == Element(p[i], Place(p, i))
         IN Forms(p, i + 1, Append(items, e),
                  IF head = 0 /\ e.kind # "list" THEN Len(items) + 1 ELSE head,
                  whole)

Whole(p)     == Forms(p, 1, << >>, 0, TRUE)
IsProgram(p) == Whole(p).next # 0
Meaning(p)   == Whole(p).items
=============================================================================
