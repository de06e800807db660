------------------------------- MODULE Quoter --------------------------------
(***************************************************************************)
(* quote.c: what the code that a quote form generates computes.  The form  *)
(* is lowered to calls that build its list again when they run; in a       *)
(* quasiquote, code for the argument of quasiunquote takes the place of    *)
(* the form.  Codegen says where all of this code goes.                    *)
(*                                                                         *)
(* The list that is quoted is one the reader has read.  The one that is    *)
(* built has no locations.  A quasiunquote may also stand for the tail of  *)
(* a list, since the C code cannot tell (a quasiunquote b) from a pair.    *)
(***************************************************************************)
EXTENDS Reading

\* What the calls return.  Only the last argument of cons may be no list.
Nil         == [kind |-> "nil"]
Atom(e)     == [kind |-> e.kind, value |-> e.value]
Unquoted(e) == [kind |-> "unquoted", form |-> e]
Built(items, tail) ==
  IF items = << >> THEN tail
                   ELSE [kind |-> "list", value |-> items, tail |-> tail]
cons(a, d)  == IF d.kind = "list" THEN Built(<<a>> \o d.value, d.tail)
                                  ELSE Built(<<a>>, d)

Name     == Ident(<<"quasiunquote">>, 0)
IsName(e) == e.kind = "ident" /\ e.value = Name.value
Cdr(e)   == [e EXCEPT !.value = Tail(@)]
IsUnquote(e) == IsName(e.value[1])

\* The arguments of cons: first the code for the car, then for the cdr.
Swapped(car, cdr)   == cdr \o car
Arguments(car, cdr) == car \o cdr

\* lower_quote: the calls, in the order in which they are built.  The
\* operands of cons are the last two values that no call has used.
RECURSIVE LowerQuote(_, _)
LowerQuote(e, quasi) ==
  CASE e.kind # "list"        -> <<[op |-> "make", value |-> Atom(e)]>>
    [] e.value = << >>        -> <<[op |-> "make", value |-> Nil]>>
    [] quasi /\ IsUnquote(e)  -> <<[op |-> "eval", value |-> Unquoted(e.value[2])]>>
    [] OTHER -> Arguments(LowerQuote(e.value[1], quasi), LowerQuote(Cdr(e), quasi))
                  \o <<[op |-> "cons"]>>

Executed(values, call) ==
  LET n == Len(values)
  IN IF call.op = "cons"
     THEN Append(SubSeq(values, 1, n - 2), cons(values[n - 1], values[n]))
     ELSE Append(values, call.value)
Run(code) == FoldLeft(Executed, << >>, code)
-----------------------------------------------------------------------------
\* A quasiunquote without argument is an error.
RECURSIVE Complete(_)
Complete(e) == e.kind = "list" =>
  /\ e.value # << >> => ~IsName(Last(e.value))
  /\ \A i \in DOMAIN e.value : Complete(e.value[i])

\* The list with the value of its argument for each quasiunquote.
RECURSIVE Filled(_, _)
Filled(e, quasi) ==
  IF e.kind # "list" THEN Atom(e)
  ELSE LET names == {i \in DOMAIN e.value : quasi /\ IsName(e.value[i])}
           n     == Min({i - 1 : i \in names} \cup {Len(e.value)})
       IN Built([i \in 1..n |-> Filled(e.value[i], quasi)],
                IF names = {} THEN Nil ELSE Unquoted(e.value[n + 2]))

\* When its code runs, a quote returns the list that was quoted, and a
\* quasiquote the list with the values of its quasiunquotes in their places,
\* evaluated once and in the order of the text (quote.c:56-89).
QuoteRebuilds ==
  phase = "done" =>
    LET e     == Resolved(List(result, 0), text)
        code  == LowerQuote(e, TRUE)
        evals == SelectSeq(code, LAMBDA c : c.op = "eval")
    IN /\ Run(LowerQuote(e, FALSE)) = <<Filled(e, FALSE)>>
       /\ Complete(e) =>
            /\ Run(code) = <<Filled(e, TRUE)>>
            /\ \A i \in 2..Len(evals) :
                 evals[i - 1].value.form.at < evals[i].value.form.at
==============================================================================
