-------------------------------- MODULE Lists --------------------------------
(***************************************************************************)
(* What the reader's input and output are made of, in the sources and in   *)
(* their specification: characters, and lists whose elements know where    *)
(* in the text they began.                                                 *)
(***************************************************************************)
EXTENDS Naturals, Sequences

NUL == "NUL"
NL  == "newline"
Quote     == "\""
Backslash == "\\"

Openers == {"(", "{"}
Closers == {")", "}"}

\* Elements of a list.
Ident(name, at)   == [kind |-> "ident", at |-> at, value |-> name]
Literal(k, v, at) == [kind |-> k, at |-> at, value |-> v]
List(items, at)   == [kind |-> "list", at |-> at, value |-> items]

\* The list from head on becomes one element of it, where its head was.
Group(items, head) ==
  Append(SubSeq(items, 1, head - 1),
         List(SubSeq(items, head, Len(items)), items[head].at))
=============================================================================
