------------------------------- MODULE Reading -------------------------------
(***************************************************************************)
(* What reading comes to: the lists that the reader makes out of a text    *)
(* are those that Syntax gives to its tokens, where Syntax says they are.  *)
(* Text is Wording.                                                        *)
(***************************************************************************)
EXTENDS Reader, Syntax

\* An element with the strings it points to.
RECURSIVE Resolved(_, _)
Resolved(item, t) ==
  CASE item.kind = "list"   -> [item EXCEPT !.value = [i \in DOMAIN @ |-> Resolved(@[i], t)]]
    [] item.kind = "static" -> Ident(item.value, item.at)
    [] item.kind \in {"ident", "string"} -> [item EXCEPT !.value = StringAt(t, @)]
    [] OTHER -> item

\* Reading a program in place gives what its tokens mean, and fails if and only
\* if they mean nothing (list.c:576-800): no terminator is missing, and none
\* has been written over anything that was still needed.
ReadsMeaning ==
  /\ phase = "done"   => /\ IsProgram(Program)
                         /\ Meaning(Program)
                              = [i \in DOMAIN result |-> Resolved(result[i], text)]
  /\ phase = "failed" => ~IsProgram(Program)
=============================================================================
