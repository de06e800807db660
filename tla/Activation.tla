----------------------------- MODULE Activation -----------------------------
(***************************************************************************)
(* What the code generator of Dolorem promises about nested compilation,   *)
(* said without its global variables.  Evaluating a form may start the     *)
(* compilation of another function at any moment (a defun, a defmacro, a   *)
(* static-cond or a freestanding-lambda inside a body).  Each function     *)
(* being compiled is an activation with its own module and environment,    *)
(* the innermost activation is the only one that changes, and finishing it *)
(* uncovers the enclosing one exactly as it was left.                      *)
(***************************************************************************)
EXTENDS Naturals, Sequences

CONSTANTS Fun,   \* the functions a program compiles
          Var,   \* names of local variables
          None   \* no function, no module

VARIABLES acts,  \* activations, the top level first and the innermost last
          code   \* code[f]: the basic blocks of f that have been completed

avars == <<acts, code>>

\* A scope says for each name in which function's frame the variable lives.
Nothing == [v \in Var |-> None]

TopLevel == [fn |-> None, mod |-> None, env |-> << >>]

Last == acts[Len(acts)]

Init == /\ acts = <<TopLevel>>
        /\ code = [f \in Fun |-> {}]

\* Only the innermost activation may complete a block.
CodeOf(f) == \A g \in Fun \ {f} : code'[g] = code[g]
Grows(f)  == f # None => code[f] \subseteq code'[f]

SetLast(a) == acts' = [acts EXCEPT ![Len(acts)] = a]

\* A function starts, in a module of its own or, for a lambda, in the
\* module of the function it is written in.
Start(f, m) ==
  /\ \A i \in DOMAIN acts : acts[i].fn # f
  /\ code[f] = {}
  /\ m \in {f, Last.mod} \ {None}
  /\ acts' = Append(acts, [fn |-> f, mod |-> m,
                           env |-> <<Nothing>>])
  /\ UNCHANGED code

\* The innermost function is complete: the enclosing one is current again.
Finish ==
  /\ Len(acts) > 1
  /\ acts' = SubSeq(acts, 1, Len(acts) - 1)
  /\ CodeOf(Last.fn) /\ Grows(Last.fn)

OpenScope ==
  /\ Last.fn # None
  /\ SetLast([Last EXCEPT !.env = Append(@, Nothing)])
  /\ UNCHANGED code

CloseScope ==
  /\ Len(Last.env) > 1
  /\ SetLast([Last EXCEPT !.env = SubSeq(@, 1, Len(@) - 1)])
  /\ UNCHANGED code

Declare(v) ==
  /\ Last.env # << >>
  /\ SetLast([Last EXCEPT !.env[Len(Last.env)][v] = Last.fn])
  /\ UNCHANGED code

Emit == /\ Last.fn # None
        /\ CodeOf(Last.fn) /\ Grows(Last.fn)
        /\ UNCHANGED acts

Next == \/ \E f \in Fun, m \in Fun : Start(f, m)
        \/ Finish
        \/ OpenScope
        \/ CloseScope
        \/ \E v \in Var : Declare(v)
        \/ Emit

Spec == Init /\ [][Next]_avars
=============================================================================
