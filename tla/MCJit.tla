-------------------------------- MODULE MCJit --------------------------------
\* An instance of Jit: a C macro m, a function f that the compiler does not
\* export, a global g, which a shared object may define as well, and two
\* lambdas on one line.
EXTENDS Jit

CONSTANTS m, f, g, l1, l2

Functions == {m, f}
Globals   == {g}
CMacros   == {m}
Lambdas   == {l1, l2}
Loadable  == {{m, f, g}}

FileOf == [x \in LambdaForm |-> 1]
CharOf == [x \in LambdaForm |-> IF x = l1 THEN 4 ELSE 9]
==============================================================================
