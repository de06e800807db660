------------------------------ MODULE MCCodegen ------------------------------
(***************************************************************************)
(* Small instances of Codegen for TLC.  The function objects and variable  *)
(* names are interchangeable: permuting them is a symmetry.                *)
(***************************************************************************)
EXTENDS Codegen, TLC

CONSTANTS f1, f2, f3, x, y

TwoFuns   == {f1, f2}
ThreeFuns == {f1, f2, f3}
OneVar    == {x}
TwoVars   == {x, y}
Symmetry  == Permutations(Fun) \cup Permutations(Var)

NestingForms == {"fun", "lambda", "scope", "var", "call", "include"}
BlockForms   == {"fun", "lambda", "while", "if", "cond", "include"}
EmitForms    == BlockForms \cup {"quote"}
QuoteForms   == {"fun", "lambda", "quote", "include"}
=============================================================================
