---------------------------- MODULE Instructions ----------------------------
(***************************************************************************)
(* What an instruction of the machine owes the program that runs it,       *)
(* whether the integer unit or the vector unit executes it.                *)
(***************************************************************************)
EXTENDS Allegrex, Vfpu

(* The arithmetic of an instruction is exact, it uses up the prefix set    *)
(* for it, and a matrix instruction works on the vectors of its matrices   *)
(* (interp.cpp 145-244, vfpu_interp.c 32-47, 149).                         *)
InstructionsExact == ArithmeticExact /\ PrefixUsedOnce /\ MatrixHasItsVectors
=============================================================================
