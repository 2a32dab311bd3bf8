-------------------------------- MODULE Sums --------------------------------
(***************************************************************************)
(* The sum of the values of a function.                                    *)
(***************************************************************************)
EXTENDS Functions

SumOver(f) == FoldFunction(+, 0, f)
=============================================================================
