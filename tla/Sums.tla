-------------------------------- MODULE Sums --------------------------------
(***************************************************************************)
(* Sums of amounts, which every service adds up with Money.sum or lets the  *)
(* database add up.                                                         *)
(***************************************************************************)
EXTENDS Integers, FiniteSets, FiniteSetsExt

\* The sum of f[x] over the elements x of the finite set S.
SumOver(f, S) == MapThenSumSet(LAMBDA x : f[x], S)
=============================================================================
