-------------------------------- MODULE Sums --------------------------------
(***************************************************************************)
(* Sums of values of a function over a finite set: of ledger rows, credit, *)
(* bytes and the weights of rows and requests.                             *)
(***************************************************************************)
EXTENDS Integers, FiniteSets, FiniteSetsExt

(* The sum of f[x] over the elements x of S. *)
Sum(f, S) == MapThenSumSet(LAMBDA x : f[x], S)
=============================================================================
