--------------------------------- MODULE Sums ---------------------------------
(***************************************************************************)
(* Sums over finite sets, in a form that lends itself to proofs: what is   *)
(* summed is a function and not an operator.  See Sums_proofs.             *)
(***************************************************************************)
EXTENDS Integers, FiniteSetsExt

\* The values of f on S, added up.
SumOver(f, S) == MapThenSumSet(LAMBDA x : f[x], S)
===============================================================================
