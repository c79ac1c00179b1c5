--------------------------------- MODULE Sums ---------------------------------
(* What SQL's SUM computes: the total of f over the rows in S. *)
EXTENDS Integers, FiniteSetsExt

SumOver(f, S) == MapThenSumSet(LAMBDA x : f[x], S)
===============================================================================
