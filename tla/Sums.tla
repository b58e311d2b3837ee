-------------------------------- MODULE Sums ---------------------------------
(* The sum of the values of a function.                                    *)
EXTENDS Integers, FiniteSets, FiniteSetsExt

Total(f) == MapThenSumSet(LAMBDA x : f[x], DOMAIN f)
=============================================================================
