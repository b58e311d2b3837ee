---------------------------- MODULE MCPayments ------------------------------
(* Instances of Payments for TLC.                                          *)
EXTENDS PaymentsProperties, TLC

CONSTANTS u1, u2, g1, g2, s1, c1

MCGoalOwner == [g \in Goals |-> u1]
MCStreamOf == [g \in Goals |-> s1]
MCPrice == [c \in Contents |-> 1]

ProcSymmetry == Permutations(Procs)
=============================================================================
