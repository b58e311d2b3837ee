---------------------------- MODULE MCBanning -------------------------------
(* Instances of Banning for TLC.                                           *)
EXTENDS BanningProperties, TLC

CONSTANTS u1, u2, k1, k2, k3, c1

(* All strikes to one user, the first one about a content.                 *)
MCTarget == [s \in Strikes |-> u1]
MCRef == [s \in Strikes |-> IF s = k1 THEN c1 ELSE None]

ProcSymmetry == Permutations(Procs)
=============================================================================
