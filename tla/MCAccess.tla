------------------------------- MODULE MCAccess -------------------------------
(* Instances of Resources and Accounts for TLC.                            *)
EXTENDS Access, TLC

CONSTANTS u1, u2, r1, r2, web, phone

Symmetry ==
  Permutations({u1, u2}) \cup Permutations({r1, r2})
    \cup Permutations({web, phone})
=============================================================================
