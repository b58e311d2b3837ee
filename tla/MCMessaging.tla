----------------------------- MODULE MCMessaging -----------------------------
(* Instances of Chats and Notifications for TLC.                           *)
EXTENDS MessagingProperties, TLC

CONSTANTS u1, u2, c1, c2, c3, m1, m2, r1, r2, s1

Symmetry ==
  Permutations({u1, u2}) \cup Permutations({c1, c2, c3})
    \cup Permutations({m1, m2}) \cup Permutations({r1, r2})
=============================================================================
