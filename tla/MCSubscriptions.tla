-------------------------- MODULE MCSubscriptions ---------------------------
(* Instances of Subscriptions for TLC.                                     *)
EXTENDS SubscriptionsProperties

CONSTANTS f1, f2, c1, sale1, sale2, sale3, p1, p2

(* The first two sales are to the same fan, the third to another; all are  *)
(* about the same creator.                                                 *)
MCFan == [s \in Sales |-> IF s = sale3 THEN f2 ELSE f1]
MCCreator == [s \in Sales |-> c1]

(* The webhooks of a fan come one after the other.                         *)
ByFan == [p \in Procs |-> {s \in Sales : (MCFan[s] = f1) <=> (p = p1)}]
=============================================================================
