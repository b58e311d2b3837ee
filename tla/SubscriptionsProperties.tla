---------------------- MODULE SubscriptionsProperties -----------------------
(***************************************************************************)
(* What subscriptions promise, over module Subscriptions.                  *)
(***************************************************************************)
EXTENDS Subscriptions

(* Variables hold values of their types, and a subscription is stored in   *)
(* the fan it was sold to, after its sale (ccBill.service.ts:223-226).     *)
TypeOK ==
  /\ prices \subseteq Creators
  /\ forms \subseteq {Form(u, c) : u \in Users, c \in Creators}
  /\ subscriptions \in [Users -> Seq(Subscription)]
  /\ activeCounter \in [Users -> Nat]
  /\ counter \in [Users -> Nat]
  /\ subscribers \in [Users -> SUBSET Users]
  /\ subscribersCounter \in [Users -> Nat]
  /\ sold \subseteq Sales
  /\ job \in [Procs -> Job]
  /\ deliveries \in 0 .. MaxDeliveries
  /\ faults \in 0 .. MaxFaults
  /\ \A u \in Users : \A i \in DOMAIN subscriptions[u] :
       /\ Fan[subscriptions[u][i].sale] = u
       /\ subscriptions[u][i].sale \in sold

Subscriptions(u) == {subscriptions[u][i] : i \in DOMAIN subscriptions[u]}
SubscribedTo(u, c) ==
  \E x \in Subscriptions(u) : x.active /\ Creator[x.sale] = c

(* No call about the fan u is running, and none was cut short.             *)
Settled(u) ==
  faults = 0 /\ \A p \in Procs : Idle(p) \/ Fan[job[p].sale] # u

(* The counters of a fan equal the numbers of subscriptions, however the   *)
(* webhooks of other fans interleave (user.model.ts:767-819).              *)
CountersMatch ==
  \A u \in Users : Settled(u) =>
    /\ counter[u] = Len(subscriptions[u])
    /\ activeCounter[u] = Cardinality(Active(subscriptions[u]))

(* The two halves of a subscription agree: a fan is among the subscribers  *)
(* of a creator exactly while holding an active subscription to that       *)
(* creator, however many fans subscribe and cancel at the same time        *)
(* (ccBill.service.ts:212-252).                                            *)
SubscribersMatch ==
  \A u, c \in Users : Settled(u) =>
    (u \in subscribers[c] <=> SubscribedTo(u, c))

(* A fan has at most one subscription to a creator: a renewed one replaces *)
(* the former (ccBill.service.ts:216-226).                                 *)
OneSubscriptionPerCreator ==
  \A u \in Users : \A i, k \in DOMAIN subscriptions[u] :
    Creator[subscriptions[u][i].sale] = Creator[subscriptions[u][k].sale]
      => i = k

(* A subscription is one fact written in several places: the list of the   *)
(* fan, its counters and the subscribers of the creator agree.             *)
SubscriptionsAgree ==
  CountersMatch /\ SubscribersMatch /\ OneSubscriptionPerCreator

(* A sale whose webhook is running, unless a call is cut short, ends with  *)
(* the fan subscribed and listed among the subscribers of the creator      *)
(* (ccBill.service.ts:206-231).                                            *)
Selling(s) == \E p \in Procs : job[p].pc = "pull" /\ job[p].sale = s
SaleSubscribes ==
  \A s \in Sales :
    Selling(s) ~> \/ /\ SubscribedTo(Fan[s], Creator[s])
                     /\ Fan[s] \in subscribers[Creator[s]]
                  \/ faults > 0
=============================================================================
