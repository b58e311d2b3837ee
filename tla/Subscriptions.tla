---------------------------- MODULE Subscriptions ---------------------------
(***************************************************************************)
(* Subscriptions sold by ccBill: the webhook of a sale writes the          *)
(* subscription into the fan and the fan into the subscribers of the       *)
(* creator; the webhook of a cancellation or an expiration takes it back.  *)
(* The two documents, and the counters kept beside the two arrays, are     *)
(* written by separate updates.                                            *)
(*                                                                         *)
(* A webhook call is a process, each of its database calls is one action.  *)
(* ccBill may deliver a webhook several times and at any moment.  A        *)
(* failing call is logged and answered with success, so it is not retried  *)
(* (billing.controller.ts webhook).  A user pays in a form of ccBill, to   *)
(* which the program gives the metadata that its webhooks bring back.      *)
(* Checks of the secret and the account only refuse calls and are left     *)
(* out, as are the signals to sockets.                                     *)
(***************************************************************************)
EXTENDS Integers, Sequences, FiniteSets

CONSTANTS
  Users,          \* fans and creators
  Sales,          \* ccBill subscription ids
  Fan,            \* the userId in the metadata of a sale
  Creator,        \* the targetUserId in the metadata of a sale
  Procs,          \* webhook calls running
  Serves,         \* process |-> the sales whose webhooks it may run
  MaxDeliveries,  \* bound: webhook calls
  MaxFaults       \* bound: calls cut short

ASSUME SalesAssumption ==
  /\ IsFiniteSet(Users)
  /\ Fan \in [Sales -> Users]
  /\ Creator \in [Sales -> Users]
  /\ Serves \in [Procs -> SUBSET Sales]
ASSUME DeliveriesAssumption == MaxDeliveries \in Nat /\ MaxFaults \in Nat

VARIABLES
  prices,              \* creators who have a price
  forms,               \* the metadata of the forms that were asked for
  subscriptions,       \* fan |-> sequence of subscriptions
  activeCounter,       \* fan |-> activeSubscriptionsCounter
  counter,             \* fan |-> subscriptionsCounter
  subscribers,         \* creator |-> set of fans
  subscribersCounter,  \* creator |-> number
  sold,                \* sales whose first webhook ccBill has sent
  job,                 \* call |-> where it is and what it holds
  deliveries,          \* calls made (bounded by MaxDeliveries)
  faults               \* faults suffered (bounded by MaxFaults)

fan == <<subscriptions, activeCounter, counter>>
creator == <<subscribers, subscribersCounter>>
offers == <<prices, forms>>
vars == <<offers, fan, creator, sold, job, deliveries, faults>>

-----------------------------------------------------------------------------
Subscription == [sale : Sales, active : BOOLEAN]

(* A user is stored with the default prices.                               *)
Creators == {Creator[s] : s \in Sales}

(* Where a call is: the sale it is about, the document of the creator as   *)
(* it was read (sales only) and the numbers counted last.                  *)
IdleJob == [pc |-> "idle"]
Job ==
  {IdleJob} \cup
    [pc : {"pull", "push", "count", "setCounters", "save", "pullSubscriber"},
     sale : Sales, sells : BOOLEAN,
     read : SUBSET Users, readCounter : Nat,
     active : Nat, all : Nat]

Start(pc, s, sells, read, readCounter) ==
  [pc |-> pc, sale |-> s, sells |-> sells,
   read |-> read, readCounter |-> readCounter, active |-> 0, all |-> 0]

Idle(p) == job[p].pc = "idle"
Become(p, j) == job' = [job EXCEPT ![p] = j]
Finish(p) == Become(p, IdleJob)
Advance(p, pc) == Become(p, [job[p] EXCEPT !.pc = pc])

Init ==
  /\ prices = Creators
  /\ forms = {}
  /\ subscriptions = [u \in Users |-> <<>>]
  /\ activeCounter = [u \in Users |-> 0]
  /\ counter = [u \in Users |-> 0]
  /\ subscribers = [u \in Users |-> {}]
  /\ subscribersCounter = [u \in Users |-> 0]
  /\ sold = {}
  /\ job = [p \in Procs |-> IdleJob]
  /\ deliveries = 0
  /\ faults = 0

Deliver(p, s) ==
  /\ Idle(p)
  /\ s \in Serves[p]
  /\ deliveries < MaxDeliveries
  /\ deliveries' = deliveries + 1

-----------------------------------------------------------------------------
(* Forms.                                                                  *)

Form(u, c) == [userId |-> u, targetUserId |-> c]

(* A creator sets the prices, or takes them back.                          *)
SetPrices(c) ==
  /\ prices' = IF c \in prices THEN prices \ {c} ELSE prices \cup {c}
  /\ UNCHANGED <<forms, fan, creator, sold, job, deliveries, faults>>

(* A form stays valid when the price is gone, and for any number of sales. *)
AskForm(u, c) ==
  /\ c \in prices
  /\ forms' = forms \cup {Form(u, c)}
  /\ UNCHANGED <<prices, fan, creator, sold, job, deliveries, faults>>

-----------------------------------------------------------------------------
(* A sale.                                                                 *)

(* findById of the creator, whose document is kept until the last call.    *)
ReadCreator(p, s) ==
  /\ Deliver(p, s)
  /\ Form(Fan[s], Creator[s]) \in forms
  /\ sold' = sold \cup {s}
  /\ Become(p, Start("pull", s, TRUE, subscribers[Creator[s]],
                     subscribersCounter[Creator[s]]))
  /\ UNCHANGED <<offers, fan, creator, faults>>

(* What $pull leaves of the subscriptions seq: those to others than c.     *)
Without(c, seq) ==
  LET left[n \in 0 .. Len(seq)] ==
        IF n = 0 THEN <<>>
        ELSE IF Creator[seq[n].sale] = c THEN left[n - 1]
        ELSE Append(left[n - 1], seq[n])
  IN left[Len(seq)]

PullSubscription(p) ==
  LET s == job[p].sale
  IN /\ job[p].pc = "pull"
     /\ subscriptions' =
          [subscriptions EXCEPT ![Fan[s]] = Without(Creator[s], @)]
     /\ Advance(p, "push")
     /\ UNCHANGED <<offers, activeCounter, counter, creator, sold, deliveries,
                    faults>>

PushSubscription(p) ==
  LET s == job[p].sale
      subscription == [sale |-> s, active |-> TRUE]
  IN /\ job[p].pc = "push"
     /\ subscriptions' =
          [subscriptions EXCEPT ![Fan[s]] = Append(@, subscription)]
     /\ Advance(p, "count")
     /\ UNCHANGED <<offers, activeCounter, counter, creator, sold, deliveries,
                    faults>>

(* Mutants: the array saved as it was read; the fan never saved.           *)
SaveWholeArray(p) ==
  LET s == job[p].sale
      now == job[p].read \cup {Fan[s]}
  IN /\ job[p].pc = "save"
     /\ subscribers' = [subscribers EXCEPT ![Creator[s]] = now]
     /\ subscribersCounter' =
          [subscribersCounter EXCEPT ![Creator[s]] = Cardinality(now)]
     /\ Finish(p)
     /\ UNCHANGED <<offers, fan, sold, deliveries, faults>>

SaveNothing(p) ==
  /\ job[p].pc = "save"
  /\ Finish(p)
  /\ UNCHANGED <<offers, fan, creator, sold, deliveries, faults>>

(* addToSet on the document read at the start, then save(): $addToSet when *)
(* the array that was read lacks the fan, $set of the counter when its     *)
(* value differs from the one that was read.                               *)
SaveCreator(p) ==
  LET s == job[p].sale
      c == Creator[s]
      size == Cardinality(job[p].read \cup {Fan[s]})
  IN /\ job[p].pc = "save"
     /\ subscribers' =
          [subscribers EXCEPT ![c] = @ \cup ({Fan[s]} \ job[p].read)]
     /\ subscribersCounter' =
          [subscribersCounter EXCEPT
             ![c] = IF size = job[p].readCounter THEN @ ELSE size]
     /\ Finish(p)
     /\ UNCHANGED <<offers, fan, sold, deliveries, faults>>

-----------------------------------------------------------------------------
(* syncSubscriptionsCounters: an aggregation, then an update.              *)

Active(seq) == {i \in DOMAIN seq : seq[i].active}

CountSubscriptions(p) ==
  LET found == subscriptions[Fan[job[p].sale]]
  IN /\ job[p].pc = "count"
     /\ Become(p, [job[p] EXCEPT !.pc = "setCounters", !.all = Len(found),
                                 !.active = Cardinality(Active(found))])
     /\ UNCHANGED <<offers, fan, creator, sold, deliveries, faults>>

WriteCounters(u, active, all) ==
  /\ activeCounter' = [activeCounter EXCEPT ![u] = active]
  /\ counter' = [counter EXCEPT ![u] = all]

SetCounters(p) ==
  LET s == job[p].sale
  IN /\ job[p].pc = "setCounters"
     /\ WriteCounters(Fan[s], job[p].active, job[p].all)
     /\ Advance(p, IF job[p].sells THEN "save" ELSE "pullSubscriber")
     /\ UNCHANGED <<offers, subscriptions, creator, sold, deliveries, faults>>

-----------------------------------------------------------------------------
(* A cancellation or an expiration.                                        *)

Positions(s) ==
  {i \in DOMAIN subscriptions[Fan[s]] : subscriptions[Fan[s]][i].sale = s}

(* The positional update changes the first subscription that matches; a    *)
(* call that finds none is refused and is not an action.                   *)
Cancel(p, s) ==
  /\ Deliver(p, s)
  /\ s \in sold
  /\ \E i \in Positions(s) :
       /\ \A k \in Positions(s) : i <= k
       /\ subscriptions' = [subscriptions EXCEPT ![Fan[s]][i].active = FALSE]
  /\ Become(p, Start("count", s, FALSE, {}, 0))
  /\ UNCHANGED <<offers, activeCounter, counter, creator, sold, faults>>

PullSubscriber(p) ==
  LET s == job[p].sale
  IN /\ job[p].pc = "pullSubscriber"
     /\ subscribers' = [subscribers EXCEPT ![Creator[s]] = @ \ {Fan[s]}]
     /\ Finish(p)
     /\ UNCHANGED <<offers, fan, subscribersCounter, sold, deliveries, faults>>

-----------------------------------------------------------------------------
AbortJob(p) ==
  /\ faults < MaxFaults
  /\ faults' = faults + 1
  /\ ~Idle(p)
  /\ Finish(p)
  /\ UNCHANGED <<offers, fan, creator, sold, deliveries>>

Webhook(p) == \E s \in Sales : ReadCreator(p, s) \/ Cancel(p, s)

Continue(p) ==
  \/ PullSubscription(p)
  \/ PushSubscription(p)
  \/ CountSubscriptions(p)
  \/ SetCounters(p)
  \/ SaveCreator(p)
  \/ PullSubscriber(p)

Offer(c) == SetPrices(c) \/ \E u \in Users : AskForm(u, c)

Next ==
  \/ \E c \in Creators : Offer(c)
  \/ \E p \in Procs : Webhook(p) \/ Continue(p) \/ AbortJob(p)

Spec == Init /\ [][Next]_vars

(* Node resumes a call whose database answer has arrived.                  *)
FairSpec == Spec /\ \A p \in Procs : WF_vars(Continue(p))
=============================================================================
