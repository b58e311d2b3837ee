------------------------- MODULE PaymentsProperties -------------------------
(***************************************************************************)
(* What the payments promise, over the state machine of module Payments.   *)
(***************************************************************************)
EXTENDS Payments, Sums

(* Balances, records, events and handlers hold values of their types; an   *)
(* event only names a record that exists, for the record is created before *)
(* the event is emitted (payment.service.ts:25-34).                        *)
TypeOK ==
  /\ balance \in [Users -> Int]
  /\ purchases \in [Users -> SUBSET Ids]
  /\ records \in Seq(Entry)
  /\ goal \in [Goals -> [state : GoalStates, current : Int, target : Targets]]
  /\ stream \in [Streams -> {"onAir", "completed"}]
  /\ accepted \subseteq Ids
  /\ completed \subseteq Streams
  /\ job \in [Procs -> Job]
  /\ calls \in 0 .. MaxCalls
  /\ faults \in 0 .. MaxFaults

(* A balance never goes below zero, however debits of the same user are    *)
(* interleaved: processRecord compares and debits in one update            *)
(* (payment.service.ts:15-24).                                             *)
NoOverdraft == \A u \in Users : balance[u] >= 0

-----------------------------------------------------------------------------
(* The accounts.                                                           *)

Quiet == \A p \in Procs : Idle(p)
NothingInFlight == Quiet /\ accepted = {} /\ completed = {}

OwnedBy(u) == {i \in Ids : records[i].owner = u}
Sums(S) == Total([i \in S |-> records[i].sum])
Marking(i) == \E p \in Procs : /\ job[p].pc \in {"mark", "markTip"}
                               /\ job[p].id = i
Counted(i) == records[i].processed \/ Marking(i)

(* Money moved for u by processRecord calls that have yet to create their  *)
(* record.                                                                 *)
Unrecorded(u) ==
  LET creating == {p \in Procs : job[p].pc = "create" /\ job[p].entry.owner = u}
      refunding == UNION {job[p].credited :
                            p \in {q \in Procs : job[q].pc = "revert"}}
  IN Total([p \in creating |-> job[p].entry.sum])
       - Sums(refunding \cap OwnedBy(u))

(* Reconciliation: while nothing failed, the balance of a user is the      *)
(* initial one plus the sums of the records of that user, plus once more   *)
(* the sum of every payout the payment molecule has handled                *)
(* (payment.molecule.ts:33 after payment.service.ts:23).                   *)
LedgerReconciles ==
  faults = 0 => \A u \in Users :
    balance[u] = InitBalance + Sums(OwnedBy(u))
                   + Sums({i \in OwnedBy(u) : IsPayout(i) /\ Counted(i)})
                   + Unrecorded(u)

(* The amount of a goal is made of its counted tips and of nothing else; a *)
(* failure between the increment and processedAt can only leave a tip that *)
(* is in the amount unmarked (payment.molecule.ts:40-55), hence unrefunded.*)
GoalFundedByTips ==
  \A g \in Goals :
    LET tips == {i \in Ids : IsTip(i) /\ records[i].ref = g /\ Counted(i)}
    IN /\ goal[g].current >= -Sums(tips)
       /\ faults = 0 => goal[g].current = -Sums(tips)

-----------------------------------------------------------------------------
(* Refunds.                                                                *)

BeingRefunded(p) ==
  IF job[p].pc = "revert" THEN job[p].todo \cup job[p].credited ELSE {}

(* A tip is given back at most once, over every delivery of                *)
(* liveStream.completed and every handler in progress: expiring the goal   *)
(* is one conditional update (goals.molecule.ts:20-28).                    *)
RefundedOnce ==
  /\ \A i, j \in Ids : IsRefund(i) /\ IsRefund(j)
                         /\ records[i].ref = records[j].ref => i = j
  /\ \A i \in Ids, p \in Procs :
       IsRefund(i) => records[i].ref \notin BeingRefunded(p)
  /\ \A p, q \in Procs :
       p # q => BeingRefunded(p) \cap BeingRefunded(q) = {}

(* A refund names a tip that was processed, goes to the user who paid it   *)
(* and gives back exactly what was paid (goals.molecule.ts:37-44).         *)
RefundMatchesTip ==
  \A i \in Ids : IsRefund(i) =>
    LET tip == records[i].ref
    IN /\ tip \in Ids
       /\ IsTip(tip)
       /\ records[tip].processed
       /\ records[i].owner = records[tip].owner
       /\ records[i].sum = -records[tip].sum

-----------------------------------------------------------------------------
(* Payouts.                                                                *)

(* The amount a payout of g, recorded or on its way, is made of.           *)
PayoutAmounts(g) ==
  {records[i].sum : i \in {k \in Ids : IsPayout(k) /\ records[k].ref = g}}
    \cup {job[p].entry.sum :
            p \in {q \in Procs : /\ job[q].pc \in {"move", "create"}
                                 /\ job[q].entry.type = "GoalReached"
                                 /\ job[q].entry.ref = g}}

(* No payout exceeds what the goal has collected, and no two payouts of a  *)
(* goal are of the same amount: each stems from an increment of its own    *)
(* (payment.molecule.ts:40-65).                                            *)
PayoutsWithinFunding ==
  /\ \A g \in Goals : \A a \in PayoutAmounts(g) : a <= goal[g].current
  /\ \A i, j \in Ids : IsPayout(i) /\ IsPayout(j) /\ records[i].ref \in Goals
                         /\ records[i].ref = records[j].ref
                         /\ records[i].sum = records[j].sum => i = j

(* A content is unlocked only by a recorded purchase of the same user, and *)
(* a purchase is marked processed only once the content is unlocked        *)
(* (payment.molecule.ts:70-75).                                            *)
PurchasesBacked ==
  /\ \A u \in Users : \A i \in purchases[u] :
       records[i].type = "PurchaseContent" /\ records[i].owner = u
  /\ \A i \in Ids : records[i].type = "PurchaseContent" /\ records[i].processed
                      => i \in purchases[records[i].owner]

(* What was paid for is there: the amount of a goal is made of its tips,   *)
(* and a purchase that is over has unlocked its content, whatever fails.   *)
EffectsBacked == GoalFundedByTips /\ PurchasesBacked

-----------------------------------------------------------------------------
(* Liveness, under FairSpec and without faults.                            *)

RecordIds == 1 .. 3 * MaxCalls
Awaited(i) ==
  i \in Ids /\ records[i].type \in {"SendTip", "PurchaseContent", "GoalReached"}
Processed(i) == i \in Ids /\ records[i].processed
Skipped(i) ==
  i \in Ids /\ IsTip(i) /\ goal[records[i].ref].state = "removed"

(* Every payment accepted is processed, unless it is a tip whose goal has  *)
(* been removed: nothing waits for ever and no event is forgotten.         *)
PaymentsProcessed ==
  \A i \in RecordIds : Awaited(i) ~> (Processed(i) \/ Skipped(i))

(* A tip processed while its goal was active is given back whenever the    *)
(* goal expires afterwards (goals.molecule.ts:29-45).                      *)
ActiveTip(i) == Processed(i) /\ IsTip(i) /\ goal[records[i].ref].state = "active"
ExpiredTip(i) == Processed(i) /\ IsTip(i) /\ goal[records[i].ref].state = "expired"
Refunded(i) == \E k \in Ids : IsRefund(k) /\ records[k].ref = i
TipsOfExpiredGoalRefunded ==
  \A i \in RecordIds : [](ActiveTip(i) => [](ExpiredTip(i) => <>Refunded(i)))

-----------------------------------------------------------------------------
(* What the repository says and the code does not do, refuted by a run of  *)
(* its own.                                                                *)

(* payment.molecule.spec.ts:280-286: reaching a goal is paid by one        *)
(* payment.accepted of type GoalReached.                                   *)
GoalPaidOnce ==
  \A i, j \in Ids : IsPayout(i) /\ IsPayout(j) /\ records[i].ref \in Goals
                      /\ records[i].ref = records[j].ref => i = j

=============================================================================
