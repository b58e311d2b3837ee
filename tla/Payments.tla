------------------------------ MODULE Payments ------------------------------
(***************************************************************************)
(* The money of the system: user balances, balance records, the tips that  *)
(* fund the goal of a live stream, and purchases of content.               *)
(*                                                                         *)
(* Every movement goes through processRecord (payment.service.ts): change  *)
(* the balance by one conditional update, create the balance record, emit  *)
(* "payment.accepted".  The payment molecule consumes that event and the   *)
(* goals molecule consumes "liveStream.completed".  A request or an event  *)
(* handler is a process p \in Procs; each of its database calls is one     *)
(* action, so that handlers interleave exactly where the code awaits.      *)
(*                                                                         *)
(* Events travel over the Moleculer transporter: at most once, in any      *)
(* order.  A fault (a crash of the node, a database error) ends a handler  *)
(* between two calls, or loses an event.  A request whose checks fail      *)
(* changes nothing and is not an action.                                   *)
(***************************************************************************)
EXTENDS Integers, Sequences, FiniteSets

CONSTANTS
  Users,        \* the documents of the users collection
  Goals,        \* the goals, all created and active at the start
  Streams,      \* the live streams, all on air at the start
  Contents,     \* purchasable live streams, albums and videos
  Procs,        \* running handlers: a bound on the concurrency
  None,         \* JavaScript's undefined, for an owner or a ref
  GoalOwner,    \* the owner field of a goal
  StreamOf,     \* the liveStream field of a goal
  Price,        \* the price of a content
  Targets,      \* the target amounts a goal may have
  TipSums,      \* the sums a client may ask to tip
  DepositSums,  \* the sums a ccBill deposit may have
  InitBalance,  \* the balance of a new user (1000 in user.model.ts)
  MaxCalls,     \* bound: tips, purchases and deposits requested
  MaxFaults     \* bound: handlers cut short and events lost

ASSUME UsersAssumption == None \notin Users
ASSUME ProcsAssumption == IsFiniteSet(Procs)
ASSUME GoalsAssumption ==
  /\ GoalOwner \in [Goals -> Users]
  /\ StreamOf \in [Goals -> Streams]
  /\ Targets \subseteq Nat \ {0}
  /\ Goals \cap Contents = {}
ASSUME SumsAssumption ==
  /\ Price \in [Contents -> Nat \ {0}]
  /\ TipSums \subseteq Int
  /\ DepositSums \subseteq Nat
  /\ InitBalance \in Nat
ASSUME BoundsAssumption == MaxCalls \in Nat /\ MaxFaults \in Nat

VARIABLES
  balance,    \* user |-> balance
  purchases,  \* user |-> records of the purchases array
  records,    \* the BalanceRecord collection; the _id is the index
  goal,       \* goal |-> state, currentAmount, targetAmount
  stream,     \* live stream |-> state
  accepted,   \* payment.accepted events in flight, by record
  completed,  \* liveStream.completed events in flight, by stream
  job,        \* handler |-> where it is and what it holds
  calls,      \* requests made (bounded by MaxCalls)
  faults      \* faults suffered (bounded by MaxFaults)

vars == <<balance, purchases, records, goal, stream,
          accepted, completed, job, calls, faults>>

-----------------------------------------------------------------------------
Types == {"GoalReached", "PurchaseContent", "Reverting",
          "Sale", "SendTip", "Deposit"}
GoalStates == {"active", "reached", "expired", "removed"}

(* The document a handler passes to processRecord.                         *)
Entry == [owner : Users \cup {None}, type : Types, sum : Int,
          ref : Goals \cup Contents \cup Nat \cup {None},
          processed : BOOLEAN]

NewEntry(owner, type, sum, ref) ==
  [owner |-> owner, type |-> type, sum |-> sum, ref |-> ref,
   processed |-> FALSE]

(* The handler states: one set per await at which a handler can be; a      *)
(* record is held by its _id.                                              *)
IdleJob == [pc |-> "idle"]
Job ==
  {IdleJob}
    \cup [pc : {"move", "create"}, entry : Entry]
    \cup [pc : {"mark", "markPurchase"}, id : Nat]
    \cup [pc : {"markTip"}, id : Nat, goal : Goals, amount : Int,
          reached : BOOLEAN]
    \cup [pc : {"reach"}, goal : Goals, amount : Int]
    \cup [pc : {"find"}, goal : Goals]
    \cup [pc : {"stop"}, stream : Streams]
    \cup [pc : {"revert"}, todo : SUBSET Nat, credited : SUBSET Nat]

Idle(p) == job[p].pc = "idle"
Become(p, j) == job' = [job EXCEPT ![p] = j]
Finish(p) == Become(p, IdleJob)
ProcessRecord(p, entry) == Become(p, [pc |-> "move", entry |-> entry])

Ids == DOMAIN records
IsTip(i) == records[i].type = "SendTip"
IsPayout(i) == records[i].type = "GoalReached"
IsRefund(i) == records[i].type = "Reverting"

Init ==
  /\ balance = [u \in Users |-> InitBalance]
  /\ purchases = [u \in Users |-> {}]
  /\ records = <<>>
  /\ goal \in [Goals -> [state : {"active"}, current : {0}, target : Targets]]
  /\ stream = [s \in Streams |-> "onAir"]
  /\ accepted = {}
  /\ completed = {}
  /\ job = [p \in Procs |-> IdleJob]
  /\ calls = 0
  /\ faults = 0

-----------------------------------------------------------------------------
(* Requests.                                                               *)

Call(p, owner, type, sum, ref) ==
  /\ Idle(p)
  /\ calls < MaxCalls
  /\ calls' = calls + 1
  /\ ProcessRecord(p, NewEntry(owner, type, sum, ref))
  /\ UNCHANGED <<balance, purchases, records, goal, stream,
                 accepted, completed, faults>>

(* goal.controller sendTip: the goal is read here, the tip is capped to    *)
(* what is missing in that snapshot, and debited by a later call.          *)
SendTip(p, u, g, sum) ==
  LET missing == goal[g].target - goal[g].current
      adjusted == IF missing < sum THEN missing ELSE sum
  IN /\ goal[g].state = "active"
     /\ adjusted > 0
     /\ Call(p, u, "SendTip", -adjusted, g)

(* purchase of the liveStream, album and video controllers.                *)
Purchase(p, u, c) == Call(p, u, "PurchaseContent", -Price[c], c)

(* ccBill's applyDeposit.                                                  *)
Deposit(p, u, sum) == Call(p, u, "Deposit", sum, None)

(* PATCH and DELETE of a goal by its owner.                                *)
ChangeTarget(g, target) ==
  /\ goal[g].state # "removed"
  /\ goal' = [goal EXCEPT ![g].target = target]
  /\ UNCHANGED <<balance, purchases, records, stream,
                 accepted, completed, job, calls, faults>>

RemoveGoal(g) ==
  /\ goal[g].state # "removed"
  /\ goal' = [goal EXCEPT ![g].state = "removed"]
  /\ UNCHANGED <<balance, purchases, records, stream,
                 accepted, completed, job, calls, faults>>

(* liveStream.controller stop: the state is checked on a snapshot and then *)
(* saved, so two stops may both complete the stream and emit the event.    *)
StopStream(p, s) ==
  /\ Idle(p)
  /\ stream[s] = "onAir"
  /\ Become(p, [pc |-> "stop", stream |-> s])
  /\ UNCHANGED <<balance, purchases, records, goal, stream,
                 accepted, completed, calls, faults>>

SaveStop(p) ==
  /\ job[p].pc = "stop"
  /\ stream' = [stream EXCEPT ![job[p].stream] = "completed"]
  /\ completed' = completed \cup {job[p].stream}
  /\ Finish(p)
  /\ UNCHANGED <<balance, purchases, records, goal, accepted, calls, faults>>

-----------------------------------------------------------------------------
(* processRecord.                                                          *)

(* Mutant: the balance filter forgotten.                                   *)
MatchesAnyBalance(entry) == entry.owner \in Users

(* The filter of the conditional update; owner undefined matches no user.  *)
Matches(entry) ==
  /\ entry.owner \in Users
  /\ entry.sum < 0 => balance[entry.owner] >= -entry.sum

MoveBalance(p) ==
  /\ job[p].pc = "move"
  /\ Matches(job[p].entry)
  /\ balance' = [balance EXCEPT ![job[p].entry.owner] = @ + job[p].entry.sum]
  /\ Become(p, [pc |-> "create", entry |-> job[p].entry])
  /\ UNCHANGED <<purchases, records, goal, stream,
                 accepted, completed, calls, faults>>

(* Mutant: the record created although no balance was modified.            *)
StoreRefused(p) ==
  /\ job[p].pc = "move"
  /\ ~Matches(job[p].entry)
  /\ Become(p, [pc |-> "create", entry |-> job[p].entry])
  /\ UNCHANGED <<balance, purchases, records, goal, stream,
                 accepted, completed, calls, faults>>

RefuseRecord(p) ==
  /\ job[p].pc = "move"
  /\ ~Matches(job[p].entry)
  /\ Finish(p)
  /\ UNCHANGED <<balance, purchases, records, goal, stream,
                 accepted, completed, calls, faults>>

(* Mutant: the event emitted without a record behind it.                   *)
EmitOnly(entry) ==
  /\ accepted' = accepted \cup {Len(records) + 1}
  /\ UNCHANGED records

(* BalanceRecord.create and the emit that follows it without an await; a   *)
(* crash in between is the loss of the event.                              *)
StoreAndEmit(entry) ==
  /\ records' = Append(records, entry)
  /\ accepted' = accepted \cup {Len(records) + 1}

CreateRecord(p) ==
  /\ job[p].pc = "create"
  /\ StoreAndEmit(job[p].entry)
  /\ Finish(p)
  /\ UNCHANGED <<balance, purchases, goal, stream, completed, calls, faults>>

-----------------------------------------------------------------------------
(* The payment molecule.                                                   *)

Receive(p, i) ==
  /\ Idle(p)
  /\ i \in accepted
  /\ accepted' = accepted \ {i}

(* processSendTip: $inc whatever the state of the goal, new document back. *)
TakeTip(p, i) ==
  LET g == records[i].ref
      amount == goal[g].current - records[i].sum
  IN /\ Receive(p, i)
     /\ IsTip(i)
     /\ goal[g].state # "removed"
     /\ goal' = [goal EXCEPT ![g].current = amount]
     /\ Become(p, [pc |-> "markTip", id |-> i, goal |-> g, amount |-> amount,
                   reached |-> amount >= goal[g].target])
     /\ UNCHANGED <<balance, purchases, records, stream,
                    completed, calls, faults>>

SkipTip(p, i) ==
  /\ Receive(p, i)
  /\ IsTip(i)
  /\ goal[records[i].ref].state = "removed"
  /\ UNCHANGED <<balance, purchases, records, goal, stream,
                 completed, job, calls, faults>>

SetProcessed(i) == records' = [records EXCEPT ![i].processed = TRUE]

(* Mutant: a tip that does not fill the goal is not marked.                *)
MarkLastTip(p) ==
  /\ job[p].pc = "markTip"
  /\ IF job[p].reached
     THEN /\ SetProcessed(job[p].id)
          /\ Become(p, [pc |-> "reach", goal |-> job[p].goal,
                        amount |-> job[p].amount])
     ELSE Finish(p) /\ UNCHANGED records
  /\ UNCHANGED <<balance, purchases, goal, stream,
                 accepted, completed, calls, faults>>

MarkTip(p) ==
  /\ job[p].pc = "markTip"
  /\ SetProcessed(job[p].id)
  /\ IF job[p].reached
     THEN Become(p, [pc |-> "reach", goal |-> job[p].goal,
                     amount |-> job[p].amount])
     ELSE Finish(p)
  /\ UNCHANGED <<balance, purchases, goal, stream,
                 accepted, completed, calls, faults>>

(* Mutant: the payout read afresh.                                         *)
PayCurrentAmount(p) ==
  /\ job[p].pc = "reach"
  /\ LET g == job[p].goal IN
       /\ goal' = [goal EXCEPT ![g].state = "reached"]
       /\ ProcessRecord(p, NewEntry(GoalOwner[g], "GoalReached",
                                    goal[g].current, g))
  /\ UNCHANGED <<balance, purchases, records, stream,
                 accepted, completed, calls, faults>>

(* goal.save() writes the state only, over whatever it has become; the     *)
(* payout is the amount of this handler's own snapshot.                    *)
ReachGoal(p) ==
  /\ job[p].pc = "reach"
  /\ LET g == job[p].goal IN
       IF goal[g].state = "removed"
       THEN Finish(p) /\ UNCHANGED goal
       ELSE /\ goal' = [goal EXCEPT ![g].state = "reached"]
            /\ ProcessRecord(p, NewEntry(GoalOwner[g], "GoalReached",
                                         job[p].amount, g))
  /\ UNCHANGED <<balance, purchases, records, stream,
                 accepted, completed, calls, faults>>

(* processGoalReachedAndSale: the balance is incremented once more.        *)
TakePayout(p, i) ==
  /\ Receive(p, i)
  /\ records[i].type \in {"GoalReached", "Sale"}
  /\ balance' = [balance EXCEPT ![records[i].owner] = @ + records[i].sum]
  /\ Become(p, [pc |-> "mark", id |-> i])
  /\ UNCHANGED <<purchases, records, goal, stream, completed, calls, faults>>

(* Mutant: a payout never marked processed.                                *)
MarkNothing(p) ==
  /\ job[p].pc = "mark"
  /\ Finish(p)
  /\ UNCHANGED <<balance, purchases, records, goal, stream,
                 accepted, completed, calls, faults>>

Mark(p) ==
  /\ job[p].pc = "mark"
  /\ SetProcessed(job[p].id)
  /\ Finish(p)
  /\ UNCHANGED <<balance, purchases, goal, stream,
                 accepted, completed, calls, faults>>

(* Mutant: marked first, unlocked later.                                   *)
MarkBeforeUnlock(p, i) ==
  /\ Receive(p, i)
  /\ records[i].type = "PurchaseContent"
  /\ SetProcessed(i)
  /\ Become(p, [pc |-> "markPurchase", id |-> i])
  /\ UNCHANGED <<balance, purchases, goal, stream, completed, calls, faults>>

(* processPurchaseContent: push the purchase, mark the record, then pay    *)
(* the price to the owner field of a projection that does not select it.   *)
TakePurchase(p, i) ==
  /\ Receive(p, i)
  /\ records[i].type = "PurchaseContent"
  /\ purchases' = [purchases EXCEPT ![records[i].owner] = @ \cup {i}]
  /\ Become(p, [pc |-> "markPurchase", id |-> i])
  /\ UNCHANGED <<balance, records, goal, stream, completed, calls, faults>>

MarkPurchase(p) ==
  LET i == job[p].id
  IN /\ job[p].pc = "markPurchase"
     /\ SetProcessed(i)
     /\ ProcessRecord(p, NewEntry(None, "GoalReached",
                                  -records[i].sum, records[i].ref))
     /\ UNCHANGED <<balance, purchases, goal, stream,
                    accepted, completed, calls, faults>>

(* The types the handler has no branch for.                                *)
IgnoreAccepted(p, i) ==
  /\ Receive(p, i)
  /\ records[i].type \in {"Deposit", "Reverting"}
  /\ UNCHANGED <<balance, purchases, records, goal, stream,
                 completed, job, calls, faults>>

-----------------------------------------------------------------------------
(* The goals molecule: expire the active goal of a completed stream and    *)
(* give its processed tips back, all of them in parallel.                  *)

(* Mutant: the state left out of the filter.                               *)
GoalsOf(s) == {g \in Goals : StreamOf[g] = s}

ActiveGoals(s) == {g \in Goals : StreamOf[g] = s /\ goal[g].state = "active"}

ExpireGoal(p, s, g) ==
  /\ Idle(p)
  /\ s \in completed
  /\ completed' = completed \ {s}
  /\ g \in ActiveGoals(s)
  /\ goal' = [goal EXCEPT ![g].state = "expired"]
  /\ Become(p, [pc |-> "find", goal |-> g])
  /\ UNCHANGED <<balance, purchases, records, stream, accepted, calls, faults>>

NothingToExpire(s) ==
  /\ s \in completed
  /\ completed' = completed \ {s}
  /\ ActiveGoals(s) = {}
  /\ UNCHANGED <<balance, purchases, records, goal, stream,
                 accepted, job, calls, faults>>

(* Mutant: tips not processed yet given back too.                          *)
AllTips(g) == {i \in Ids : IsTip(i) /\ records[i].ref = g}

ProcessedTips(g) ==
  {i \in Ids : IsTip(i) /\ records[i].processed /\ records[i].ref = g}

(* Mutant: the handler ends before its last record is created.             *)
RevertingEarly(p, todo, credited) ==
  IF todo = {}
  THEN Finish(p)
  ELSE Become(p, [pc |-> "revert", todo |-> todo, credited |-> credited])

Reverting(p, todo, credited) ==
  IF todo = {} /\ credited = {}
  THEN Finish(p)
  ELSE Become(p, [pc |-> "revert", todo |-> todo, credited |-> credited])

FindTips(p) ==
  /\ job[p].pc = "find"
  /\ Reverting(p, ProcessedTips(job[p].goal), {})
  /\ UNCHANGED <<balance, purchases, records, goal, stream,
                 accepted, completed, calls, faults>>

(* The two awaits of processRecord for the tip i, the sum being positive.  *)
RefundTip(p, i) ==
  /\ job[p].pc = "revert"
  /\ i \in job[p].todo
  /\ balance' = [balance EXCEPT ![records[i].owner] = @ - records[i].sum]
  /\ Reverting(p, job[p].todo \ {i}, job[p].credited \cup {i})
  /\ UNCHANGED <<purchases, records, goal, stream,
                 accepted, completed, calls, faults>>

RecordRefund(p, i) ==
  /\ job[p].pc = "revert"
  /\ i \in job[p].credited
  /\ StoreAndEmit(NewEntry(records[i].owner, "Reverting", -records[i].sum, i))
  /\ Reverting(p, job[p].todo, job[p].credited \ {i})
  /\ UNCHANGED <<balance, purchases, goal, stream, completed, calls, faults>>

-----------------------------------------------------------------------------
(* Faults.                                                                 *)

Fault == faults < MaxFaults /\ faults' = faults + 1

AbortJob(p) ==
  /\ Fault
  /\ ~Idle(p)
  /\ Finish(p)
  /\ UNCHANGED <<balance, purchases, records, goal, stream,
                 accepted, completed, calls>>

LoseAccepted(i) ==
  /\ Fault
  /\ accepted' = accepted \ {i}
  /\ UNCHANGED <<balance, purchases, records, goal, stream,
                 completed, job, calls>>

LoseCompleted(s) ==
  /\ Fault
  /\ completed' = completed \ {s}
  /\ UNCHANGED <<balance, purchases, records, goal, stream,
                 accepted, job, calls>>

-----------------------------------------------------------------------------
Request(p) ==
  \/ \E u \in Users, g \in Goals, sum \in TipSums : SendTip(p, u, g, sum)
  \/ \E u \in Users, c \in Contents : Purchase(p, u, c)
  \/ \E u \in Users, sum \in DepositSums : Deposit(p, u, sum)
  \/ \E s \in Streams : StopStream(p, s)

Administer ==
  \/ \E g \in Goals, target \in Targets : ChangeTarget(g, target)
  \/ \E g \in Goals : RemoveGoal(g)

Handle(p) ==
  \/ \E i \in accepted : \/ TakeTip(p, i)
                         \/ SkipTip(p, i)
                         \/ TakePayout(p, i)
                         \/ TakePurchase(p, i)
                         \/ IgnoreAccepted(p, i)
  \/ \E s \in completed : \E g \in Goals : ExpireGoal(p, s, g)
  \/ \E s \in completed : NothingToExpire(s)

Continue(p) ==
  \/ SaveStop(p)
  \/ MoveBalance(p)
  \/ RefuseRecord(p)
  \/ CreateRecord(p)
  \/ MarkTip(p)
  \/ ReachGoal(p)
  \/ Mark(p)
  \/ MarkPurchase(p)
  \/ FindTips(p)
  \/ \E i \in Ids : RefundTip(p, i) \/ RecordRefund(p, i)

Break ==
  \/ \E p \in Procs : AbortJob(p)
  \/ \E i \in accepted : LoseAccepted(i)
  \/ \E s \in completed : LoseCompleted(s)

Next ==
  \/ \E p \in Procs : Request(p) \/ Handle(p) \/ Continue(p)
  \/ Administer
  \/ Break

Spec == Init /\ [][Next]_vars

(* Node resumes every handler whose database call has returned, and the    *)
(* transporter delivers what it does not lose.  Nothing obliges a client.  *)
FairSpec ==
  /\ Spec
  /\ \A p \in Procs : WF_vars(Continue(p))
  /\ WF_vars(\E p \in Procs : Handle(p))
=============================================================================
