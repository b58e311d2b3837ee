---------------------------- MODULE PaymentsProofs --------------------------
(***************************************************************************)
(* Theorems about module Payments, for every value of its constants and    *)
(* under faults: no user is ever overdrawn, every variable keeps its type, *)
(* a tip is given back at most once, a goal is paid out once and from what *)
(* it collected, what a buyer was given is backed by a record, the         *)
(* balances reconcile with the records while nothing fails, and the amount *)
(* of a goal is made of its tips.                                          *)
(*                                                                         *)
(* The invariants are not inductive alone.  That a credit never lowers a   *)
(* balance depends on the signs of the sums that handlers hold and records *)
(* store: a tip and a purchase are debits, a payout is a credit, what is   *)
(* reverted is a tip.                                                      *)
(***************************************************************************)
EXTENDS PaymentsProperties, SumsProofs

(* The sign of an entry, and what it is about, follow from its type.       *)
Signed(e) ==
  /\ e.type = "SendTip" => e.ref \in Goals /\ e.sum < 0
  /\ e.type = "PurchaseContent" => e.ref \in Contents /\ e.sum <= 0
  /\ e.type \in {"GoalReached", "Sale"} => e.sum >= 0

RecordsSigned ==
  \A i \in Ids : Signed(records[i]) /\ records[i].owner \in Users

(* What a handler holds, R being the records: signed entries, not          *)
(* processed, with an owner once the balance has moved, amounts that are   *)
(* not negative, and ids of records of the right type.                     *)
JobSigned(j, R) ==
  /\ j.pc \in {"move", "create"} => Signed(j.entry) /\ ~j.entry.processed
  /\ j.pc = "create" => j.entry.owner \in Users
  /\ j.pc \in {"mark", "markTip", "markPurchase"} => j.id \in DOMAIN R
  /\ j.pc = "mark" => R[j.id].type \in {"GoalReached", "Sale"}
  /\ j.pc = "markTip" => R[j.id].type = "SendTip"
  /\ j.pc = "markPurchase" => R[j.id].type = "PurchaseContent"
  /\ j.pc = "markTip" => (j.reached => j.amount >= 0)
  /\ j.pc = "reach" => j.amount >= 0
  /\ j.pc = "revert" => \A i \in j.todo \cup j.credited :
                          i \in DOMAIN R /\ R[i].type = "SendTip"

JobsSigned == \A p \in Procs : JobSigned(job[p], records)

(* The inductive invariant.                                                *)
IInv == TypeOK /\ RecordsSigned /\ JobsSigned /\ NoOverdraft

-----------------------------------------------------------------------------
(* What a handler holds at each of its places.                             *)
LEMMA JobShape ==
  ASSUME NEW j \in Job
  PROVE  /\ j.pc \in {"move", "create"} => j.entry \in Entry
         /\ j.pc = "markTip" =>
              j.goal \in Goals /\ j.amount \in Int /\ j.reached \in BOOLEAN
         /\ j.pc = "reach" => j.goal \in Goals /\ j.amount \in Int
         /\ j.pc = "find" => j.goal \in Goals
         /\ j.pc = "stop" => j.stream \in Streams
         /\ j.pc = "revert" =>
              j.todo \in SUBSET Nat /\ j.credited \in SUBSET Nat
  BY DEF Job, IdleJob

(* A signed state stays signed when records are added and none changes its *)
(* type.                                                                   *)
Keeps(R, S) ==
  /\ DOMAIN R \subseteq DOMAIN S
  /\ \A i \in DOMAIN R : S[i].type = R[i].type

LEMMA SignedStays ==
  ASSUME NEW R, NEW S, Keeps(R, S), NEW j, JobSigned(j, R)
  PROVE  JobSigned(j, S)
  BY DEF JobSigned, Keeps

(* One handler moves on to the state j, the others stay.                   *)
LEMMA OneHandler ==
  ASSUME TypeOK, JobsSigned, Keeps(records, records'),
         NEW p \in Procs, NEW j \in Job, Become(p, j), JobSigned(j, records')
  PROVE  job' \in [Procs -> Job] /\ JobsSigned'
<1>1. job' \in [Procs -> Job] /\ \A q \in Procs : job'[q] = IF q = p THEN j ELSE job[q]
  BY DEF Become, TypeOK
<1>2. \A q \in Procs : JobSigned(job[q], records')
  BY SignedStays DEF JobsSigned
<1>3. QED
  BY <1>1, <1>2 DEF JobsSigned

(* A handler that ends.                                                    *)
LEMMA IdleIsSigned ==
  ASSUME NEW R
  PROVE  IdleJob \in Job /\ JobSigned(IdleJob, R)
  BY DEF IdleJob, Job, JobSigned

(* A handler that calls processRecord.                                     *)
LEMMA CallIsSigned ==
  ASSUME NEW R, NEW e \in Entry, Signed(e), ~e.processed
  PROVE  /\ [pc |-> "move", entry |-> e] \in Job
         /\ JobSigned([pc |-> "move", entry |-> e], R)
  BY DEF Job, JobSigned

(* The part of TypeOK that is not about handlers.                          *)
DataTyped ==
  /\ balance \in [Users -> Int]
  /\ purchases \in [Users -> SUBSET Ids]
  /\ records \in Seq(Entry)
  /\ goal \in [Goals -> [state : GoalStates, current : Int, target : Targets]]
  /\ stream \in [Streams -> {"onAir", "completed"}]
  /\ accepted \subseteq Ids
  /\ completed \subseteq Streams
  /\ calls \in 0 .. MaxCalls
  /\ faults \in 0 .. MaxFaults

(* What is left to show of a step of one handler.                          *)
LEMMA HandlerStep ==
  ASSUME IInv, NEW p \in Procs, NEW j \in Job, Become(p, j),
         Keeps(records, records'), JobSigned(j, records'),
         DataTyped', RecordsSigned', NoOverdraft'
  PROVE  IInv'
<1>1. job' \in [Procs -> Job] /\ JobsSigned'
  BY OneHandler DEF IInv
<1>2. QED
  BY <1>1 DEF IInv, TypeOK, DataTyped

(* Steps that leave the records alone keep them signed.                    *)
LEMMA SameRecords ==
  ASSUME IInv, UNCHANGED records
  PROVE  Keeps(records, records') /\ RecordsSigned' /\ Ids' = Ids
  BY DEF IInv, Keeps, RecordsSigned, Ids, Signed

(* Adding an entry and marking one processed are the only changes.         *)
LEMMA AddedRecord ==
  ASSUME IInv, NEW e \in Entry, Signed(e), e.owner \in Users, StoreAndEmit(e)
  PROVE  /\ Keeps(records, records') /\ RecordsSigned'
         /\ records' \in Seq(Entry)
         /\ Ids \subseteq Ids'
         /\ accepted' \subseteq Ids'
<1>1. records \in Seq(Entry) /\ accepted \subseteq Ids
  BY DEF IInv, TypeOK
<1>2. /\ records' \in Seq(Entry)
      /\ Ids' = Ids \cup {Len(records) + 1}
      /\ \A i \in Ids : records'[i] = records[i]
      /\ records'[Len(records) + 1] = e
  BY <1>1 DEF StoreAndEmit, Ids
<1>3. QED
  BY <1>1, <1>2 DEF IInv, StoreAndEmit, Keeps, RecordsSigned, Signed, Ids

LEMMA MarkedRecord ==
  ASSUME IInv, NEW i \in Ids, SetProcessed(i)
  PROVE  /\ Keeps(records, records') /\ RecordsSigned'
         /\ records' \in Seq(Entry)
         /\ Ids' = Ids
<1>1. records \in Seq(Entry)
  BY DEF IInv, TypeOK
<1>2. /\ Ids' = Ids
      /\ records[i] \in Entry
      /\ \A k \in Ids : records'[k] = IF k = i THEN [records[i] EXCEPT !.processed = TRUE] ELSE records[k]
  BY <1>1 DEF SetProcessed, Ids
<1>3. [records[i] EXCEPT !.processed = TRUE] \in Entry
  BY <1>2 DEF Entry
<1>4. records' \in Seq(Entry)
  BY <1>1, <1>3 DEF SetProcessed, Ids
<1>5. \A k \in Ids : /\ records'[k].type = records[k].type
                      /\ records'[k].owner = records[k].owner
                      /\ records'[k].sum = records[k].sum
                      /\ records'[k].ref = records[k].ref
  BY <1>2 DEF Entry
<1>6. QED
  BY <1>2, <1>4, <1>5 DEF IInv, Keeps, RecordsSigned, Signed, Ids

-----------------------------------------------------------------------------
(* Init and requests.                                                      *)
LEMMA InitIInv == Init => IInv
<1> SUFFICES ASSUME Init PROVE IInv
  OBVIOUS
<1>1. TypeOK
  BY GoalsAssumption, SumsAssumption, BoundsAssumption
  DEF Init, TypeOK, Job, IdleJob, Ids, GoalStates
<1>2. RecordsSigned /\ JobsSigned /\ NoOverdraft
  BY SumsAssumption, IdleIsSigned
  DEF Init, RecordsSigned, JobsSigned, NoOverdraft, Ids
<1>3. QED
  BY <1>1, <1>2 DEF IInv

LEMMA CallStep ==
  ASSUME IInv, NEW p \in Procs, NEW owner, NEW type, NEW sum, NEW ref,
         NewEntry(owner, type, sum, ref) \in Entry,
         Signed(NewEntry(owner, type, sum, ref)), Call(p, owner, type, sum, ref)
  PROVE  IInv'
<1> DEFINE j == [pc |-> "move", entry |-> NewEntry(owner, type, sum, ref)]
<1>1. Become(p, j)
  BY DEF Call, ProcessRecord
<1>2. j \in Job /\ JobSigned(j, records')
  BY CallIsSigned DEF NewEntry
<1>3. DataTyped' /\ NoOverdraft'
  BY BoundsAssumption DEF IInv, TypeOK, DataTyped, NoOverdraft, Call, Ids
<1>4. Keeps(records, records') /\ RecordsSigned'
  BY SameRecords DEF Call
<1>5. QED
  BY <1>1, <1>2, <1>3, <1>4, HandlerStep

LEMMA RequestStep ==
  ASSUME IInv, NEW p \in Procs, Request(p)
  PROVE  IInv'
<1>1. ASSUME NEW u \in Users, NEW g \in Goals, NEW sum \in TipSums,
             SendTip(p, u, g, sum)
      PROVE  IInv'
  <2> DEFINE missing == goal[g].target - goal[g].current
             adjusted == IF missing < sum THEN missing ELSE sum
             e == NewEntry(u, "SendTip", -adjusted, g)
  <2>1. goal[g].current \in Int /\ goal[g].target \in Int /\ sum \in Int
    <3>1. goal[g] \in [state : GoalStates, current : Int, target : Targets]
      BY DEF IInv, TypeOK
    <3>2. Targets \subseteq Int /\ TipSums \subseteq Int
      BY GoalsAssumption, SumsAssumption
    <3>3. QED
      BY <3>1, <3>2
  <2>2. adjusted \in Int /\ adjusted > 0 /\ Call(p, u, "SendTip", -adjusted, g)
    BY <1>1, <2>1 DEF SendTip
  <2>3. e \in Entry /\ Signed(e)
    BY <2>2 DEF NewEntry, Entry, Types, Signed
  <2>4. QED
    BY <2>2, <2>3, CallStep
<1>2. ASSUME NEW u \in Users, NEW c \in Contents, Purchase(p, u, c)
      PROVE  IInv'
  <2> DEFINE e == NewEntry(u, "PurchaseContent", -Price[c], c)
  <2>1. Price[c] \in Nat
    BY SumsAssumption
  <2>2. e \in Entry /\ Signed(e)
    BY <2>1 DEF NewEntry, Entry, Types, Signed
  <2>3. QED
    BY <1>2, <2>2, CallStep DEF Purchase
<1>3. ASSUME NEW u \in Users, NEW sum \in DepositSums, Deposit(p, u, sum)
      PROVE  IInv'
  <2> DEFINE e == NewEntry(u, "Deposit", sum, None)
  <2>1. e \in Entry /\ Signed(e)
    BY SumsAssumption DEF NewEntry, Entry, Types, Signed
  <2>2. QED
    BY <1>3, <2>1, CallStep DEF Deposit
<1>4. ASSUME NEW s \in Streams, StopStream(p, s)
      PROVE  IInv'
  <2> DEFINE j == [pc |-> "stop", stream |-> s]
  <2>1. j \in Job /\ JobSigned(j, records') /\ Become(p, j)
    BY <1>4 DEF StopStream, Job, JobSigned
  <2>2. DataTyped' /\ NoOverdraft'
    BY <1>4 DEF IInv, TypeOK, DataTyped, NoOverdraft, StopStream, Ids
  <2>3. Keeps(records, records') /\ RecordsSigned'
    BY <1>4, SameRecords DEF StopStream
  <2>4. QED
    BY <2>1, <2>2, <2>3, HandlerStep
<1>5. QED
  BY <1>1, <1>2, <1>3, <1>4 DEF Request

LEMMA AdministerStep ==
  ASSUME IInv, Administer
  PROVE  IInv'
<1>1. PICK g \in Goals, target \in Targets : ChangeTarget(g, target) \/ RemoveGoal(g)
  BY DEF Administer, IInv, TypeOK
<1>2. UNCHANGED <<balance, purchases, records, stream, accepted, completed, job, calls, faults>>
  BY <1>1 DEF ChangeTarget, RemoveGoal
<1>3. goal' \in [Goals -> [state : GoalStates, current : Int, target : Targets]]
  BY <1>1 DEF ChangeTarget, RemoveGoal, IInv, TypeOK, GoalStates
<1>4. QED
  BY <1>2, <1>3, SameRecords DEF IInv, TypeOK, JobsSigned, NoOverdraft, Ids

-----------------------------------------------------------------------------
(* Handlers that go on.                                                    *)

(* A handler ends, and at most a stream is saved as completed.             *)
LEMMA FinishStep ==
  ASSUME IInv, NEW p \in Procs, Finish(p), DataTyped', UNCHANGED <<balance, records>>
  PROVE  IInv'
<1>1. Keeps(records, records') /\ RecordsSigned'
  BY SameRecords
<1>2. NoOverdraft'
  BY DEF IInv, NoOverdraft
<1>3. QED
  BY <1>1, <1>2, IdleIsSigned, HandlerStep DEF Finish

LEMMA SaveStopStep ==
  ASSUME IInv, NEW p \in Procs, SaveStop(p)
  PROVE  IInv'
<1>1. job[p].stream \in Streams
  BY JobShape DEF IInv, TypeOK, SaveStop
<1>2. DataTyped'
  BY <1>1 DEF IInv, TypeOK, DataTyped, SaveStop, Ids
<1>3. QED
  BY <1>2, FinishStep DEF SaveStop

LEMMA MoveStep ==
  ASSUME IInv, NEW p \in Procs, MoveBalance(p)
  PROVE  IInv'
<1> DEFINE e == job[p].entry
           j == [pc |-> "create", entry |-> e]
<1>1. e \in Entry /\ Signed(e) /\ ~e.processed
  BY JobShape DEF IInv, TypeOK, JobsSigned, JobSigned, MoveBalance
<1>2. e.owner \in Users /\ e.sum \in Int
  BY <1>1 DEF MoveBalance, Matches, Entry
<1>3. j \in Job /\ JobSigned(j, records') /\ Become(p, j)
  BY <1>1, <1>2 DEF MoveBalance, Job, JobSigned
<1>4. DataTyped' /\ NoOverdraft'
  BY <1>2 DEF IInv, TypeOK, DataTyped, NoOverdraft, MoveBalance, Matches, Ids
<1>5. Keeps(records, records') /\ RecordsSigned'
  BY SameRecords DEF MoveBalance
<1>6. QED
  BY <1>3, <1>4, <1>5, HandlerStep

LEMMA RefuseStep ==
  ASSUME IInv, NEW p \in Procs, RefuseRecord(p)
  PROVE  IInv'
<1>1. DataTyped'
  BY DEF IInv, TypeOK, DataTyped, RefuseRecord, Ids
<1>2. QED
  BY <1>1, FinishStep DEF RefuseRecord

LEMMA CreateStep ==
  ASSUME IInv, NEW p \in Procs, CreateRecord(p)
  PROVE  IInv'
<1> DEFINE e == job[p].entry
<1>1. e \in Entry /\ Signed(e) /\ e.owner \in Users
  BY JobShape DEF IInv, TypeOK, JobsSigned, JobSigned, CreateRecord
<1>2. StoreAndEmit(e) /\ Become(p, IdleJob)
  BY DEF CreateRecord, Finish
<1>3. /\ Keeps(records, records') /\ RecordsSigned'
      /\ records' \in Seq(Entry) /\ Ids \subseteq Ids' /\ accepted' \subseteq Ids'
  BY <1>1, <1>2, AddedRecord
<1>4. DataTyped' /\ NoOverdraft'
  BY <1>3 DEF IInv, TypeOK, DataTyped, NoOverdraft, CreateRecord
<1>5. QED
  BY <1>2, <1>3, <1>4, IdleIsSigned, HandlerStep

LEMMA MarkTipStep ==
  ASSUME IInv, NEW p \in Procs, MarkTip(p)
  PROVE  IInv'
<1> DEFINE j == [pc |-> "reach", goal |-> job[p].goal, amount |-> job[p].amount]
<1>1. job[p] \in Job /\ JobSigned(job[p], records) /\ job[p].pc = "markTip"
  BY DEF IInv, TypeOK, JobsSigned, MarkTip
<1>2. job[p].id \in Ids
  BY <1>1 DEF JobSigned, Ids
<1>3. /\ Keeps(records, records') /\ RecordsSigned'
      /\ records' \in Seq(Entry) /\ Ids' = Ids
  BY <1>2, MarkedRecord DEF MarkTip
<1>4. DataTyped' /\ NoOverdraft'
  BY <1>3 DEF IInv, TypeOK, DataTyped, NoOverdraft, MarkTip
<1>5. CASE job[p].reached
  <2>1. j \in Job /\ JobSigned(j, records')
    BY <1>1, <1>5, JobShape DEF Job, JobSigned
  <2>2. Become(p, j)
    BY <1>5 DEF MarkTip
  <2>3. QED
    BY <1>3, <1>4, <2>1, <2>2, HandlerStep
<1>6. CASE ~job[p].reached
  BY <1>3, <1>4, <1>6, IdleIsSigned, HandlerStep DEF MarkTip, Finish
<1>7. QED
  BY <1>5, <1>6

LEMMA ReachStep ==
  ASSUME IInv, NEW p \in Procs, ReachGoal(p)
  PROVE  IInv'
<1> DEFINE g == job[p].goal
           e == NewEntry(GoalOwner[g], "GoalReached", job[p].amount, g)
           j == [pc |-> "move", entry |-> e]
<1>1. /\ g \in Goals /\ job[p].amount \in Int /\ job[p].amount >= 0
  BY JobShape DEF IInv, TypeOK, JobsSigned, JobSigned, ReachGoal
<1>2. CASE goal[g].state = "removed"
  <2>1. DataTyped'
    BY <1>2 DEF IInv, TypeOK, DataTyped, ReachGoal, Ids
  <2>2. QED
    BY <1>2, <2>1, FinishStep DEF ReachGoal
<1>3. CASE goal[g].state # "removed"
  <2>1. e \in Entry /\ Signed(e)
    BY <1>1, GoalsAssumption DEF NewEntry, Entry, Types, Signed
  <2>2. j \in Job /\ JobSigned(j, records')
    BY <2>1, CallIsSigned DEF NewEntry
  <2>3. Become(p, j) /\ goal' = [goal EXCEPT ![g].state = "reached"]
    BY <1>3 DEF ReachGoal, ProcessRecord
  <2>4. goal' \in [Goals -> [state : GoalStates, current : Int, target : Targets]]
    BY <2>3 DEF IInv, TypeOK, GoalStates
  <2>5. DataTyped' /\ NoOverdraft'
    BY <2>4 DEF IInv, TypeOK, DataTyped, NoOverdraft, ReachGoal, Ids
  <2>6. Keeps(records, records') /\ RecordsSigned'
    BY SameRecords DEF ReachGoal
  <2>7. QED
    BY <2>2, <2>3, <2>5, <2>6, HandlerStep
<1>4. QED
  BY <1>2, <1>3

LEMMA MarkStep ==
  ASSUME IInv, NEW p \in Procs, Mark(p)
  PROVE  IInv'
<1>1. job[p].id \in Ids
  BY DEF IInv, TypeOK, JobsSigned, JobSigned, Mark, Ids
<1>2. /\ Keeps(records, records') /\ RecordsSigned'
      /\ records' \in Seq(Entry) /\ Ids' = Ids
  BY <1>1, MarkedRecord DEF Mark
<1>3. DataTyped' /\ NoOverdraft'
  BY <1>2 DEF IInv, TypeOK, DataTyped, NoOverdraft, Mark
<1>4. QED
  BY <1>2, <1>3, IdleIsSigned, HandlerStep DEF Mark, Finish

LEMMA MarkPurchaseStep ==
  ASSUME IInv, NEW p \in Procs, MarkPurchase(p)
  PROVE  IInv'
<1> DEFINE i == job[p].id
           e == NewEntry(None, "GoalReached", -records[i].sum, records[i].ref)
           j == [pc |-> "move", entry |-> e]
<1>1. i \in Ids /\ records[i].type = "PurchaseContent"
  BY DEF IInv, TypeOK, JobsSigned, JobSigned, MarkPurchase, Ids
<1>2. records[i] \in Entry /\ Signed(records[i])
  BY <1>1 DEF IInv, TypeOK, RecordsSigned, Ids
<1>3. e \in Entry /\ Signed(e)
  BY <1>1, <1>2 DEF NewEntry, Entry, Types, Signed
<1>4. j \in Job /\ JobSigned(j, records') /\ Become(p, j)
  BY <1>3, CallIsSigned DEF MarkPurchase, ProcessRecord, NewEntry
<1>5. /\ Keeps(records, records') /\ RecordsSigned'
      /\ records' \in Seq(Entry) /\ Ids' = Ids
  BY <1>1, MarkedRecord DEF MarkPurchase
<1>6. DataTyped' /\ NoOverdraft'
  BY <1>5 DEF IInv, TypeOK, DataTyped, NoOverdraft, MarkPurchase
<1>7. QED
  BY <1>4, <1>5, <1>6, HandlerStep

(* A handler that goes on giving tips back.                                *)
LEMMA RevertingIsSigned ==
  ASSUME IInv, NEW p \in Procs, NEW todo, NEW credited, Reverting(p, todo, credited),
         \A i \in todo \cup credited : i \in Nat /\ i \in Ids' /\ IsTip(i)'
  PROVE  \E j \in Job : Become(p, j) /\ JobSigned(j, records')
<1>1. CASE todo = {} /\ credited = {}
  BY <1>1, IdleIsSigned DEF Reverting, Finish
<1>2. CASE ~(todo = {} /\ credited = {})
  <2> DEFINE j == [pc |-> "revert", todo |-> todo, credited |-> credited]
  <2>1. Become(p, j)
    BY <1>2 DEF Reverting
  <2>2. j \in Job /\ JobSigned(j, records')
    BY DEF Job, JobSigned, Ids, IsTip
  <2>3. QED
    BY <2>1, <2>2
<1>3. QED
  BY <1>1, <1>2

LEMMA IdsAreNumbers == IInv => Ids \subseteq Nat
  BY DEF IInv, TypeOK, Ids

LEMMA FindStep ==
  ASSUME IInv, NEW p \in Procs, FindTips(p)
  PROVE  IInv'
<1> DEFINE tips == ProcessedTips(job[p].goal)
<1>1. \A i \in tips \cup {} : i \in Nat /\ i \in Ids' /\ IsTip(i)'
  BY IdsAreNumbers DEF FindTips, ProcessedTips, Ids, IsTip
<1>2. PICK j \in Job : Become(p, j) /\ JobSigned(j, records')
  BY <1>1, RevertingIsSigned DEF FindTips
<1>3. DataTyped' /\ NoOverdraft'
  BY DEF IInv, TypeOK, DataTyped, NoOverdraft, FindTips, Ids
<1>4. Keeps(records, records') /\ RecordsSigned'
  BY SameRecords DEF FindTips
<1>5. QED
  BY <1>2, <1>3, <1>4, HandlerStep

LEMMA RefundStep ==
  ASSUME IInv, NEW p \in Procs, NEW i, RefundTip(p, i)
  PROVE  IInv'
<1> DEFINE todo == job[p].todo \ {i}
           credited == job[p].credited \cup {i}
<1>1. \A k \in job[p].todo \cup job[p].credited : k \in Ids /\ IsTip(k)
  BY DEF IInv, JobsSigned, JobSigned, RefundTip, Ids, IsTip
<1>2. \A k \in todo \cup credited : k \in Nat /\ k \in Ids' /\ IsTip(k)'
  BY <1>1, IdsAreNumbers DEF RefundTip, Ids, IsTip
<1>3. PICK j \in Job : Become(p, j) /\ JobSigned(j, records')
  BY <1>2, RevertingIsSigned DEF RefundTip
<1>4. records[i].owner \in Users /\ records[i].sum \in Int /\ records[i].sum <= 0
  <2>1. i \in Ids /\ IsTip(i)
    BY <1>1 DEF RefundTip
  <2>2. records[i] \in Entry /\ Signed(records[i]) /\ records[i].owner \in Users
    BY <2>1 DEF IInv, TypeOK, RecordsSigned, Ids
  <2>3. QED
    BY <2>1, <2>2 DEF Entry, Signed, IsTip
<1>5. DataTyped' /\ NoOverdraft'
  BY <1>4 DEF IInv, TypeOK, DataTyped, NoOverdraft, RefundTip, Ids
<1>6. Keeps(records, records') /\ RecordsSigned'
  BY SameRecords DEF RefundTip
<1>7. QED
  BY <1>3, <1>5, <1>6, HandlerStep

LEMMA RecordRefundStep ==
  ASSUME IInv, NEW p \in Procs, NEW i, RecordRefund(p, i)
  PROVE  IInv'
<1> DEFINE e == NewEntry(records[i].owner, "Reverting", -records[i].sum, i)
           credited == job[p].credited \ {i}
<1>1. \A k \in job[p].todo \cup job[p].credited : k \in Ids /\ IsTip(k)
  BY DEF IInv, JobsSigned, JobSigned, RecordRefund, Ids, IsTip
<1>2. i \in Ids /\ records[i] \in Entry /\ records[i].owner \in Users
  BY <1>1 DEF RecordRefund, IInv, TypeOK, RecordsSigned, Ids
<1>3. e \in Entry /\ Signed(e) /\ e.owner \in Users
  BY <1>2, IdsAreNumbers DEF NewEntry, Entry, Types, Signed
<1>4. /\ Keeps(records, records') /\ RecordsSigned'
      /\ records' \in Seq(Entry) /\ Ids \subseteq Ids' /\ accepted' \subseteq Ids'
  BY <1>3, AddedRecord DEF RecordRefund
<1>5. \A k \in job[p].todo \cup credited : k \in Nat /\ k \in Ids' /\ IsTip(k)'
  BY <1>1, <1>4, IdsAreNumbers DEF Keeps, Ids, IsTip
<1>6. PICK j \in Job : Become(p, j) /\ JobSigned(j, records')
  BY <1>5, RevertingIsSigned DEF RecordRefund
<1>7. DataTyped' /\ NoOverdraft'
  BY <1>4 DEF IInv, TypeOK, DataTyped, NoOverdraft, RecordRefund
<1>8. QED
  BY <1>4, <1>6, <1>7, HandlerStep

LEMMA ContinueStep ==
  ASSUME IInv, NEW p \in Procs, Continue(p)
  PROVE  IInv'
  BY SaveStopStep, MoveStep, RefuseStep, CreateStep, MarkTipStep, ReachStep,
     MarkStep, MarkPurchaseStep, FindStep, RefundStep, RecordRefundStep
  DEF Continue

-----------------------------------------------------------------------------
(* Handlers that start, and faults.                                        *)
LEMMA TakeTipStep ==
  ASSUME IInv, NEW p \in Procs, NEW i \in accepted, TakeTip(p, i)
  PROVE  IInv'
<1> DEFINE g == records[i].ref
           amount == goal[g].current - records[i].sum
           j == [pc |-> "markTip", id |-> i, goal |-> g, amount |-> amount,
                 reached |-> amount >= goal[g].target]
<1>1. i \in Ids /\ IsTip(i)
  BY DEF IInv, TypeOK, TakeTip
<1>2. g \in Goals /\ records[i].sum \in Int
  <2>1. records[i] \in Entry /\ Signed(records[i])
    BY <1>1 DEF IInv, TypeOK, RecordsSigned, Ids
  <2>2. QED
    BY <1>1, <2>1 DEF Entry, Signed, IsTip
<1>3. goal[g] \in [state : GoalStates, current : Int, target : Targets]
  BY <1>2 DEF IInv, TypeOK
<1>4. goal[g].target \in Nat
  BY <1>3, GoalsAssumption
<1>5. amount \in Int /\ (amount >= goal[g].target => amount >= 0)
  BY <1>2, <1>3, <1>4
<1>6. Become(p, j) /\ goal' = [goal EXCEPT ![g].current = amount]
  BY DEF TakeTip
<1>7. j \in Job
  BY <1>1, <1>2, <1>5, IdsAreNumbers DEF Job
<1>8. JobSigned(j, records')
  BY <1>1, <1>5 DEF JobSigned, TakeTip, Ids, IsTip
<1>9. goal' \in [Goals -> [state : GoalStates, current : Int, target : Targets]]
  BY <1>5, <1>6 DEF IInv, TypeOK
<1>10. DataTyped' /\ NoOverdraft'
  BY <1>9 DEF IInv, TypeOK, DataTyped, NoOverdraft, TakeTip, Receive, Ids
<1>11. Keeps(records, records') /\ RecordsSigned'
  BY SameRecords DEF TakeTip
<1>12. QED
  BY <1>6, <1>7, <1>8, <1>10, <1>11, HandlerStep

LEMMA TakePayoutStep ==
  ASSUME IInv, NEW p \in Procs, NEW i \in accepted, TakePayout(p, i)
  PROVE  IInv'
<1> DEFINE j == [pc |-> "mark", id |-> i]
<1>1. i \in Ids
  BY DEF IInv, TypeOK
<1>2. records[i] \in Entry /\ Signed(records[i]) /\ records[i].owner \in Users
  BY <1>1 DEF IInv, TypeOK, RecordsSigned, Ids
<1>3. records[i].sum \in Int /\ records[i].sum >= 0
  BY <1>2 DEF Entry, Signed, TakePayout
<1>4. j \in Job /\ JobSigned(j, records') /\ Become(p, j)
  BY <1>1, IdsAreNumbers DEF Job, JobSigned, TakePayout, Ids
<1>5. DataTyped' /\ NoOverdraft'
  BY <1>2, <1>3 DEF IInv, TypeOK, DataTyped, NoOverdraft, TakePayout, Receive, Ids
<1>6. Keeps(records, records') /\ RecordsSigned'
  BY SameRecords DEF TakePayout
<1>7. QED
  BY <1>4, <1>5, <1>6, HandlerStep

LEMMA TakePurchaseStep ==
  ASSUME IInv, NEW p \in Procs, NEW i \in accepted, TakePurchase(p, i)
  PROVE  IInv'
<1> DEFINE j == [pc |-> "markPurchase", id |-> i]
<1>1. i \in Ids /\ records[i].type = "PurchaseContent"
  BY DEF IInv, TypeOK, TakePurchase
<1>2. j \in Job /\ JobSigned(j, records') /\ Become(p, j)
  BY <1>1, IdsAreNumbers DEF Job, JobSigned, TakePurchase, Ids
<1>3. DataTyped' /\ NoOverdraft'
  BY <1>1 DEF IInv, TypeOK, DataTyped, NoOverdraft, TakePurchase, Receive, Ids
<1>4. Keeps(records, records') /\ RecordsSigned'
  BY SameRecords DEF TakePurchase
<1>5. QED
  BY <1>2, <1>3, <1>4, HandlerStep

LEMMA ExpireStep ==
  ASSUME IInv, NEW p \in Procs, NEW s \in completed, NEW g \in Goals,
         ExpireGoal(p, s, g)
  PROVE  IInv'
<1> DEFINE j == [pc |-> "find", goal |-> g]
<1>1. j \in Job /\ JobSigned(j, records') /\ Become(p, j)
  BY DEF Job, JobSigned, ExpireGoal
<1>2. goal' \in [Goals -> [state : GoalStates, current : Int, target : Targets]]
  BY DEF IInv, TypeOK, ExpireGoal, GoalStates
<1>3. DataTyped' /\ NoOverdraft'
  BY <1>2 DEF IInv, TypeOK, DataTyped, NoOverdraft, ExpireGoal, Ids
<1>4. Keeps(records, records') /\ RecordsSigned'
  BY SameRecords DEF ExpireGoal
<1>5. QED
  BY <1>1, <1>3, <1>4, HandlerStep

(* Events that are consumed or lost without a handler going on.            *)
LEMMA EventStep ==
  ASSUME IInv, accepted' \subseteq accepted, completed' \subseteq completed,
         faults' \in 0 .. MaxFaults,
         UNCHANGED <<balance, purchases, records, goal, stream, job, calls>>
  PROVE  IInv'
<1>1. TypeOK' /\ JobsSigned' /\ NoOverdraft'
  BY DEF IInv, TypeOK, JobsSigned, NoOverdraft, Ids
<1>2. QED
  BY <1>1, SameRecords DEF IInv

LEMMA HandleStep ==
  ASSUME IInv, NEW p \in Procs, Handle(p)
  PROVE  IInv'
<1>1. ASSUME NEW i \in accepted, SkipTip(p, i) \/ IgnoreAccepted(p, i)
      PROVE  IInv'
  BY <1>1, EventStep DEF SkipTip, IgnoreAccepted, Receive, IInv, TypeOK
<1>2. ASSUME NEW s \in completed, NothingToExpire(s)
      PROVE  IInv'
  BY <1>2, EventStep DEF NothingToExpire, IInv, TypeOK
<1>3. QED
  BY <1>1, <1>2, TakeTipStep, TakePayoutStep, TakePurchaseStep, ExpireStep
  DEF Handle

LEMMA BreakStep ==
  ASSUME IInv, Break
  PROVE  IInv'
<1>1. ASSUME NEW p \in Procs, AbortJob(p)
      PROVE  IInv'
  <2>1. DataTyped'
    BY <1>1, BoundsAssumption DEF AbortJob, Fault, IInv, TypeOK, DataTyped, Ids
  <2>2. QED
    BY <1>1, <2>1, FinishStep DEF AbortJob
<1>2. ASSUME NEW i \in accepted, LoseAccepted(i)
      PROVE  IInv'
  BY <1>2, EventStep, BoundsAssumption DEF LoseAccepted, Fault, IInv, TypeOK
<1>3. ASSUME NEW s \in completed, LoseCompleted(s)
      PROVE  IInv'
  BY <1>3, EventStep, BoundsAssumption DEF LoseCompleted, Fault, IInv, TypeOK
<1>4. QED
  BY <1>1, <1>2, <1>3 DEF Break

-----------------------------------------------------------------------------
LEMMA NextIInv == IInv /\ [Next]_vars => IInv'
<1> SUFFICES ASSUME IInv, [Next]_vars PROVE IInv'
  OBVIOUS
<1>1. CASE Next
  BY <1>1, RequestStep, HandleStep, ContinueStep, AdministerStep, BreakStep
  DEF Next
<1>2. CASE UNCHANGED vars
  BY <1>2, EventStep DEF vars, IInv, TypeOK
<1>3. QED
  BY <1>1, <1>2

LEMMA SpecIInv == Spec => []IInv
  BY InitIInv, NextIInv, PTL DEF Spec

(* Every variable keeps its type, and no event names a record that does    *)
(* not exist (payment.service.ts:25-34).                                   *)
THEOREM TypesKept == Spec => []TypeOK
<1>1. IInv => TypeOK
  BY DEF IInv
<1>2. QED
  BY <1>1, SpecIInv, PTL

(* No interleaving of tips, purchases, deposits, payouts, refunds and      *)
(* faults takes the balance of a user below zero                           *)
(* (payment.service.ts:15-24).                                             *)
THEOREM NeverOverdrawn == Spec => []NoOverdraft
<1>1. IInv => NoOverdraft
  BY DEF IInv
<1>2. QED
  BY <1>1, SpecIInv, PTL

-----------------------------------------------------------------------------
(* Refunds                                                                 *)
(*                                                                         *)
(* A tip is given back at most once, and what is given back is what was    *)
(* paid.  A goal some handler deals with, from the moment it expires it    *)
(* until the handler ends, or that has refunds, is not active, and only an *)
(* active goal can be expired; so no second handler ever deals with it,    *)
(* and the one that does finds no refund.                                  *)

Deals(p, g) ==
  \/ job[p].pc = "find" /\ job[p].goal = g
  \/ \E i \in BeingRefunded(p) : records[i].ref = g

RefundedGoal(g) ==
  \E i \in Ids : IsRefund(i) /\ records[records[i].ref].ref = g

(* Refunds do not go through the calls of processRecord of module Payments.*)
CallsAreNoRefunds ==
  \A p \in Procs : job[p].pc \in {"move", "create"}
                     => job[p].entry.type # "Reverting"

TipsHeld ==
  \A p \in Procs : job[p].pc = "revert" =>
    /\ job[p].todo \cap job[p].credited = {}
    /\ \A i \in BeingRefunded(p) : i \in Ids /\ IsTip(i) /\ records[i].processed

GoalsClosed ==
  \A g \in Goals :
    RefundedGoal(g) \/ (\E p \in Procs : Deals(p, g)) => goal[g].state # "active"

OneDealer ==
  \A g \in Goals : \A p, q \in Procs : Deals(p, g) /\ Deals(q, g) => p = q

FindsFirst ==
  \A p \in Procs : job[p].pc = "find" => ~RefundedGoal(job[p].goal)

RefundsApart ==
  /\ \A i, j \in Ids : IsRefund(i) /\ IsRefund(j)
                         /\ records[i].ref = records[j].ref => i = j
  /\ \A i \in Ids, p \in Procs :
       IsRefund(i) => records[i].ref \notin BeingRefunded(p)

(* The inductive invariant.                                                *)
RInv ==
  /\ IInv
  /\ CallsAreNoRefunds
  /\ RefundMatchesTip
  /\ TipsHeld
  /\ GoalsClosed
  /\ OneDealer
  /\ FindsFirst
  /\ RefundsApart

-----------------------------------------------------------------------------
(* What steps that are not about refunds do.                               *)
RecordsKept ==
  /\ Ids \subseteq Ids'
  /\ \A i \in Ids : /\ records'[i].type = records[i].type
                    /\ records'[i].owner = records[i].owner
                    /\ records'[i].sum = records[i].sum
                    /\ records'[i].ref = records[i].ref
                    /\ records[i].processed => records'[i].processed

NoNewRefund == \A i \in Ids' \ Ids : records'[i].type # "Reverting"

NeverReopened ==
  \A g \in Goals : goal'[g].state = "active" => goal[g].state = "active"

NoNewDealer ==
  \A q \in Procs :
    \/ job'[q] = job[q]
    \/ /\ job'[q].pc \notin {"find", "revert"}
       /\ job'[q].pc \in {"move", "create"} => job'[q].entry.type # "Reverting"

LEMMA TipsAreTyped ==
  ASSUME IInv, NEW i \in Ids, IsTip(i)
  PROVE  records[i].ref \in Goals
  BY DEF IInv, RecordsSigned, Signed, IsTip

LEMMA NeutralStep ==
  ASSUME RInv, IInv', RecordsKept, NoNewRefund, NeverReopened, NoNewDealer
  PROVE  RInv'
<1>1. \A q \in Procs :
        \/ job'[q] = job[q]
        \/ job'[q].pc # "find" /\ BeingRefunded(q)' = {} /\ job'[q].pc # "revert"
  BY DEF NoNewDealer, BeingRefunded
<1>2. \A q \in Procs : \/ BeingRefunded(q)' = BeingRefunded(q)
                       \/ BeingRefunded(q)' = {}
  BY <1>1 DEF BeingRefunded
<1>3. \A i \in Ids' : IsRefund(i)' => i \in Ids /\ IsRefund(i)
  BY DEF NoNewRefund, RecordsKept, IsRefund
<1>4. \A q \in Procs : \A i \in BeingRefunded(q) :
        i \in Ids /\ IsTip(i) /\ records[i].processed
  BY DEF RInv, TipsHeld, BeingRefunded
<1>5. \A q \in Procs, g \in Goals : Deals(q, g)' => Deals(q, g)
  BY <1>1, <1>2, <1>4 DEF Deals, RecordsKept
<1>6. \A i \in Ids : IsRefund(i) => records[i].ref \in Ids /\ IsTip(records[i].ref)
  BY DEF RInv, RefundMatchesTip
<1>7. \A g : RefundedGoal(g)' => RefundedGoal(g)
  BY <1>3, <1>6 DEF RefundedGoal, RecordsKept
<1>8. CallsAreNoRefunds'
  BY DEF RInv, CallsAreNoRefunds, NoNewDealer
<1>9. RefundMatchesTip'
  BY <1>3 DEF RInv, RefundMatchesTip, RecordsKept, IsTip
<1>10. TipsHeld'
  <2> SUFFICES ASSUME NEW q \in Procs, job'[q].pc = "revert"
               PROVE  /\ job'[q].todo \cap job'[q].credited = {}
                      /\ \A i \in BeingRefunded(q)' :
                           i \in Ids' /\ IsTip(i)' /\ records'[i].processed
    BY DEF TipsHeld
  <2>1. job'[q] = job[q] /\ BeingRefunded(q)' = BeingRefunded(q)
    BY <1>1 DEF BeingRefunded
  <2>2. QED
    BY <2>1, <1>4 DEF RInv, TipsHeld, RecordsKept, IsTip
<1>11. GoalsClosed'
  BY <1>5, <1>7 DEF RInv, GoalsClosed, NeverReopened
<1>12. OneDealer'
  BY <1>5 DEF RInv, OneDealer
<1>13. FindsFirst'
  BY <1>1, <1>7 DEF RInv, FindsFirst
<1>14. RefundsApart'
  BY <1>2, <1>3, <1>6 DEF RInv, RefundsApart, RecordsKept
<1>15. QED
  BY <1>8, <1>9, <1>10, <1>11, <1>12, <1>13, <1>14 DEF RInv

(* Steps that leave the records alone, or mark one processed, keep them.   *)
LEMMA UnchangedKept ==
  ASSUME IInv, UNCHANGED records
  PROVE  RecordsKept /\ NoNewRefund
  BY DEF RecordsKept, NoNewRefund, Ids

LEMMA MarkedKept ==
  ASSUME IInv, NEW i \in Ids, SetProcessed(i)
  PROVE  RecordsKept /\ NoNewRefund
<1>1. records \in Seq(Entry)
  BY DEF IInv, TypeOK
<1>2. /\ Ids' = Ids
      /\ records[i] \in Entry
      /\ \A k \in Ids : records'[k] = IF k = i THEN [records[i] EXCEPT !.processed = TRUE] ELSE records[k]
  BY <1>1 DEF SetProcessed, Ids
<1>3. QED
  BY <1>2 DEF RecordsKept, NoNewRefund, Entry

LEMMA AddedKept ==
  ASSUME IInv, NEW e \in Entry, StoreAndEmit(e)
  PROVE  /\ RecordsKept
         /\ Ids' = Ids \cup {Len(records) + 1}
         /\ Len(records) + 1 \notin Ids
         /\ records'[Len(records) + 1] = e
<1>1. records \in Seq(Entry)
  BY DEF IInv, TypeOK
<1>2. /\ Ids' = Ids \cup {Len(records) + 1}
      /\ Len(records) + 1 \notin Ids
      /\ \A i \in Ids : records'[i] = records[i]
      /\ records'[Len(records) + 1] = e
  BY <1>1 DEF StoreAndEmit, Ids
<1>3. QED
  BY <1>2 DEF RecordsKept

(* Moving on to a state that neither finds nor reverts.                    *)
LEMMA OtherState ==
  ASSUME IInv, NEW p \in Procs, NEW j, Become(p, j),
         j.pc \notin {"find", "revert"},
         j.pc \in {"move", "create"} => j.entry.type # "Reverting"
  PROVE  NoNewDealer
  BY DEF IInv, TypeOK, Become, NoNewDealer

(* No update of a goal makes it active.                                    *)
LEMMA GoalUpdate ==
  ASSUME IInv, NEW g, NEW x,
         \/ goal' = [goal EXCEPT ![g].state = x] /\ x # "active"
         \/ goal' = [goal EXCEPT ![g].current = x]
         \/ goal' = [goal EXCEPT ![g].target = x]
  PROVE  NeverReopened
<1>1. goal \in [Goals -> [state : GoalStates, current : Int, target : Targets]]
  BY DEF IInv, TypeOK
<1>2. CASE goal' = [goal EXCEPT ![g].state = x] /\ x # "active"
  BY <1>1, <1>2 DEF NeverReopened
<1>3. CASE goal' = [goal EXCEPT ![g].current = x]
  BY <1>1, <1>3 DEF NeverReopened
<1>4. CASE goal' = [goal EXCEPT ![g].target = x]
  BY <1>1, <1>4 DEF NeverReopened
<1>5. QED
  BY <1>2, <1>3, <1>4

-----------------------------------------------------------------------------
(* Requests, administration and faults.                                    *)
LEMMA CallRefunds ==
  ASSUME RInv, IInv', NEW p \in Procs, NEW owner, NEW type, NEW sum, NEW ref,
         Call(p, owner, type, sum, ref), type # "Reverting"
  PROVE  RInv'
<1>1. NoNewDealer
  BY OtherState DEF Call, ProcessRecord, NewEntry, RInv
<1>2. RecordsKept /\ NoNewRefund /\ NeverReopened
  BY UnchangedKept DEF Call, RInv, NeverReopened
<1>3. QED
  BY <1>1, <1>2, NeutralStep

LEMMA RequestRefunds ==
  ASSUME RInv, IInv', NEW p \in Procs, Request(p)
  PROVE  RInv'
<1>1. ASSUME NEW s \in Streams, StopStream(p, s)
      PROVE  RInv'
  <2>1. NoNewDealer
    BY <1>1, OtherState DEF StopStream, RInv
  <2>2. RecordsKept /\ NoNewRefund /\ NeverReopened
    BY <1>1, UnchangedKept DEF StopStream, RInv, NeverReopened
  <2>3. QED
    BY <2>1, <2>2, NeutralStep
<1>2. QED
  BY <1>1, CallRefunds DEF Request, SendTip, Purchase, Deposit

LEMMA AdministerRefunds ==
  ASSUME RInv, IInv', Administer
  PROVE  RInv'
<1>1. UNCHANGED <<records, job>>
  BY DEF Administer, ChangeTarget, RemoveGoal
<1>2. NeverReopened
  BY GoalUpdate DEF Administer, ChangeTarget, RemoveGoal, RInv
<1>3. QED
  BY <1>1, <1>2, UnchangedKept, NeutralStep DEF NoNewDealer, RInv

LEMMA BreakRefunds ==
  ASSUME RInv, IInv', Break
  PROVE  RInv'
<1>1. UNCHANGED <<records, goal>>
  BY DEF Break, AbortJob, LoseAccepted, LoseCompleted
<1>2. NoNewDealer
  <2>1. ASSUME NEW p \in Procs, AbortJob(p)
        PROVE  NoNewDealer
    BY <2>1, OtherState DEF AbortJob, Finish, IdleJob, RInv
  <2>2. CASE UNCHANGED job
    BY <2>2 DEF NoNewDealer
  <2>3. QED
    BY <2>1, <2>2 DEF Break, LoseAccepted, LoseCompleted
<1>3. QED
  BY <1>1, <1>2, UnchangedKept, NeutralStep DEF NeverReopened, RInv

-----------------------------------------------------------------------------
(* Handlers of payments.                                                   *)
LEMMA PaymentRefunds ==
  ASSUME RInv, IInv', NEW p \in Procs,
         \/ SaveStop(p) \/ MoveBalance(p) \/ RefuseRecord(p) \/ ReachGoal(p)
         \/ \E i \in accepted : \/ TakeTip(p, i) \/ SkipTip(p, i)
                                \/ TakePayout(p, i) \/ TakePurchase(p, i)
                                \/ IgnoreAccepted(p, i)
         \/ \E s \in completed : NothingToExpire(s)
  PROVE  RInv'
<1>1. UNCHANGED records
  BY DEF SaveStop, MoveBalance, RefuseRecord, ReachGoal, TakeTip, SkipTip,
         TakePayout, TakePurchase, IgnoreAccepted, NothingToExpire
<1>2. NeverReopened
  <2>1. CASE UNCHANGED goal
    BY <2>1 DEF NeverReopened
  <2>2. CASE ReachGoal(p)
    BY <2>1, <2>2, GoalUpdate DEF ReachGoal, RInv
  <2>3. ASSUME NEW i \in accepted, TakeTip(p, i)
        PROVE  NeverReopened
    BY <2>3, GoalUpdate DEF TakeTip, RInv
  <2>4. QED
    BY <2>1, <2>2, <2>3
    DEF SaveStop, MoveBalance, RefuseRecord, SkipTip, TakePayout,
        TakePurchase, IgnoreAccepted, NothingToExpire
<1>3. NoNewDealer
  <2>1. CASE MoveBalance(p)
    BY <2>1, OtherState DEF MoveBalance, RInv, CallsAreNoRefunds
  <2>2. CASE ReachGoal(p)
    BY <2>2, OtherState DEF ReachGoal, RInv, Finish, IdleJob, ProcessRecord, NewEntry
  <2>3. CASE SaveStop(p) \/ RefuseRecord(p)
    BY <2>3, OtherState DEF SaveStop, RefuseRecord, RInv, Finish, IdleJob
  <2>4. ASSUME NEW i \in accepted,
               TakeTip(p, i) \/ TakePayout(p, i) \/ TakePurchase(p, i)
        PROVE  NoNewDealer
    BY <2>4, OtherState DEF TakeTip, TakePayout, TakePurchase, RInv
  <2>5. CASE UNCHANGED job
    BY <2>5 DEF NoNewDealer
  <2>6. QED
    BY <2>1, <2>2, <2>3, <2>4, <2>5 DEF SkipTip, IgnoreAccepted, NothingToExpire
<1>4. QED
  BY <1>1, <1>2, <1>3, UnchangedKept, NeutralStep DEF RInv

LEMMA RecordingRefunds ==
  ASSUME RInv, IInv', NEW p \in Procs,
         CreateRecord(p) \/ MarkTip(p) \/ Mark(p) \/ MarkPurchase(p)
  PROVE  RInv'
<1>1. UNCHANGED goal
  BY DEF CreateRecord, MarkTip, Mark, MarkPurchase
<1>2. NoNewDealer
  BY OtherState DEF CreateRecord, MarkTip, Mark, MarkPurchase, Finish, IdleJob,
                    ProcessRecord, NewEntry, RInv
<1>3. RecordsKept /\ NoNewRefund
  <2>1. CASE CreateRecord(p)
    <3>1. job[p].entry \in Entry /\ job[p].entry.type # "Reverting"
      BY <2>1, JobShape DEF CreateRecord, RInv, IInv, TypeOK, CallsAreNoRefunds
    <3>2. QED
      BY <2>1, <3>1, AddedKept DEF CreateRecord, NoNewRefund, RInv
  <2>2. CASE MarkTip(p) \/ Mark(p) \/ MarkPurchase(p)
    <3>1. job[p].id \in Ids /\ SetProcessed(job[p].id)
      BY <2>2 DEF MarkTip, Mark, MarkPurchase, RInv, IInv, JobsSigned, JobSigned, Ids
    <3>2. QED
      BY <3>1, MarkedKept DEF RInv
  <2>3. QED
    BY <2>1, <2>2
<1>4. QED
  BY <1>1, <1>2, <1>3, NeutralStep DEF NeverReopened, RInv

-----------------------------------------------------------------------------
(* Expiring a goal: it was active, so no handler deals with it and none of *)
(* its tips was given back.                                                *)
LEMMA ExpireRefunds ==
  ASSUME RInv, IInv', NEW p \in Procs, NEW s \in completed, NEW g \in Goals,
         ExpireGoal(p, s, g)
  PROVE  RInv'
<1>1. /\ goal[g].state = "active" /\ UNCHANGED records
      /\ job' = [job EXCEPT ![p] = [pc |-> "find", goal |-> g]]
      /\ goal' = [goal EXCEPT ![g].state = "expired"]
      /\ Idle(p)
  BY DEF ExpireGoal, ActiveGoals, Become
<1>2. /\ goal'[g].state # "active"
      /\ \A h \in Goals : goal'[h].state = "active" => goal[h].state = "active"
  BY <1>1, GoalUpdate DEF NeverReopened, RInv, IInv, TypeOK
<1>3. /\ job'[p].pc = "find" /\ job'[p].goal = g
      /\ \A q \in Procs : q # p => job'[q] = job[q]
  BY <1>1 DEF RInv, IInv, TypeOK
<1>4. ~RefundedGoal(g) /\ \A q \in Procs : ~Deals(q, g)
  BY <1>1 DEF RInv, GoalsClosed
<1>5. /\ BeingRefunded(p)' = {} /\ BeingRefunded(p) = {}
      /\ \A q \in Procs : q # p => BeingRefunded(q)' = BeingRefunded(q)
  BY <1>1, <1>3 DEF BeingRefunded, Idle
<1>6. \A q \in Procs, h \in Goals :
        Deals(q, h)' => (q = p /\ h = g) \/ (q # p /\ Deals(q, h))
  BY <1>1, <1>3, <1>5 DEF Deals
<1>7. \A h : RefundedGoal(h)' = RefundedGoal(h)
  BY <1>1 DEF RefundedGoal, Ids, IsRefund
<1>8. CallsAreNoRefunds' /\ RefundMatchesTip' /\ TipsHeld'
  BY <1>1, <1>3, <1>5
  DEF RInv, CallsAreNoRefunds, RefundMatchesTip, TipsHeld, IsRefund, IsTip, Ids
<1>9. GoalsClosed'
  BY <1>2, <1>6, <1>7 DEF RInv, GoalsClosed
<1>10. OneDealer'
  BY <1>4, <1>6 DEF RInv, OneDealer
<1>11. FindsFirst'
  BY <1>3, <1>4, <1>7 DEF RInv, FindsFirst
<1>12. RefundsApart'
  BY <1>1, <1>5 DEF RInv, RefundsApart, IsRefund, Ids
<1>13. QED
  BY <1>8, <1>9, <1>10, <1>11, <1>12 DEF RInv

(* Finding the tips: they are tips of the goal the handler deals with.     *)
LEMMA FindRefunds ==
  ASSUME RInv, IInv', NEW p \in Procs, FindTips(p)
  PROVE  RInv'
<1> DEFINE g == job[p].goal
           tips == ProcessedTips(g)
<1>1. /\ job[p].pc = "find" /\ UNCHANGED <<records, goal>>
      /\ Reverting(p, tips, {})
  BY DEF FindTips
<1>2. CASE tips = {}
  <2>1. NoNewDealer
    BY <1>1, <1>2, OtherState DEF Reverting, Finish, IdleJob, RInv
  <2>2. QED
    BY <1>1, <2>1, UnchangedKept, NeutralStep DEF NeverReopened, RInv
<1>3. CASE tips # {}
  <2>1. job' = [job EXCEPT ![p] = [pc |-> "revert", todo |-> tips, credited |-> {}]]
    BY <1>1, <1>3 DEF Reverting, Become
  <2>2. /\ job'[p] = [pc |-> "revert", todo |-> tips, credited |-> {}]
        /\ \A q \in Procs : q # p => job'[q] = job[q]
    BY <2>1 DEF RInv, IInv, TypeOK
  <2>3. /\ BeingRefunded(p)' = tips
        /\ \A q \in Procs : q # p => BeingRefunded(q)' = BeingRefunded(q)
    BY <2>2 DEF BeingRefunded
  <2>4. \A i \in tips : i \in Ids /\ IsTip(i) /\ records[i].processed /\ records[i].ref = g
    BY DEF ProcessedTips
  <2>5. \A q \in Procs, h \in Goals : Deals(q, h)' => Deals(q, h)
    BY <1>1, <2>2, <2>3, <2>4 DEF Deals
  <2>6. \A h : RefundedGoal(h)' = RefundedGoal(h)
    BY <1>1 DEF RefundedGoal, Ids, IsRefund
  <2>7. CallsAreNoRefunds' /\ RefundMatchesTip' /\ FindsFirst'
    BY <1>1, <2>2, <2>6
    DEF RInv, CallsAreNoRefunds, RefundMatchesTip, FindsFirst, IsRefund, IsTip, Ids
  <2>8. TipsHeld'
    BY <1>1, <2>2, <2>3, <2>4 DEF RInv, TipsHeld, IsTip, Ids
  <2>9. GoalsClosed' /\ OneDealer'
    BY <1>1, <2>5, <2>6 DEF RInv, GoalsClosed, OneDealer
  <2>10. \A i \in Ids : IsRefund(i) => records[i].ref \notin tips
    BY <1>1, <2>4 DEF RInv, FindsFirst, RefundedGoal
  <2>11. RefundsApart'
    BY <1>1, <2>3, <2>10 DEF RInv, RefundsApart, IsRefund, Ids
  <2>12. QED
    BY <2>7, <2>8, <2>9, <2>11 DEF RInv
<1>4. QED
  BY <1>2, <1>3

(* Crediting a tip: it stays among those being refunded.                   *)
LEMMA CreditRefunds ==
  ASSUME RInv, IInv', NEW p \in Procs, NEW i, RefundTip(p, i)
  PROVE  RInv'
<1> DEFINE todo == job[p].todo \ {i}
           credited == job[p].credited \cup {i}
<1>1. /\ job[p].pc = "revert" /\ UNCHANGED <<records, goal>>
      /\ i \in job[p].todo
      /\ job' = [job EXCEPT ![p] = [pc |-> "revert", todo |-> todo, credited |-> credited]]
  BY DEF RefundTip, Reverting, Become
<1>2. /\ job'[p] = [pc |-> "revert", todo |-> todo, credited |-> credited]
      /\ \A q \in Procs : q # p => job'[q] = job[q]
  BY <1>1 DEF RInv, IInv, TypeOK
<1>3. \A q \in Procs : BeingRefunded(q)' = BeingRefunded(q)
  BY <1>1, <1>2 DEF BeingRefunded
<1>4. \A q \in Procs, h \in Goals : Deals(q, h)' => Deals(q, h)
  BY <1>1, <1>2, <1>3 DEF Deals
<1>5. \A h : RefundedGoal(h)' = RefundedGoal(h)
  BY <1>1 DEF RefundedGoal, Ids, IsRefund
<1>6. CallsAreNoRefunds' /\ RefundMatchesTip' /\ FindsFirst'
  BY <1>1, <1>2, <1>5
  DEF RInv, CallsAreNoRefunds, RefundMatchesTip, FindsFirst, IsRefund, IsTip, Ids
<1>7. TipsHeld'
  BY <1>1, <1>2, <1>3 DEF RInv, TipsHeld, IsTip, Ids
<1>8. GoalsClosed' /\ OneDealer'
  BY <1>1, <1>4, <1>5 DEF RInv, GoalsClosed, OneDealer
<1>9. RefundsApart'
  BY <1>1, <1>3 DEF RInv, RefundsApart, IsRefund, Ids
<1>10. QED
  BY <1>6, <1>7, <1>8, <1>9 DEF RInv

(* Recording the refund of a tip: until now none was recorded for it, and  *)
(* it leaves the tips being refunded.                                      *)
LEMMA RecordRefunds ==
  ASSUME RInv, IInv', NEW p \in Procs, NEW i, RecordRefund(p, i)
  PROVE  RInv'
<1> DEFINE g == records[i].ref
           e == NewEntry(records[i].owner, "Reverting", -records[i].sum, i)
           n == Len(records) + 1
           credited == job[p].credited \ {i}
<1>1. /\ job[p].pc = "revert" /\ i \in job[p].credited
      /\ StoreAndEmit(e) /\ UNCHANGED goal
      /\ Reverting(p, job[p].todo, credited)
  BY DEF RecordRefund
<1>2. /\ i \in BeingRefunded(p) /\ i \in Ids /\ IsTip(i) /\ records[i].processed
      /\ job[p].todo \cap job[p].credited = {}
  BY <1>1 DEF RInv, TipsHeld, BeingRefunded
<1>3. g \in Goals /\ Deals(p, g)
  BY <1>2, TipsAreTyped DEF Deals, RInv
<1>4. e \in Entry
  <2>1. records[i] \in Entry /\ i \in Nat
    BY <1>2, IdsAreNumbers DEF RInv, IInv, TypeOK, Ids
  <2>2. QED
    BY <2>1 DEF NewEntry, Entry, Types
<1>5. /\ RecordsKept /\ Ids' = Ids \cup {n} /\ n \notin Ids /\ records'[n] = e
  BY <1>1, <1>4, AddedKept DEF RInv
<1>6. /\ e.type = "Reverting" /\ e.ref = i
      /\ e.owner = records[i].owner /\ e.sum = -records[i].sum
  BY DEF NewEntry
<1>7. /\ job'[p].pc \notin {"find", "move", "create"}
      /\ job'[p].pc = "revert" => /\ job'[p].todo = job[p].todo
                                 /\ job'[p].credited = credited
      /\ \A q \in Procs : q # p => job'[q] = job[q]
  BY <1>1 DEF Reverting, Finish, Become, IdleJob, RInv, IInv, TypeOK
<1>8. /\ BeingRefunded(p)' \subseteq BeingRefunded(p) \ {i}
      /\ \A q \in Procs : q # p => BeingRefunded(q)' = BeingRefunded(q)
  BY <1>1, <1>2, <1>7 DEF BeingRefunded
<1>9. \A q \in Procs : \A k \in BeingRefunded(q) :
        k \in Ids /\ IsTip(k) /\ records[k].processed
  BY DEF RInv, TipsHeld, BeingRefunded
<1>10. \A q \in Procs, h \in Goals : Deals(q, h)' => Deals(q, h)
  BY <1>5, <1>7, <1>8, <1>9 DEF Deals, RecordsKept
<1>11. \A k \in Ids' : IsRefund(k)' => k = n \/ (k \in Ids /\ IsRefund(k))
  BY <1>5 DEF RecordsKept, IsRefund
<1>12. \A k \in Ids : IsRefund(k) => records[k].ref \in Ids /\ IsTip(records[k].ref)
  BY DEF RInv, RefundMatchesTip
<1>13. \A h : RefundedGoal(h)' => RefundedGoal(h) \/ h = g
  BY <1>2, <1>5, <1>6, <1>11, <1>12 DEF RefundedGoal, RecordsKept
<1>14. CallsAreNoRefunds'
  BY <1>7 DEF RInv, CallsAreNoRefunds
<1>15. RefundMatchesTip'
  BY <1>2, <1>5, <1>6, <1>11, <1>12
  DEF RInv, RefundMatchesTip, RecordsKept, IsTip
<1>16. TipsHeld'
  <2> SUFFICES ASSUME NEW q \in Procs, job'[q].pc = "revert"
               PROVE  /\ job'[q].todo \cap job'[q].credited = {}
                      /\ \A k \in BeingRefunded(q)' :
                           k \in Ids' /\ IsTip(k)' /\ records'[k].processed
    BY DEF TipsHeld
  <2>1. job'[q].todo \cap job'[q].credited = {}
    BY <1>2, <1>7 DEF RInv, TipsHeld
  <2>2. \A k \in BeingRefunded(q)' : k \in BeingRefunded(q)
    BY <1>8
  <2>3. QED
    BY <1>5, <1>9, <2>1, <2>2 DEF RecordsKept, IsTip
<1>17. GoalsClosed'
  BY <1>1, <1>3, <1>10, <1>13 DEF RInv, GoalsClosed
<1>18. OneDealer'
  BY <1>10 DEF RInv, OneDealer
<1>19. FindsFirst'
  <2>1. \A q \in Procs : job'[q].pc = "find" =>
          /\ q # p
          /\ job'[q].goal = job[q].goal
          /\ ~RefundedGoal(job[q].goal)
          /\ Deals(q, job[q].goal)
    BY <1>7 DEF RInv, FindsFirst, Deals
  <2>2. \A q \in Procs : q # p => ~Deals(q, g)
    BY <1>3 DEF RInv, OneDealer
  <2>3. QED
    BY <1>13, <2>1, <2>2 DEF FindsFirst
<1>20. \A k \in Ids : IsRefund(k) => records[k].ref # i
  BY <1>2 DEF RInv, RefundsApart
<1>21. \A q \in Procs : i \notin BeingRefunded(q)'
  BY <1>3, <1>8 DEF RInv, OneDealer, Deals
<1>22. RefundsApart'
  <2>1. \A k, l \in Ids' : IsRefund(k)' /\ IsRefund(l)'
                            /\ records'[k].ref = records'[l].ref => k = l
    BY <1>5, <1>6, <1>11, <1>20 DEF RInv, RefundsApart, RecordsKept
  <2>2. \A k \in Ids', q \in Procs :
          IsRefund(k)' => records'[k].ref \notin BeingRefunded(q)'
    BY <1>5, <1>6, <1>8, <1>11, <1>21 DEF RInv, RefundsApart, RecordsKept
  <2>3. QED
    BY <2>1, <2>2 DEF RefundsApart
<1>23. QED
  BY <1>14, <1>15, <1>16, <1>17, <1>18, <1>19, <1>22 DEF RInv

-----------------------------------------------------------------------------
LEMMA InitRefunds == Init => RInv
<1> SUFFICES ASSUME Init PROVE RInv
  OBVIOUS
<1>1. IInv
  BY InitIInv
<1>2. Ids = {} /\ \A p \in Procs : job[p].pc = "idle"
  BY DEF Init, IdleJob, Ids
<1>3. \A p \in Procs : BeingRefunded(p) = {}
  BY <1>2 DEF BeingRefunded
<1>4. \A p \in Procs : \A g : ~Deals(p, g)
  BY <1>2, <1>3 DEF Deals
<1>5. \A g : ~RefundedGoal(g)
  BY <1>2 DEF RefundedGoal
<1>6. CallsAreNoRefunds /\ RefundMatchesTip /\ TipsHeld /\ FindsFirst
  BY <1>2 DEF CallsAreNoRefunds, RefundMatchesTip, TipsHeld, FindsFirst
<1>7. GoalsClosed /\ OneDealer /\ RefundsApart
  BY <1>2, <1>4, <1>5 DEF GoalsClosed, OneDealer, RefundsApart
<1>8. QED
  BY <1>1, <1>6, <1>7 DEF RInv

LEMMA HandleRefunds ==
  ASSUME RInv, IInv', NEW p \in Procs, Handle(p)
  PROVE  RInv'
  BY PaymentRefunds, ExpireRefunds DEF Handle

LEMMA ContinueRefunds ==
  ASSUME RInv, IInv', NEW p \in Procs, Continue(p)
  PROVE  RInv'
  BY PaymentRefunds, RecordingRefunds, FindRefunds, CreditRefunds, RecordRefunds
  DEF Continue

LEMMA NextRefunds == RInv /\ [Next]_vars => RInv'
<1> SUFFICES ASSUME RInv, [Next]_vars PROVE RInv'
  OBVIOUS
<1>1. IInv'
  BY NextIInv DEF RInv
<1>2. CASE Next
  BY <1>1, <1>2, RequestRefunds, HandleRefunds, ContinueRefunds,
     AdministerRefunds, BreakRefunds
  DEF Next
<1>3. CASE UNCHANGED vars
  <2>1. RecordsKept /\ NoNewRefund
    BY <1>3, UnchangedKept DEF vars, RInv
  <2>2. NeverReopened /\ NoNewDealer
    BY <1>3 DEF vars, NeverReopened, NoNewDealer
  <2>3. QED
    BY <1>1, <2>1, <2>2, NeutralStep
<1>4. QED
  BY <1>2, <1>3

LEMMA SpecRefunds == Spec => []RInv
  BY InitRefunds, NextRefunds, PTL DEF Spec

(* A tip is given back at most once, whatever handlers interleave, however *)
(* often the end of its stream is announced, and whatever fails            *)
(* (goals.molecule.ts:20-45).                                              *)
THEOREM RefundedAtMostOnce == Spec => []RefundedOnce
<1>1. RInv => RefundedOnce
  <2> SUFFICES ASSUME RInv PROVE RefundedOnce
    OBVIOUS
  <2>1. ASSUME NEW p \in Procs, NEW q \in Procs, p # q,
               NEW i \in BeingRefunded(p), i \in BeingRefunded(q)
        PROVE  FALSE
    <3>1. i \in Ids /\ IsTip(i)
      BY DEF RInv, TipsHeld, BeingRefunded
    <3>2. records[i].ref \in Goals
      BY <3>1, TipsAreTyped DEF RInv
    <3>3. Deals(p, records[i].ref) /\ Deals(q, records[i].ref)
      BY <2>1 DEF Deals
    <3>4. QED
      BY <2>1, <3>2, <3>3 DEF RInv, OneDealer
  <2>2. QED
    BY <2>1 DEF RInv, RefundsApart, RefundedOnce
<1>2. QED
  BY <1>1, SpecRefunds, PTL

(* What is given back is a processed tip, to the user who paid it, and     *)
(* exactly what was paid (goals.molecule.ts:37-44).                        *)
THEOREM RefundsMatchTips == Spec => []RefundMatchesTip
<1>1. RInv => RefundMatchesTip
  BY DEF RInv
<1>2. QED
  BY <1>1, SpecRefunds, PTL

-----------------------------------------------------------------------------
(* Payouts.  An increment by a tip makes the amount of a goal larger than  *)
(* it ever was, and the handler that made it takes that amount along until *)
(* it is recorded; so no two of these amounts, held or recorded, are equal.*)

(* The handler state j carries the amount a towards a payout of g.         *)
Carries(j, g, a) ==
  \/ j.pc \in {"markTip", "reach"} /\ j.goal = g /\ j.amount = a
  \/ /\ j.pc \in {"move", "create"}
     /\ j.entry.type = "GoalReached"
     /\ j.entry.ref = g
     /\ j.entry.sum = a

(* The record r pays a to the owner of g.                                  *)
Pays(r, g, a) == r.type = "GoalReached" /\ r.ref = g /\ r.sum = a

AmountsInv ==
  \A g \in Goals, a \in Int :
    /\ \A p \in Procs : Carries(job[p], g, a) => a <= goal[g].current
    /\ \A i \in Ids : Pays(records[i], g, a) => a <= goal[g].current
    /\ \A p, q \in Procs :
         Carries(job[p], g, a) /\ Carries(job[q], g, a) => p = q
    /\ \A p \in Procs, i \in Ids :
         ~(Carries(job[p], g, a) /\ Pays(records[i], g, a))
    /\ \A i, k \in Ids :
         Pays(records[i], g, a) /\ Pays(records[k], g, a) => i = k

LEMMA InitAmounts == Init => AmountsInv
  BY DEF Init, AmountsInv, Carries, IdleJob, Ids

NothingNewCarried ==
  \A q \in Procs, g \in Goals, a \in Int :
    Carries(job'[q], g, a) => Carries(job[q], g, a)

NothingNewPaid ==
  \A i \in Ids', g \in Goals, a \in Int :
    Pays(records'[i], g, a) => i \in Ids /\ Pays(records[i], g, a)

NeverLess ==
  \A g \in Goals : /\ goal[g].current \in Int /\ goal'[g].current \in Int
                   /\ goal'[g].current >= goal[g].current

LEMMA NothingNew ==
  ASSUME AmountsInv, NothingNewCarried, NothingNewPaid, NeverLess
  PROVE  AmountsInv'
<1> SUFFICES ASSUME NEW g \in Goals, NEW a \in Int
             PROVE
    /\ \A p \in Procs : Carries(job'[p], g, a) => a <= goal'[g].current
    /\ \A i \in Ids' : Pays(records'[i], g, a) => a <= goal'[g].current
    /\ \A p, q \in Procs :
         Carries(job'[p], g, a) /\ Carries(job'[q], g, a) => p = q
    /\ \A p \in Procs, i \in Ids' :
         ~(Carries(job'[p], g, a) /\ Pays(records'[i], g, a))
    /\ \A i, k \in Ids' :
         Pays(records'[i], g, a) /\ Pays(records'[k], g, a) => i = k
  BY DEF AmountsInv, Carries, Pays
<1>1. goal[g].current <= goal'[g].current
      /\ goal[g].current \in Int /\ goal'[g].current \in Int
  BY DEF NeverLess
<1>2. a <= goal[g].current => a <= goal'[g].current
  BY <1>1
<1> QED
  BY <1>2 DEF AmountsInv, NothingNewCarried, NothingNewPaid

(* A handler that becomes j, which carries at most what it carried before. *)
LEMMA CarriedOn ==
  ASSUME IInv, NEW p \in Procs, NEW j, Become(p, j),
         \A g \in Goals, a \in Int : Carries(j, g, a) => Carries(job[p], g, a)
  PROVE  NothingNewCarried
<1>1. \A q \in Procs : job'[q] = IF q = p THEN j ELSE job[q]
  BY DEF IInv, TypeOK, Become
<1> QED
  BY <1>1 DEF NothingNewCarried

LEMMA EndCarriesNothing ==
  ASSUME IInv, NEW p \in Procs, Finish(p)
  PROVE  NothingNewCarried
<1>1. \A g, a : ~Carries(IdleJob, g, a)
  BY DEF Carries, IdleJob
<1> QED
  BY <1>1, CarriedOn DEF Finish

LEMMA RevertingCarriesNothing ==
  ASSUME IInv, NEW p \in Procs, NEW todo, NEW credited, Reverting(p, todo, credited)
  PROVE  NothingNewCarried
<1>1. CASE Finish(p)
  BY <1>1, EndCarriesNothing
<1>2. CASE ~Finish(p)
  <2> DEFINE j == [pc |-> "revert", todo |-> todo, credited |-> credited]
  <2>1. Become(p, j)
    BY <1>2 DEF Reverting
  <2>2. \A g, a : ~Carries(j, g, a)
    BY DEF Carries
  <2> HIDE DEF j
  <2> QED
    BY <2>1, <2>2, CarriedOn
<1> QED
  BY <1>1, <1>2

LEMMA SamePaid ==
  ASSUME IInv,
         \/ UNCHANGED records
         \/ \E i \in Ids : SetProcessed(i)
  PROVE  NothingNewPaid
<1>1. CASE UNCHANGED records
  BY <1>1 DEF NothingNewPaid, Ids
<1>2. ASSUME NEW i \in Ids, SetProcessed(i) PROVE NothingNewPaid
  <2>1. records \in Seq(Entry)
    BY DEF IInv, TypeOK
  <2>2. RecordsKept
    BY <1>2, MarkedKept
  <2>3. Ids' = Ids
    BY <1>2, <2>1 DEF SetProcessed, Ids
  <2> QED
    BY <2>2, <2>3 DEF RecordsKept, NothingNewPaid, Pays
<1> QED
  BY <1>1, <1>2

LEMMA SameGoals ==
  ASSUME IInv,
         \/ UNCHANGED goal
         \/ \E g \in Goals : \E x :
              \/ goal' = [goal EXCEPT ![g].state = x]
              \/ goal' = [goal EXCEPT ![g].target = x]
  PROVE  NeverLess
<1>1. goal \in [Goals -> [state : GoalStates, current : Int, target : Targets]]
  BY DEF IInv, TypeOK
<1>2. CASE UNCHANGED goal
  BY <1>1, <1>2 DEF NeverLess
<1>3. ASSUME NEW g \in Goals, NEW x,
             \/ goal' = [goal EXCEPT ![g].state = x]
             \/ goal' = [goal EXCEPT ![g].target = x]
      PROVE  NeverLess
  <2>1. \A h \in Goals : goal'[h].current = goal[h].current
    BY <1>1, <1>3
  <2> QED
    BY <1>1, <2>1 DEF NeverLess
<1> QED
  BY <1>2, <1>3

LEMMA RequestAmounts ==
  ASSUME IInv, AmountsInv, NEW p \in Procs, Request(p)
  PROVE  AmountsInv'
<1>1. UNCHANGED <<records, goal>>
  BY DEF Request, SendTip, Purchase, Deposit, Call, StopStream
<1>2. ASSUME NEW owner, NEW type, NEW sum, NEW ref, type # "GoalReached",
             Call(p, owner, type, sum, ref)
      PROVE  NothingNewCarried
  <2> DEFINE j == [pc |-> "move", entry |-> NewEntry(owner, type, sum, ref)]
  <2>1. Become(p, j)
    BY <1>2 DEF Call, ProcessRecord
  <2>2. \A g, a : ~Carries(j, g, a)
    BY <1>2 DEF Carries, NewEntry
  <2> HIDE DEF j
  <2> QED
    BY <2>1, <2>2, CarriedOn
<1>3. ASSUME NEW s \in Streams, StopStream(p, s) PROVE NothingNewCarried
  BY <1>3, CarriedOn DEF StopStream, Carries
<1>4. NothingNewCarried
  BY <1>2, <1>3 DEF Request, SendTip, Purchase, Deposit
<1> QED
  BY <1>1, <1>4, SamePaid, SameGoals, NothingNew

(* The new amount is larger than every earlier one, the tip being positive.*)
LEMMA TakeTipAmounts ==
  ASSUME IInv, AmountsInv, NEW p \in Procs, NEW i \in accepted, TakeTip(p, i)
  PROVE  AmountsInv'
<1> DEFINE g == records[i].ref
           amount == goal[g].current - records[i].sum
           j == [pc |-> "markTip", id |-> i, goal |-> g, amount |-> amount,
                 reached |-> amount >= goal[g].target]
<1>1. g \in Goals /\ records[i].sum \in Int /\ records[i].sum < 0
  <2>1. i \in Ids /\ IsTip(i)
    BY DEF IInv, TypeOK, TakeTip
  <2>2. records[i] \in Entry /\ Signed(records[i])
    BY <2>1 DEF IInv, TypeOK, RecordsSigned, Ids
  <2> QED
    BY <2>1, <2>2 DEF Entry, Signed, IsTip
<1>2. goal \in [Goals -> [state : GoalStates, current : Int, target : Targets]]
  BY DEF IInv, TypeOK
<1>3. goal[g].current \in Int /\ amount \in Int /\ goal[g].current < amount
  BY <1>1, <1>2
<1>4. /\ goal'[g].current = amount
      /\ \A h \in Goals \ {g} : goal'[h].current = goal[h].current
  BY <1>1, <1>2 DEF TakeTip
<1>5. /\ job'[p] = j
      /\ \A q \in Procs \ {p} : job'[q] = job[q]
      /\ records' = records
  BY DEF TakeTip, Become, IInv, TypeOK
<1>6. \A h, a : Carries(j, h, a) => h = g /\ a = amount
  BY DEF Carries
<1>7. Carries(j, g, amount)
  BY DEF Carries
<1> HIDE DEF j
<1>8. ASSUME NEW h \in Goals, NEW a \in Int
      PROVE  /\ \A q \in Procs : Carries(job'[q], h, a)
                  => IF q = p THEN h = g /\ a = amount ELSE Carries(job[q], h, a)
             /\ \A k \in Ids : Pays(records[k], g, amount) => FALSE
             /\ \A q \in Procs : Carries(job[q], g, amount) => FALSE
  <2>1. ~(amount <= goal[g].current)
    BY <1>3
  <2> QED
    BY <1>1, <1>3, <1>5, <1>6, <2>1 DEF AmountsInv
<1>9. ASSUME NEW h \in Goals, NEW a \in Int
      PROVE
    /\ \A q \in Procs : Carries(job'[q], h, a) => a <= goal'[h].current
    /\ \A k \in Ids : Pays(records[k], h, a) => a <= goal'[h].current
    /\ \A q, r \in Procs :
         Carries(job'[q], h, a) /\ Carries(job'[r], h, a) => q = r
    /\ \A q \in Procs, k \in Ids :
         ~(Carries(job'[q], h, a) /\ Pays(records[k], h, a))
  <2>1. goal[h].current \in Int /\ (a <= goal[h].current => a <= goal'[h].current)
    BY <1>2, <1>3, <1>4
  <2>2. h = g /\ a = amount => a <= goal'[h].current
    BY <1>3, <1>4
  <2> QED
    BY <1>8, <2>1, <2>2 DEF AmountsInv
<1> QED
  BY <1>5, <1>9 DEF AmountsInv, Ids, Carries, Pays

(* The amount that a handler carried is recorded by it.                    *)
LEMMA CreateAmounts ==
  ASSUME IInv, AmountsInv, NEW p \in Procs, CreateRecord(p)
  PROVE  AmountsInv'
<1> DEFINE e == job[p].entry
           new == Len(records) + 1
<1>1. e \in Entry /\ StoreAndEmit(e) /\ UNCHANGED goal
  BY JobShape DEF CreateRecord, IInv, TypeOK
<1>2. /\ Ids' = Ids \cup {new}
      /\ \A i \in Ids : records'[i] = records[i]
      /\ records'[new] = e
      /\ new \notin Ids
  <2>1. records \in Seq(Entry)
    BY DEF IInv, TypeOK
  <2> QED
    BY <1>1, <2>1 DEF StoreAndEmit, Ids
<1>3. /\ job'[p] = IdleJob
      /\ \A q \in Procs \ {p} : job'[q] = job[q]
  BY DEF CreateRecord, Finish, Become, IInv, TypeOK
<1>4. \A g \in Goals, a \in Int : ~Carries(job'[p], g, a)
  BY <1>3 DEF Carries, IdleJob
<1>5. \A g \in Goals, a \in Int : Pays(e, g, a) => Carries(job[p], g, a)
  BY DEF Pays, Carries, CreateRecord
<1> HIDE DEF e, new
<1>6. ASSUME NEW g \in Goals, NEW a \in Int
      PROVE
    /\ \A q \in Procs : Carries(job'[q], g, a) => a <= goal'[g].current
    /\ \A i \in Ids' : Pays(records'[i], g, a) => a <= goal'[g].current
    /\ \A q, r \in Procs :
         Carries(job'[q], g, a) /\ Carries(job'[r], g, a) => q = r
    /\ \A q \in Procs, i \in Ids' :
         ~(Carries(job'[q], g, a) /\ Pays(records'[i], g, a))
    /\ \A i, k \in Ids' :
         Pays(records'[i], g, a) /\ Pays(records'[k], g, a) => i = k
  BY <1>1, <1>2, <1>3, <1>4, <1>5 DEF AmountsInv
<1> QED
  BY <1>6 DEF AmountsInv, Carries, Pays

(* What a purchase pays is about a content, and so carried to no goal.     *)
LEMMA ContinueAmounts ==
  ASSUME IInv, AmountsInv, NEW p \in Procs, Continue(p)
  PROVE  AmountsInv'
<1>1. CASE SaveStop(p) \/ RefuseRecord(p)
  BY <1>1, EndCarriesNothing, SamePaid, SameGoals, NothingNew
     DEF SaveStop, RefuseRecord
<1>2. CASE MoveBalance(p)
  <2> DEFINE j == [pc |-> "create", entry |-> job[p].entry]
  <2>1. Become(p, j)
    BY <1>2 DEF MoveBalance
  <2>2. \A g, a : Carries(j, g, a) => Carries(job[p], g, a)
    BY <1>2 DEF Carries, MoveBalance
  <2> HIDE DEF j
  <2>3. NothingNewCarried
    BY <2>1, <2>2, CarriedOn
  <2> QED
    BY <1>2, <2>3, SamePaid, SameGoals, NothingNew DEF MoveBalance
<1>3. CASE CreateRecord(p)
  BY <1>3, CreateAmounts
<1>4. CASE MarkTip(p)
  <2> DEFINE j == [pc |-> "reach", goal |-> job[p].goal, amount |-> job[p].amount]
  <2>1. job[p].id \in Ids /\ SetProcessed(job[p].id)
    BY <1>4 DEF MarkTip, IInv, JobsSigned, JobSigned, Ids
  <2>2. Become(p, j) \/ Finish(p)
    BY <1>4 DEF MarkTip
  <2>3. \A g, a : Carries(j, g, a) => Carries(job[p], g, a)
    BY <1>4 DEF Carries, MarkTip
  <2> HIDE DEF j
  <2>4. NothingNewCarried
    BY <2>2, <2>3, CarriedOn, EndCarriesNothing
  <2> QED
    BY <1>4, <2>1, <2>4, SamePaid, SameGoals, NothingNew DEF MarkTip
<1>5. CASE ReachGoal(p)
  <2> DEFINE e == NewEntry(GoalOwner[job[p].goal], "GoalReached",
                           job[p].amount, job[p].goal)
             j == [pc |-> "move", entry |-> e]
  <2>1. job[p].goal \in Goals
    BY <1>5, JobShape DEF ReachGoal, IInv, TypeOK
  <2>2. Become(p, j) \/ Finish(p)
    BY <1>5 DEF ReachGoal, ProcessRecord
  <2>3. \A g, a : Carries(j, g, a) => Carries(job[p], g, a)
    BY <1>5 DEF Carries, ReachGoal, NewEntry
  <2> HIDE DEF j
  <2>4. NothingNewCarried
    BY <2>2, <2>3, CarriedOn, EndCarriesNothing
  <2>5. NeverLess
    BY <1>5, <2>1, SameGoals DEF ReachGoal
  <2> QED
    BY <1>5, <2>4, <2>5, SamePaid, NothingNew DEF ReachGoal
<1>6. CASE Mark(p)
  <2>1. job[p].id \in Ids /\ SetProcessed(job[p].id)
    BY <1>6 DEF Mark, IInv, JobsSigned, JobSigned, Ids
  <2> QED
    BY <1>6, <2>1, EndCarriesNothing, SamePaid, SameGoals, NothingNew DEF Mark
<1>7. CASE MarkPurchase(p)
  <2> DEFINE i == job[p].id
             e == NewEntry(None, "GoalReached", -records[i].sum, records[i].ref)
             j == [pc |-> "move", entry |-> e]
  <2>1. i \in Ids /\ records[i].type = "PurchaseContent" /\ SetProcessed(i)
    BY <1>7 DEF MarkPurchase, IInv, JobsSigned, JobSigned, Ids
  <2>2. records[i].ref \notin Goals
    BY <2>1, GoalsAssumption DEF IInv, RecordsSigned, Signed
  <2>3. Become(p, j)
    BY <1>7 DEF MarkPurchase, ProcessRecord
  <2>4. \A g \in Goals : \A a : ~Carries(j, g, a)
    BY <2>2 DEF Carries, NewEntry
  <2> HIDE DEF j
  <2>5. NothingNewCarried
    BY <2>3, <2>4, CarriedOn
  <2> QED
    BY <1>7, <2>1, <2>5, SamePaid, SameGoals, NothingNew DEF MarkPurchase
<1>8. CASE FindTips(p)
  BY <1>8, RevertingCarriesNothing, SamePaid, SameGoals, NothingNew DEF FindTips
<1>9. ASSUME NEW i \in Ids, RefundTip(p, i) PROVE AmountsInv'
  BY <1>9, RevertingCarriesNothing, SamePaid, SameGoals, NothingNew DEF RefundTip
<1>10. ASSUME NEW i \in Ids, RecordRefund(p, i) PROVE AmountsInv'
  <2> DEFINE e == NewEntry(records[i].owner, "Reverting", -records[i].sum, i)
  <2>1. records \in Seq(Entry)
    BY DEF IInv, TypeOK
  <2>2. /\ Ids' = Ids \cup {Len(records) + 1}
        /\ \A k \in Ids : records'[k] = records[k]
        /\ records'[Len(records) + 1] = e
    BY <1>10, <2>1 DEF RecordRefund, StoreAndEmit, Ids
  <2>3. \A g, a : ~Pays(e, g, a)
    BY DEF Pays, NewEntry
  <2> HIDE DEF e
  <2>4. NothingNewPaid
    BY <2>2, <2>3 DEF NothingNewPaid
  <2> QED
    BY <1>10, <2>4, RevertingCarriesNothing, SameGoals, NothingNew
       DEF RecordRefund
<1> QED
  BY <1>1, <1>2, <1>3, <1>4, <1>5, <1>6, <1>7, <1>8, <1>9, <1>10 DEF Continue

LEMMA HandleAmounts ==
  ASSUME IInv, AmountsInv, NEW p \in Procs, Handle(p)
  PROVE  AmountsInv'
<1>1. ASSUME NEW i \in accepted, TakeTip(p, i) PROVE AmountsInv'
  BY <1>1, TakeTipAmounts
<1>2. ASSUME NEW i \in accepted, SkipTip(p, i) \/ IgnoreAccepted(p, i)
      PROVE  AmountsInv'
  BY <1>2, SamePaid, SameGoals, NothingNew
     DEF SkipTip, IgnoreAccepted, NothingNewCarried
<1>3. ASSUME NEW i \in accepted, TakePayout(p, i) \/ TakePurchase(p, i)
      PROVE  AmountsInv'
  <2>1. \E j : Become(p, j) /\ j.pc \in {"mark", "markPurchase"}
    <3>1. Become(p, [pc |-> "mark", id |-> i])
            \/ Become(p, [pc |-> "markPurchase", id |-> i])
      BY <1>3 DEF TakePayout, TakePurchase
    <3>2. [pc |-> "mark", id |-> i].pc = "mark"
            /\ [pc |-> "markPurchase", id |-> i].pc = "markPurchase"
      OBVIOUS
    <3> QED
      BY <3>1, <3>2
  <2>2. NothingNewCarried
    BY <2>1, CarriedOn DEF Carries
  <2> QED
    BY <1>3, <2>2, SamePaid, SameGoals, NothingNew DEF TakePayout, TakePurchase
<1>4. ASSUME NEW s \in completed, NEW g \in Goals, ExpireGoal(p, s, g)
      PROVE  AmountsInv'
  <2>1. NothingNewCarried
    BY <1>4, CarriedOn DEF ExpireGoal, Carries
  <2>2. NeverLess
    BY <1>4, SameGoals DEF ExpireGoal
  <2> QED
    BY <1>4, <2>1, <2>2, SamePaid, NothingNew DEF ExpireGoal
<1>5. ASSUME NEW s \in completed, NothingToExpire(s) PROVE AmountsInv'
  BY <1>5, SamePaid, SameGoals, NothingNew DEF NothingToExpire, NothingNewCarried
<1> QED
  BY <1>1, <1>2, <1>3, <1>4, <1>5 DEF Handle

LEMMA NextAmounts ==
  ASSUME IInv, AmountsInv, [Next]_vars
  PROVE  AmountsInv'
<1>1. CASE Administer
  <2>1. NeverLess
    BY <1>1, SameGoals DEF Administer, ChangeTarget, RemoveGoal
  <2>2. UNCHANGED <<records, job>>
    BY <1>1 DEF Administer, ChangeTarget, RemoveGoal
  <2> QED
    BY <2>1, <2>2, SamePaid, NothingNew DEF NothingNewCarried
<1>2. CASE Break
  <2>1. UNCHANGED <<records, goal>>
    BY <1>2 DEF Break, AbortJob, LoseAccepted, LoseCompleted
  <2>2. NothingNewCarried
    BY <1>2, EndCarriesNothing
       DEF Break, AbortJob, LoseAccepted, LoseCompleted, NothingNewCarried
  <2> QED
    BY <2>1, <2>2, SamePaid, SameGoals, NothingNew
<1>3. CASE UNCHANGED vars
  BY <1>3, SamePaid, SameGoals, NothingNew DEF vars, NothingNewCarried
<1> QED
  BY <1>1, <1>2, <1>3, RequestAmounts, HandleAmounts, ContinueAmounts DEF Next

(* No payout exceeds what its goal has collected, and no two payouts of a  *)
(* goal are of the same amount, whatever interleaves or fails              *)
(* (payment.molecule.ts:40-65).                                            *)
THEOREM PayoutsWithinFundingAlways == Spec => []PayoutsWithinFunding
<1>1. Init => IInv /\ AmountsInv
  BY InitIInv, InitAmounts
<1>2. IInv /\ AmountsInv /\ [Next]_vars => (IInv /\ AmountsInv)'
  BY NextIInv, NextAmounts
<1>3. IInv /\ AmountsInv => PayoutsWithinFunding
  <2> SUFFICES ASSUME IInv, AmountsInv PROVE PayoutsWithinFunding
    OBVIOUS
  <2>1. \A i \in Ids : records[i].sum \in Int
    <3>1. \A i \in Ids : records[i] \in Entry
      BY DEF IInv, TypeOK, Ids
    <3> QED
      BY <3>1 DEF Entry
  <2>2. \A p \in Procs : job[p].pc \in {"move", "create"} => job[p].entry.sum \in Int
    BY JobShape DEF IInv, TypeOK, Entry
  <2>3. \A g \in Goals : \A a \in PayoutAmounts(g) : a <= goal[g].current
    BY <2>1, <2>2 DEF PayoutAmounts, IsPayout, AmountsInv, Carries, Pays
  <2>4. \A i, k \in Ids : IsPayout(i) /\ IsPayout(k) /\ records[i].ref \in Goals
                            /\ records[i].ref = records[k].ref
                            /\ records[i].sum = records[k].sum => i = k
    BY <2>1 DEF IsPayout, AmountsInv, Pays
  <2> QED
    BY <2>3, <2>4 DEF PayoutsWithinFunding
<1> QED
  BY <1>1, <1>2, <1>3, PTL DEF Spec

-----------------------------------------------------------------------------
(* Purchases.  A handler that marks a purchase processed has unlocked its  *)
(* content before; no other handler marks the record of a purchase.        *)

UnlockedFirst ==
  \A p \in Procs : job[p].pc = "markPurchase" =>
    job[p].id \in purchases[records[job[p].id].owner]

PurchasesInv == PurchasesBacked /\ UnlockedFirst

LEMMA InitPurchases == Init => PurchasesInv
  BY DEF Init, PurchasesInv, PurchasesBacked, UnlockedFirst, IdleJob, Ids

(* A record that is new, or newly processed, is no purchase, unless its    *)
(* content is unlocked.                                                    *)
MarksUnlocked ==
  \A i \in Ids' :
    records'[i].type = "PurchaseContent" /\ records'[i].processed =>
      i \in Ids /\ (records[i].processed \/ i \in purchases[records[i].owner])

NothingToUnlock ==
  \A p \in Procs : job'[p].pc = "markPurchase" => job'[p] = job[p]

LEMMA NothingUnlocked ==
  ASSUME IInv, PurchasesInv, RecordsKept, MarksUnlocked, NothingToUnlock,
         UNCHANGED purchases
  PROVE  PurchasesInv'
<1>1. purchases \in [Users -> SUBSET Ids]
  BY DEF IInv, TypeOK
<1>2. PurchasesBacked'
  <2>1. \A u \in Users : \A i \in purchases[u] :
          records'[i].type = "PurchaseContent" /\ records'[i].owner = u
    BY <1>1 DEF PurchasesInv, PurchasesBacked, RecordsKept
  <2>2. \A i \in Ids' : records'[i].type = "PurchaseContent"
                          /\ records'[i].processed
                            => i \in purchases[records'[i].owner]
    BY DEF PurchasesInv, PurchasesBacked, RecordsKept, MarksUnlocked
  <2> QED
    BY <2>1, <2>2 DEF PurchasesBacked
<1>3. UnlockedFirst'
  <2> SUFFICES ASSUME NEW p \in Procs, job'[p].pc = "markPurchase"
               PROVE  job'[p].id \in purchases[records'[job'[p].id].owner]
    BY DEF UnlockedFirst
  <2>1. job'[p] = job[p] /\ job[p].pc = "markPurchase"
    BY DEF NothingToUnlock
  <2>2. job[p].id \in Ids
    BY <2>1 DEF IInv, JobsSigned, JobSigned, Ids
  <2> QED
    BY <2>1, <2>2 DEF PurchasesInv, UnlockedFirst, RecordsKept
<1> QED
  BY <1>2, <1>3 DEF PurchasesInv

LEMMA OtherHandler ==
  ASSUME IInv, NEW p \in Procs, NEW j, Become(p, j), j.pc # "markPurchase"
  PROVE  NothingToUnlock
  BY DEF IInv, TypeOK, Become, NothingToUnlock

LEMMA RevertingUnlocksNothing ==
  ASSUME IInv, NEW p \in Procs, NEW todo, NEW credited, Reverting(p, todo, credited)
  PROVE  NothingToUnlock
  BY OtherHandler DEF Reverting, Finish, IdleJob

LEMMA SameRecordsMarkNothing ==
  ASSUME IInv, UNCHANGED records
  PROVE  RecordsKept /\ MarksUnlocked
  BY UnchangedKept DEF MarksUnlocked, Ids

LEMMA MarkedUnlocked ==
  ASSUME IInv, NEW i \in Ids, SetProcessed(i),
         records[i].type = "PurchaseContent" => i \in purchases[records[i].owner]
  PROVE  RecordsKept /\ MarksUnlocked
<1>1. records \in Seq(Entry)
  BY DEF IInv, TypeOK
<1>2. Ids' = Ids /\ \A k \in Ids \ {i} : records'[k] = records[k]
  BY <1>1 DEF SetProcessed, Ids
<1>3. RecordsKept
  BY MarkedKept
<1> QED
  BY <1>2, <1>3 DEF RecordsKept, MarksUnlocked

LEMMA AddedUnlocksNothing ==
  ASSUME IInv, NEW e \in Entry, StoreAndEmit(e), ~e.processed
  PROVE  RecordsKept /\ MarksUnlocked
<1>1. records \in Seq(Entry)
  BY DEF IInv, TypeOK
<1>2. /\ Ids' = Ids \cup {Len(records) + 1}
      /\ \A i \in Ids : records'[i] = records[i]
      /\ records'[Len(records) + 1] = e
  BY <1>1 DEF StoreAndEmit, Ids
<1>3. RecordsKept
  BY AddedKept
<1> QED
  BY <1>2, <1>3 DEF MarksUnlocked

LEMMA TakePurchaseUnlocks ==
  ASSUME IInv, PurchasesInv, NEW p \in Procs, NEW i \in accepted, TakePurchase(p, i)
  PROVE  PurchasesInv'
<1> DEFINE u == records[i].owner
<1>1. /\ i \in Ids
      /\ records[i].type = "PurchaseContent"
      /\ u \in Users
      /\ records' = records
  BY DEF IInv, TypeOK, RecordsSigned, TakePurchase
<1>2. /\ purchases'[u] = purchases[u] \cup {i}
      /\ \A v \in Users \ {u} : purchases'[v] = purchases[v]
  BY <1>1 DEF IInv, TypeOK, TakePurchase
<1>3. /\ job'[p] = [pc |-> "markPurchase", id |-> i]
      /\ \A q \in Procs \ {p} : job'[q] = job[q]
  BY DEF IInv, TypeOK, TakePurchase, Become
<1>4. \A k \in Ids : records[k].owner \in Users
  BY DEF IInv, RecordsSigned
<1>5. PurchasesBacked'
  <2>1. \A v \in Users : \A k \in purchases'[v] :
          records[k].type = "PurchaseContent" /\ records[k].owner = v
    BY <1>1, <1>2 DEF PurchasesInv, PurchasesBacked
  <2>2. \A k \in Ids : records[k].type = "PurchaseContent" /\ records[k].processed
                         => k \in purchases'[records[k].owner]
    BY <1>1, <1>2, <1>4 DEF PurchasesInv, PurchasesBacked
  <2> QED
    BY <1>1, <2>1, <2>2 DEF PurchasesBacked, Ids
<1>6. UnlockedFirst'
  <2> SUFFICES ASSUME NEW q \in Procs, job'[q].pc = "markPurchase"
               PROVE  job'[q].id \in purchases'[records[job'[q].id].owner]
    BY <1>1 DEF UnlockedFirst
  <2>1. CASE q = p
    BY <1>2, <1>3, <2>1
  <2>2. CASE q # p
    <3>1. job'[q] = job[q] /\ job[q].id \in Ids
      BY <1>3, <2>2 DEF IInv, JobsSigned, JobSigned, Ids
    <3> QED
      BY <1>2, <1>4, <3>1 DEF PurchasesInv, UnlockedFirst
  <2> QED
    BY <2>1, <2>2
<1> QED
  BY <1>5, <1>6 DEF PurchasesInv

LEMMA ContinueUnlocks ==
  ASSUME IInv, PurchasesInv, NEW p \in Procs, Continue(p)
  PROVE  PurchasesInv'
<1> USE DEF Finish, IdleJob
<1>1. CASE SaveStop(p) \/ RefuseRecord(p) \/ MoveBalance(p) \/ ReachGoal(p)
  <2>1. NothingToUnlock
    BY <1>1, OtherHandler
       DEF SaveStop, RefuseRecord, MoveBalance, ReachGoal, ProcessRecord
  <2> QED
    BY <1>1, <2>1, SameRecordsMarkNothing, NothingUnlocked
       DEF SaveStop, RefuseRecord, MoveBalance, ReachGoal
<1>2. CASE CreateRecord(p)
  <2>1. job[p].entry \in Entry /\ ~job[p].entry.processed
    BY <1>2, JobShape DEF CreateRecord, IInv, TypeOK, JobsSigned, JobSigned
  <2>2. NothingToUnlock
    BY <1>2, OtherHandler DEF CreateRecord
  <2> QED
    BY <1>2, <2>1, <2>2, AddedUnlocksNothing, NothingUnlocked DEF CreateRecord
<1>3. CASE MarkTip(p) \/ Mark(p) \/ MarkPurchase(p)
  <2>1. job[p].id \in Ids /\ SetProcessed(job[p].id) /\ UNCHANGED purchases
    BY <1>3 DEF MarkTip, Mark, MarkPurchase, IInv, JobsSigned, JobSigned, Ids
  <2>2. records[job[p].id].type = "PurchaseContent"
          => job[p].id \in purchases[records[job[p].id].owner]
    BY <1>3 DEF MarkTip, Mark, MarkPurchase, IInv, JobsSigned, JobSigned,
                PurchasesInv, UnlockedFirst
  <2>3. NothingToUnlock
    BY <1>3, OtherHandler DEF MarkTip, Mark, MarkPurchase, ProcessRecord
  <2> QED
    BY <2>1, <2>2, <2>3, MarkedUnlocked, NothingUnlocked
<1>4. CASE FindTips(p)
  BY <1>4, RevertingUnlocksNothing, SameRecordsMarkNothing, NothingUnlocked
     DEF FindTips
<1>5. ASSUME NEW i \in Ids, RefundTip(p, i) PROVE PurchasesInv'
  BY <1>5, RevertingUnlocksNothing, SameRecordsMarkNothing, NothingUnlocked
     DEF RefundTip
<1>6. ASSUME NEW i \in Ids, RecordRefund(p, i) PROVE PurchasesInv'
  <2> DEFINE e == NewEntry(records[i].owner, "Reverting", -records[i].sum, i)
  <2>1. records[i] \in Entry /\ i \in Nat
    BY IdsAreNumbers DEF IInv, TypeOK, Ids
  <2>2. e \in Entry /\ ~e.processed
    BY <2>1 DEF NewEntry, Entry, Types
  <2>3. StoreAndEmit(e) /\ UNCHANGED purchases
    BY <1>6 DEF RecordRefund
  <2> HIDE DEF e
  <2>4. NothingToUnlock
    BY <1>6, RevertingUnlocksNothing DEF RecordRefund
  <2> QED
    BY <2>2, <2>3, <2>4, AddedUnlocksNothing, NothingUnlocked
<1> QED
  BY <1>1, <1>2, <1>3, <1>4, <1>5, <1>6 DEF Continue

LEMMA NextUnlocks ==
  ASSUME IInv, PurchasesInv, [Next]_vars
  PROVE  PurchasesInv'
<1> USE DEF Finish, IdleJob
<1>1. ASSUME NEW p \in Procs, Request(p) PROVE PurchasesInv'
  <2>1. UNCHANGED <<records, purchases>>
    BY <1>1 DEF Request, SendTip, Purchase, Deposit, Call, StopStream
  <2>2. NothingToUnlock
    BY <1>1, OtherHandler
       DEF Request, SendTip, Purchase, Deposit, Call, StopStream, ProcessRecord
  <2> QED
    BY <2>1, <2>2, SameRecordsMarkNothing, NothingUnlocked
<1>2. ASSUME NEW p \in Procs, Handle(p) PROVE PurchasesInv'
  <2>1. ASSUME NEW i \in accepted,
               TakeTip(p, i) \/ SkipTip(p, i) \/ TakePayout(p, i) \/ IgnoreAccepted(p, i)
        PROVE  PurchasesInv'
    <3>1. NothingToUnlock
      BY <2>1, OtherHandler
         DEF TakeTip, SkipTip, TakePayout, IgnoreAccepted, NothingToUnlock
    <3> QED
      BY <2>1, <3>1, SameRecordsMarkNothing, NothingUnlocked
         DEF TakeTip, SkipTip, TakePayout, IgnoreAccepted
  <2>2. ASSUME NEW s \in completed, NEW g \in Goals,
               ExpireGoal(p, s, g) \/ NothingToExpire(s)
        PROVE  PurchasesInv'
    <3>1. NothingToUnlock
      BY <2>2, OtherHandler DEF ExpireGoal, NothingToExpire, NothingToUnlock
    <3> QED
      BY <2>2, <3>1, SameRecordsMarkNothing, NothingUnlocked
         DEF ExpireGoal, NothingToExpire
  <2>3. ASSUME NEW s \in completed, NothingToExpire(s) PROVE PurchasesInv'
    BY <2>3, SameRecordsMarkNothing, NothingUnlocked
       DEF NothingToExpire, NothingToUnlock
  <2> QED
    BY <1>2, <2>1, <2>2, <2>3, TakePurchaseUnlocks DEF Handle
<1>3. ASSUME NEW p \in Procs, Continue(p) PROVE PurchasesInv'
  BY <1>3, ContinueUnlocks
<1>4. CASE Administer
  BY <1>4, SameRecordsMarkNothing, NothingUnlocked
     DEF Administer, ChangeTarget, RemoveGoal, NothingToUnlock
<1>5. CASE Break
  <2>1. NothingToUnlock
    BY <1>5, OtherHandler
       DEF Break, AbortJob, LoseAccepted, LoseCompleted, NothingToUnlock
  <2> QED
    BY <1>5, <2>1, SameRecordsMarkNothing, NothingUnlocked
       DEF Break, AbortJob, LoseAccepted, LoseCompleted
<1>6. CASE UNCHANGED vars
  BY <1>6, SameRecordsMarkNothing, NothingUnlocked DEF vars, NothingToUnlock
<1> QED
  BY <1>1, <1>2, <1>3, <1>4, <1>5, <1>6 DEF Next

(* A content is unlocked only by a recorded purchase of the same user, and *)
(* a purchase is marked processed only once the content is unlocked        *)
(* (payment.molecule.ts:70-75).                                            *)
THEOREM PurchasesBackedAlways == Spec => []PurchasesBacked
<1>1. Init => IInv /\ PurchasesInv
  BY InitIInv, InitPurchases
<1>2. IInv /\ PurchasesInv /\ [Next]_vars => (IInv /\ PurchasesInv)'
  BY NextIInv, NextUnlocks
<1>3. PurchasesInv => PurchasesBacked
  BY DEF PurchasesInv
<1> QED
  BY <1>1, <1>2, <1>3, PTL DEF Spec

-----------------------------------------------------------------------------
(* The ledger.  Each sum is that of a function (Owned, PaidTwice, Creating,*)
(* Refunding, TipsOf); a step leaves such a function as it is, adds an     *)
(* argument to it or takes one from it.  That what a step adds was not in  *)
(* it before rests on MarksOnce: an event in flight and a handler that is  *)
(* about to mark a record are about a record nobody has counted.           *)

Summable(f) == IsFiniteSet(DOMAIN f) /\ \A x \in DOMAIN f : f[x] \in Int

SameSums(f, h) == DOMAIN h = DOMAIN f /\ \A x \in DOMAIN f : h[x] = f[x]

(* h is f with one argument more.                                          *)
Plus(f, x, v, h) ==
  /\ x \notin DOMAIN f
  /\ DOMAIN h = DOMAIN f \cup {x}
  /\ h[x] = v
  /\ \A y \in DOMAIN f : h[y] = f[y]

LEMMA SameTotal ==
  ASSUME NEW f, NEW h, Summable(f), SameSums(f, h)
  PROVE  Total(h) = Total(f)
  BY TotalSame DEF Summable, SameSums

LEMMA PlusTotal ==
  ASSUME NEW f, NEW x, NEW v \in Int, NEW h, Summable(f), Plus(f, x, v, h)
  PROVE  Total(h) = Total(f) + v
<1>1. IsFiniteSet(DOMAIN h)
  BY FS_AddElement DEF Summable, Plus
<1>2. \A y \in DOMAIN h : h[y] \in Int
  BY DEF Summable, Plus
<1>3. x \in DOMAIN h /\ DOMAIN f = (DOMAIN h) \ {x} /\ \A y \in DOMAIN f : f[y] = h[y]
  BY DEF Plus
<1>4. Total(h) = h[x] + Total(f) /\ Total(f) \in Int
  BY <1>1, <1>2, <1>3, TotalSplit
<1> QED
  BY <1>4 DEF Plus

LEMMA MinusTotal ==
  ASSUME NEW f, NEW x, NEW v, NEW h, Summable(f), Plus(h, x, v, f)
  PROVE  Total(h) = Total(f) - v
<1>1. DOMAIN h = (DOMAIN f) \ {x} /\ x \in DOMAIN f /\ \A y \in DOMAIN h : h[y] = f[y]
  BY DEF Plus
<1>2. Total(f) = f[x] + Total(h) /\ Total(h) \in Int
  BY <1>1, TotalSplit DEF Summable
<1> QED
  BY <1>1, <1>2 DEF Plus, Summable

LEMMA SummableTotal == ASSUME NEW f, Summable(f) PROVE Total(f) \in Int
  BY TotalTyped DEF Summable

-----------------------------------------------------------------------------
(* The sums of the accounts.                                               *)
Owned(u) == [i \in OwnedBy(u) |-> records[i].sum]

Paid(u) == {i \in OwnedBy(u) : IsPayout(i) /\ Counted(i)}
PaidTwice(u) == [i \in Paid(u) |-> records[i].sum]

Creators(u) == {p \in Procs : job[p].pc = "create" /\ job[p].entry.owner = u}
Creating(u) == [p \in Creators(u) |-> job[p].entry.sum]

CreditedBy(p) == IF job[p].pc = "revert" THEN job[p].credited ELSE {}
Credited(u) == {i \in OwnedBy(u) : \E p \in Procs : i \in CreditedBy(p)}
Refunding(u) == [i \in Credited(u) |-> records[i].sum]

CountedTips(g) == {i \in Ids : IsTip(i) /\ records[i].ref = g /\ Counted(i)}
TipsOf(g) == [i \in CountedTips(g) |-> records[i].sum]

Reconciled(u) ==
  balance[u] = InitBalance + Total(Owned(u)) + Total(PaidTwice(u))
                 + Total(Creating(u)) - Total(Refunding(u))

Funded(g) ==
  /\ goal[g].current >= -Total(TipsOf(g))
  /\ faults = 0 => goal[g].current = -Total(TipsOf(g))

LEMMA SumsSummable ==
  ASSUME RInv
  PROVE  /\ \A u : /\ Summable(Owned(u)) /\ Summable(PaidTwice(u))
                   /\ Summable(Creating(u)) /\ Summable(Refunding(u))
         /\ \A g : Summable(TipsOf(g))
<1>1. IsFiniteSet(Ids)
  <2>1. records \in Seq(Entry)
    BY DEF RInv, IInv, TypeOK
  <2>2. Len(records) \in Nat /\ Ids = 1 .. Len(records)
    BY <2>1 DEF Ids
  <2> QED
    BY <2>2, FS_Interval
<1>2. \A i \in Ids : records[i].sum \in Int
  <2>1. \A i \in Ids : records[i] \in Entry
    BY DEF RInv, IInv, TypeOK, Ids
  <2> QED
    BY <2>1 DEF Entry
<1>3. ASSUME NEW S \in SUBSET Ids
      PROVE  Summable([i \in S |-> records[i].sum])
  <2>1. IsFiniteSet(S)
    BY <1>1, FS_Subset
  <2> QED
    BY <2>1, <1>2 DEF Summable
<1>4. \A u : Summable(Owned(u)) /\ Summable(PaidTwice(u)) /\ Summable(Refunding(u))
  BY <1>3 DEF Owned, PaidTwice, Refunding, OwnedBy, Paid, Credited
<1>5. \A g : Summable(TipsOf(g))
  BY <1>3 DEF TipsOf, CountedTips
<1>6. ASSUME NEW u
      PROVE  Summable(Creating(u))
  <2>1. IsFiniteSet(Creators(u))
    BY ProcsAssumption, FS_Subset DEF Creators
  <2>2. \A p \in Creators(u) : job[p].entry \in Entry
    BY JobShape DEF Creators, RInv, IInv, TypeOK
  <2>3. \A p \in Creators(u) : job[p].entry.sum \in Int
    BY <2>2 DEF Entry
  <2> QED
    BY <2>1, <2>3 DEF Summable, Creating
<1> QED
  BY <1>4, <1>5, <1>6

AllReconciled == faults = 0 => \A u \in Users : Reconciled(u)

LEMMA LedgerIs == RInv => (LedgerReconciles <=> AllReconciled)
<1> SUFFICES ASSUME RInv PROVE LedgerReconciles <=> AllReconciled
  OBVIOUS
<1>1. ASSUME NEW u \in Users
      PROVE  /\ Sums(OwnedBy(u)) = Total(Owned(u))
             /\ Sums({i \in OwnedBy(u) : IsPayout(i) /\ Counted(i)}) = Total(PaidTwice(u))
             /\ Unrecorded(u) = Total(Creating(u)) - Total(Refunding(u))
  <2> DEFINE given == UNION {job[p].credited : p \in {q \in Procs : job[q].pc = "revert"}}
  <2>1. given \cap OwnedBy(u) = Credited(u)
    BY DEF Credited, CreditedBy
  <2>2. Unrecorded(u) = Total(Creating(u)) - Sums(given \cap OwnedBy(u))
    BY DEF Unrecorded, Creating, Creators
  <2> HIDE DEF given
  <2>3. Sums(given \cap OwnedBy(u)) = Total(Refunding(u))
    BY <2>1 DEF Sums, Refunding
  <2> QED
    BY <2>2, <2>3 DEF Sums, Owned, PaidTwice, Paid
<1>2. ASSUME NEW u \in Users
      PROVE  /\ balance[u] \in Int /\ InitBalance \in Int
             /\ Total(Owned(u)) \in Int /\ Total(PaidTwice(u)) \in Int
             /\ Total(Creating(u)) \in Int /\ Total(Refunding(u)) \in Int
  BY SumsSummable, SummableTotal, SumsAssumption DEF RInv, IInv, TypeOK
<1>3. ASSUME NEW u \in Users
      PROVE  Reconciled(u) <=>
               balance[u] = InitBalance + Sums(OwnedBy(u))
                   + Sums({i \in OwnedBy(u) : IsPayout(i) /\ Counted(i)})
                   + Unrecorded(u)
  BY <1>1, <1>2 DEF Reconciled
<1> QED
  BY <1>3 DEF LedgerReconciles, AllReconciled

AllFunded == \A g \in Goals : Funded(g)

LEMMA FundedIs == GoalFundedByTips <=> AllFunded
  BY DEF GoalFundedByTips, AllFunded, Funded, TipsOf, CountedTips, Sums

-----------------------------------------------------------------------------
(* A record is marked by one handler, which one event made it mark.        *)
Marks(j) == j.pc \in {"mark", "markTip", "markPurchase"}

MarksOnce ==
  /\ \A i \in accepted : /\ ~records[i].processed
                         /\ \A p \in Procs : Marks(job[p]) => job[p].id # i
  /\ \A p \in Procs : Marks(job[p]) =>
       /\ ~records[job[p].id].processed
       /\ \A q \in Procs \ {p} : Marks(job[q]) => job[q].id # job[p].id

(* Nothing in the repository creates a record of type Sale.                *)
NoSales ==
  /\ \A i \in Ids : records[i].type # "Sale"
  /\ \A p \in Procs : job[p].pc \in {"move", "create"} => job[p].entry.type # "Sale"

MarksInv == MarksOnce /\ NoSales

LEMMA InitMarks == Init => MarksInv
  BY DEF Init, MarksInv, MarksOnce, NoSales, Marks, IdleJob, Ids

(* What handlers hold after a step: nothing new to mark, no sale.          *)
NothingMore ==
  \A q \in Procs : \/ job'[q] = job[q]
                   \/ /\ ~Marks(job'[q])
                      /\ job'[q].pc \in {"move", "create"} => job'[q].entry.type # "Sale"

LEMMA MarksStay ==
  ASSUME IInv, MarksInv, UNCHANGED records, accepted' \subseteq accepted, NothingMore
  PROVE  MarksInv'
<1>1. MarksOnce'
  BY DEF MarksInv, MarksOnce, NothingMore
<1>2. NoSales'
  BY DEF MarksInv, NoSales, NothingMore, Ids
<1> QED
  BY <1>1, <1>2 DEF MarksInv

(* The event of a record is received by the handler that will mark it.     *)
LEMMA MarksReceived ==
  ASSUME IInv, MarksInv, UNCHANGED records, NEW p \in Procs, NEW i \in accepted,
         Receive(p, i), NEW j, Become(p, j), Marks(j), j.id = i
  PROVE  MarksInv'
<1>1. job'[p] = j /\ \A q \in Procs \ {p} : job'[q] = job[q]
  BY DEF IInv, TypeOK, Become
<1>2. j.pc \notin {"move", "create"}
  BY DEF Marks
<1>3. MarksOnce'
  BY <1>1 DEF MarksInv, MarksOnce, Receive
<1>4. NoSales'
  BY <1>1, <1>2 DEF MarksInv, NoSales, Ids
<1> QED
  BY <1>3, <1>4 DEF MarksInv

LEMMA MarksDone ==
  ASSUME IInv, MarksInv, NEW p \in Procs, Marks(job[p]), SetProcessed(job[p].id),
         NEW j, Become(p, j), ~Marks(j), UNCHANGED accepted,
         j.pc \in {"move", "create"} => j.entry.type # "Sale"
  PROVE  MarksInv'
<1>1. job'[p] = j /\ \A q \in Procs \ {p} : job'[q] = job[q]
  BY DEF IInv, TypeOK, Become
<1>2. job[p].id \in Ids /\ accepted \subseteq Ids
  BY DEF IInv, TypeOK, JobsSigned, JobSigned, Marks, Ids
<1>3. records \in Seq(Entry)
  BY DEF IInv, TypeOK
<1>4. Ids' = Ids /\ \A k \in Ids \ {job[p].id} : records'[k] = records[k]
  BY <1>2, <1>3 DEF SetProcessed, Ids
<1>5. \A q \in Procs : Marks(job[q]) => job[q].id \in Ids
  BY DEF IInv, JobsSigned, JobSigned, Marks, Ids
<1>6. MarksOnce'
  <2>1. ASSUME NEW i \in accepted
        PROVE  ~records'[i].processed /\ \A q \in Procs : Marks(job'[q]) => job'[q].id # i
    BY <1>1, <1>2, <1>4 DEF MarksInv, MarksOnce
  <2>2. ASSUME NEW q \in Procs, Marks(job'[q])
        PROVE  /\ ~records'[job'[q].id].processed
               /\ \A r \in Procs \ {q} : Marks(job'[r]) => job'[r].id # job'[q].id
    <3>1. q # p /\ job'[q] = job[q] /\ job[q].id # job[p].id
      BY <1>1, <2>2 DEF MarksInv, MarksOnce
    <3>2. records'[job[q].id] = records[job[q].id]
      BY <1>4, <1>5, <2>2, <3>1
    <3> QED
      BY <1>1, <2>2, <3>1, <3>2 DEF MarksInv, MarksOnce
  <2> QED
    BY <2>1, <2>2 DEF MarksOnce
<1>7. NoSales'
  BY <1>1, <1>2, <1>4, MarkedKept DEF MarksInv, NoSales, RecordsKept
<1> QED
  BY <1>6, <1>7 DEF MarksInv

LEMMA MarksAdded ==
  ASSUME IInv, MarksInv, NEW e \in Entry, StoreAndEmit(e), e.type # "Sale",
         ~e.processed, NothingMore
  PROVE  MarksInv'
<1> DEFINE n == Len(records) + 1
<1>1. records \in Seq(Entry)
  BY DEF IInv, TypeOK
<1>2. /\ Ids' = Ids \cup {n} /\ n \notin Ids
      /\ \A i \in Ids : records'[i] = records[i]
      /\ records'[n] = e
      /\ accepted' = accepted \cup {n}
  BY <1>1 DEF StoreAndEmit, Ids
<1> HIDE DEF n
<1>3. accepted \subseteq Ids /\ \A q \in Procs : Marks(job[q]) => job[q].id \in Ids
  BY DEF IInv, TypeOK, JobsSigned, JobSigned, Marks, Ids
<1>4. \A q \in Procs : Marks(job'[q]) => job'[q] = job[q]
  BY DEF NothingMore
<1>5. MarksOnce'
  BY <1>2, <1>3, <1>4 DEF MarksInv, MarksOnce
<1>6. NoSales'
  BY <1>2 DEF MarksInv, NoSales, NothingMore
<1> QED
  BY <1>5, <1>6 DEF MarksInv

LEMMA MarksNothing ==
  ASSUME IInv, NEW p \in Procs, NEW j, Become(p, j), ~Marks(j),
         j.pc \in {"move", "create"} => j.entry.type # "Sale"
  PROVE  NothingMore
  BY DEF IInv, TypeOK, Become, NothingMore

LEMMA RevertingMarksNothing ==
  ASSUME IInv, NEW p \in Procs, NEW todo, NEW credited, Reverting(p, todo, credited)
  PROVE  NothingMore
  BY MarksNothing DEF Reverting, Finish, IdleJob, Marks

LEMMA ContinueMarks ==
  ASSUME IInv, MarksInv, NEW p \in Procs, Continue(p)
  PROVE  MarksInv'
<1> USE DEF Finish, IdleJob
<1>1. CASE SaveStop(p) \/ RefuseRecord(p)
  BY <1>1, MarksNothing, MarksStay DEF SaveStop, RefuseRecord, Marks
<1>2. CASE MoveBalance(p)
  BY <1>2, MarksNothing, MarksStay DEF MoveBalance, Marks, MarksInv, NoSales
<1>3. CASE ReachGoal(p)
  BY <1>3, MarksNothing, MarksStay
     DEF ReachGoal, Marks, ProcessRecord, NewEntry
<1>4. CASE CreateRecord(p)
  <2>1. job[p].entry \in Entry /\ ~job[p].entry.processed
    BY <1>4, JobShape DEF CreateRecord, IInv, TypeOK, JobsSigned, JobSigned
  <2>2. job[p].entry.type # "Sale"
    BY <1>4 DEF CreateRecord, MarksInv, NoSales
  <2>3. NothingMore
    BY <1>4, MarksNothing DEF CreateRecord, Marks
  <2> QED
    BY <1>4, <2>1, <2>2, <2>3, MarksAdded DEF CreateRecord
<1>5. CASE MarkTip(p) \/ Mark(p) \/ MarkPurchase(p)
  <2>1. Marks(job[p]) /\ SetProcessed(job[p].id) /\ UNCHANGED accepted
    BY <1>5 DEF MarkTip, Mark, MarkPurchase, Marks
  <2>2. \E j : /\ Become(p, j) /\ ~Marks(j)
               /\ j.pc \in {"move", "create"} => j.entry.type # "Sale"
    BY <1>5 DEF MarkTip, Mark, MarkPurchase, Marks, ProcessRecord, NewEntry
  <2> QED
    BY <2>1, <2>2, MarksDone
<1>6. CASE FindTips(p)
  BY <1>6, RevertingMarksNothing, MarksStay DEF FindTips
<1>7. ASSUME NEW i \in Ids, RefundTip(p, i) PROVE MarksInv'
  BY <1>7, RevertingMarksNothing, MarksStay DEF RefundTip
<1>8. ASSUME NEW i \in Ids, RecordRefund(p, i) PROVE MarksInv'
  <2> DEFINE e == NewEntry(records[i].owner, "Reverting", -records[i].sum, i)
  <2>1. records[i] \in Entry /\ i \in Nat
    BY IdsAreNumbers DEF IInv, TypeOK, Ids
  <2>2. e \in Entry /\ ~e.processed /\ e.type # "Sale"
    BY <2>1 DEF NewEntry, Entry, Types
  <2>3. StoreAndEmit(e) /\ NothingMore
    BY <1>8, RevertingMarksNothing DEF RecordRefund
  <2> HIDE DEF e
  <2> QED
    BY <2>2, <2>3, MarksAdded
<1> QED
  BY <1>1, <1>2, <1>3, <1>4, <1>5, <1>6, <1>7, <1>8 DEF Continue

LEMMA NextMarks ==
  ASSUME IInv, MarksInv, [Next]_vars
  PROVE  MarksInv'
<1> USE DEF Finish, IdleJob
<1>1. ASSUME NEW p \in Procs, Request(p) PROVE MarksInv'
  <2>1. UNCHANGED <<records, accepted>>
    BY <1>1 DEF Request, SendTip, Purchase, Deposit, Call, StopStream
  <2>2. NothingMore
    BY <1>1, MarksNothing
       DEF Request, SendTip, Purchase, Deposit, Call, StopStream, ProcessRecord,
           NewEntry, Marks
  <2> QED
    BY <2>1, <2>2, MarksStay
<1>2. ASSUME NEW p \in Procs, Handle(p) PROVE MarksInv'
  <2>1. ASSUME NEW i \in accepted, TakeTip(p, i) \/ TakePayout(p, i) \/ TakePurchase(p, i)
        PROVE  MarksInv'
    <3>1. Receive(p, i) /\ UNCHANGED records
      BY <2>1 DEF TakeTip, TakePayout, TakePurchase
    <3>2. \E j : Become(p, j) /\ Marks(j) /\ j.id = i
      BY <2>1 DEF TakeTip, TakePayout, TakePurchase, Marks
    <3> QED
      BY <3>1, <3>2, MarksReceived
  <2>2. ASSUME NEW i \in accepted, SkipTip(p, i) \/ IgnoreAccepted(p, i)
        PROVE  MarksInv'
    BY <2>2, MarksStay DEF SkipTip, IgnoreAccepted, Receive, NothingMore
  <2>3. ASSUME NEW s \in completed, NEW g \in Goals, ExpireGoal(p, s, g)
        PROVE  MarksInv'
    BY <2>3, MarksNothing, MarksStay DEF ExpireGoal, Marks
  <2>4. ASSUME NEW s \in completed, NothingToExpire(s) PROVE MarksInv'
    BY <2>4, MarksStay DEF NothingToExpire, NothingMore
  <2> QED
    BY <1>2, <2>1, <2>2, <2>3, <2>4 DEF Handle
<1>3. CASE Administer
  BY <1>3, MarksStay DEF Administer, ChangeTarget, RemoveGoal, NothingMore
<1>4. CASE Break
  <2>1. NothingMore
    BY <1>4, MarksNothing
       DEF Break, AbortJob, LoseAccepted, LoseCompleted, NothingMore, Marks
  <2> QED
    BY <1>4, <2>1, MarksStay DEF Break, AbortJob, LoseAccepted, LoseCompleted
<1>5. CASE UNCHANGED vars
  BY <1>5, MarksStay DEF vars, NothingMore
<1> QED
  BY <1>1, <1>2, <1>3, <1>4, <1>5, ContinueMarks DEF Next

-----------------------------------------------------------------------------
(* What a step does to the sums.                                           *)

CountsKept ==
  \A i \in Ids' : IsPayout(i)' \/ IsTip(i)' =>
    (Counted(i)' <=> i \in Ids /\ Counted(i))

CreatorsKept ==
  \A q \in Procs : \/ job'[q] = job[q]
                   \/ job[q].pc # "create" /\ job'[q].pc # "create"

CreditsKept == \A q \in Procs : CreditedBy(q)' = CreditedBy(q)

LEMMA OwnedSame ==
  ASSUME RecordsKept, Ids' = Ids
  PROVE  \A u : SameSums(Owned(u), Owned(u)')
  BY DEF RecordsKept, SameSums, Owned, OwnedBy

LEMMA CountedSame ==
  ASSUME RecordsKept, CountsKept
  PROVE  /\ \A u : SameSums(PaidTwice(u), PaidTwice(u)')
         /\ \A g : SameSums(TipsOf(g), TipsOf(g)')
<1>1. \A u : Paid(u)' = Paid(u)
  BY DEF RecordsKept, CountsKept, Paid, OwnedBy, IsPayout
<1>2. \A g : CountedTips(g)' = CountedTips(g)
  BY DEF RecordsKept, CountsKept, CountedTips, IsTip
<1>3. \A u : SameSums(PaidTwice(u), PaidTwice(u)')
  BY <1>1 DEF SameSums, PaidTwice, Paid, OwnedBy, RecordsKept
<1>4. \A g : SameSums(TipsOf(g), TipsOf(g)')
  BY <1>2 DEF SameSums, TipsOf, CountedTips, RecordsKept
<1> QED
  BY <1>3, <1>4

LEMMA CreatingSame ==
  ASSUME CreatorsKept
  PROVE  \A u : SameSums(Creating(u), Creating(u)')
<1>1. \A u : Creators(u)' = Creators(u)
  BY DEF CreatorsKept, Creators
<1> QED
  BY <1>1 DEF SameSums, Creating, CreatorsKept, Creators

LEMMA RefundingSame ==
  ASSUME RInv, RecordsKept, CreditsKept
  PROVE  \A u : SameSums(Refunding(u), Refunding(u)')
<1>1. \A q \in Procs : CreditedBy(q) \subseteq Ids
  BY DEF RInv, TipsHeld, BeingRefunded, CreditedBy
<1>2. \A u : Credited(u)' = Credited(u)
  BY <1>1 DEF Credited, OwnedBy, CreditsKept, RecordsKept
<1> QED
  BY <1>2 DEF SameSums, Refunding, RecordsKept, Credited, OwnedBy

LEMMA OwnedGrows ==
  ASSUME IInv, NEW e \in Entry, StoreAndEmit(e)
  PROVE  \A u : IF u = e.owner
                THEN Plus(Owned(u), Len(records) + 1, e.sum, Owned(u)')
                ELSE SameSums(Owned(u), Owned(u)')
<1> DEFINE n == Len(records) + 1
<1>1. /\ RecordsKept /\ Ids' = Ids \cup {n} /\ n \notin Ids /\ records'[n] = e
  BY AddedKept
<1> HIDE DEF n
<1>2. \A u : OwnedBy(u)' = OwnedBy(u) \cup (IF u = e.owner THEN {n} ELSE {})
  BY <1>1 DEF OwnedBy, RecordsKept
<1>3. \A u : n \notin OwnedBy(u)
  BY <1>1 DEF OwnedBy
<1>4. \A u : \A i \in OwnedBy(u) : records'[i].sum = records[i].sum
  BY <1>1 DEF OwnedBy, RecordsKept
<1>5. \A u : IF u = e.owner THEN Plus(Owned(u), n, e.sum, Owned(u)')
                            ELSE SameSums(Owned(u), Owned(u)')
  BY <1>1, <1>2, <1>3, <1>4 DEF Owned, Plus, SameSums
<1> QED
  BY <1>5 DEF n

-----------------------------------------------------------------------------
(* Steps that are not about the sums.                                      *)

(* The inductive invariant.                                                *)
LInv == RInv /\ MarksInv /\ LedgerReconciles /\ GoalFundedByTips

AmountsKept == \A g \in Goals : goal'[g].current = goal[g].current

LEMMA FundingStays ==
  ASSUME LInv, RecordsKept, CountsKept, AmountsKept, faults' \in Nat, faults' = 0 => faults = 0
  PROVE  GoalFundedByTips'
<1>1. \A g : Total(TipsOf(g)') = Total(TipsOf(g))
  BY CountedSame, SumsSummable, SameTotal DEF LInv
<1>2. \A g \in Goals : Funded(g)
  BY FundedIs DEF LInv, AllFunded
<1>3. AllFunded'
  BY <1>1, <1>2 DEF AllFunded, Funded, AmountsKept
<1> QED
  BY <1>3, FundedIs, PTL

LEMMA LedgerThen ==
  ASSUME LInv, RInv', faults' = 0 => faults = 0,
         faults' = 0 => \A u \in Users : Reconciled(u) => Reconciled(u)'
  PROVE  LedgerReconciles'
<1>1. faults' = 0 => \A u \in Users : Reconciled(u)
  BY LedgerIs DEF LInv, AllReconciled
<1>2. AllReconciled'
  BY <1>1 DEF AllReconciled
<1> QED
  BY <1>2, LedgerIs, PTL

LEMMA LedgerStays ==
  ASSUME LInv, RInv', RecordsKept, Ids' = Ids, CountsKept, CreatorsKept, CreditsKept,
         UNCHANGED balance, faults' = 0 => faults = 0
  PROVE  LedgerReconciles'
<1>1. \A u : /\ Total(Owned(u)') = Total(Owned(u))
             /\ Total(PaidTwice(u)') = Total(PaidTwice(u))
             /\ Total(Creating(u)') = Total(Creating(u))
             /\ Total(Refunding(u)') = Total(Refunding(u))
  BY OwnedSame, CountedSame, CreatingSame, RefundingSame, SumsSummable, SameTotal
     DEF LInv
<1>2. \A u : Reconciled(u) => Reconciled(u)'
  BY <1>1 DEF Reconciled
<1> QED
  BY <1>2, LedgerThen

LEMMA SumsStay ==
  ASSUME LInv, RInv', MarksInv', RecordsKept, Ids' = Ids,
         CountsKept, CreatorsKept, CreditsKept, AmountsKept, UNCHANGED <<balance, faults>>
  PROVE  LInv'
<1>1. faults \in Nat
  BY BoundsAssumption DEF LInv, RInv, IInv, TypeOK
<1>2. LedgerReconciles'
  BY LedgerStays
<1>3. GoalFundedByTips'
  BY <1>1, FundingStays
<1> QED
  BY <1>2, <1>3 DEF LInv

(* A handler that holds nothing the sums are about.                        *)
HoldsNoSum(j) ==
  /\ j.pc \notin {"create", "mark", "markTip"}
  /\ j.pc = "revert" => j.credited = {}

LEMMA NoHandler ==
  ASSUME UNCHANGED <<records, job>>
  PROVE  RecordsKept /\ Ids' = Ids /\ CountsKept /\ CreatorsKept /\ CreditsKept
  BY DEF RecordsKept, Ids, CountsKept, CreatorsKept, CreditsKept, CreditedBy,
         Counted, Marking

LEMMA OtherWork ==
  ASSUME IInv, NEW p \in Procs, NEW j, Become(p, j),
         HoldsNoSum(job[p]), HoldsNoSum(j), UNCHANGED records
  PROVE  RecordsKept /\ Ids' = Ids /\ CountsKept /\ CreatorsKept /\ CreditsKept
<1>1. job'[p] = j /\ \A q \in Procs \ {p} : job'[q] = job[q]
  BY DEF IInv, TypeOK, Become
<1>2. RecordsKept /\ Ids' = Ids
  BY DEF RecordsKept, Ids
<1>3. \A i : Marking(i)' <=> Marking(i)
  BY <1>1 DEF Marking, HoldsNoSum
<1>4. CountsKept
  BY <1>2, <1>3 DEF CountsKept, Counted
<1>5. CreatorsKept /\ CreditsKept
  BY <1>1 DEF CreatorsKept, CreditsKept, CreditedBy, HoldsNoSum
<1> QED
  BY <1>2, <1>4, <1>5

LEMMA StatesKeepAmounts ==
  ASSUME IInv, NEW g \in Goals, NEW state, goal' = [goal EXCEPT ![g].state = state]
  PROVE  AmountsKept
  BY DEF IInv, TypeOK, AmountsKept

LEMMA IdleHoldsNoSum == ASSUME NEW p, Idle(p) PROVE HoldsNoSum(job[p])
  BY DEF Idle, HoldsNoSum

LEMMA RequestSums ==
  ASSUME LInv, RInv', MarksInv', NEW p \in Procs, Request(p)
  PROVE  LInv'
<1>1. UNCHANGED <<records, balance, goal, faults>> /\ Idle(p)
  BY DEF Request, SendTip, Purchase, Deposit, Call, StopStream
<1>2. \E j : Become(p, j) /\ HoldsNoSum(j)
  <2>1. ASSUME NEW owner, NEW type, NEW sum, NEW ref, Call(p, owner, type, sum, ref)
        PROVE  \E j : Become(p, j) /\ HoldsNoSum(j)
    <3> DEFINE k == [pc |-> "move", entry |-> NewEntry(owner, type, sum, ref)]
    <3>1. Become(p, k)
      BY <2>1 DEF Call, ProcessRecord
    <3>2. k.pc = "move"
      OBVIOUS
    <3> QED
      BY <3>1, <3>2 DEF HoldsNoSum
  <2>2. ASSUME NEW s \in Streams, StopStream(p, s)
        PROVE  \E j : Become(p, j) /\ HoldsNoSum(j)
    BY <2>2 DEF StopStream, HoldsNoSum
  <2> QED
    BY <2>1, <2>2 DEF Request, SendTip, Purchase, Deposit
<1>3. AmountsKept
  BY <1>1 DEF AmountsKept
<1> QED
  BY <1>1, <1>2, <1>3, IdleHoldsNoSum, OtherWork, SumsStay DEF LInv, RInv

LEMMA AdministerSums ==
  ASSUME LInv, RInv', MarksInv', Administer
  PROVE  LInv'
<1>1. AmountsKept
  <2>1. goal \in [Goals -> [state : GoalStates, current : Int, target : Targets]]
    BY DEF LInv, RInv, IInv, TypeOK
  <2>2. ASSUME NEW g \in Goals, NEW target, ChangeTarget(g, target) PROVE AmountsKept
    BY <2>1, <2>2 DEF ChangeTarget, AmountsKept
  <2>3. ASSUME NEW g \in Goals, RemoveGoal(g) PROVE AmountsKept
    BY <2>3, StatesKeepAmounts DEF RemoveGoal, LInv, RInv
  <2> QED
    BY <2>2, <2>3 DEF Administer
<1>2. UNCHANGED <<records, balance, job, faults>>
  BY DEF Administer, ChangeTarget, RemoveGoal
<1> QED
  BY <1>1, <1>2, NoHandler, SumsStay

(* Records that are marked processed: what is counted then was before.     *)
LEMMA MarkSums ==
  ASSUME LInv, RInv', MarksInv', NEW p \in Procs, MarkTip(p) \/ Mark(p) \/ MarkPurchase(p)
  PROVE  LInv'
<1> DEFINE i == job[p].id
<1>1. SetProcessed(i) /\ i \in Ids /\ UNCHANGED <<balance, goal, faults>>
  BY DEF MarkTip, Mark, MarkPurchase, LInv, RInv, IInv, JobsSigned, JobSigned, Ids
<1>2. RecordsKept
  BY <1>1, MarkedKept DEF LInv, RInv
<1>3. records \in Seq(Entry) /\ job \in [Procs -> Job]
  BY DEF LInv, RInv, IInv, TypeOK
<1>4. Ids' = Ids /\ records'[i].processed /\ \A k \in Ids \ {i} : records'[k] = records[k]
  <2>1. records[i] \in Entry
    BY <1>1, <1>3 DEF Ids
  <2> QED
    BY <1>1, <1>3, <2>1 DEF SetProcessed, Ids, Entry
<1>5. PICK j : Become(p, j) /\ HoldsNoSum(j)
  BY DEF MarkTip, Mark, MarkPurchase, ProcessRecord, Finish, IdleJob, HoldsNoSum
<1>6. job'[p] = j /\ \A q \in Procs \ {p} : job'[q] = job[q]
  BY <1>3, <1>5 DEF Become
<1>7. IsPayout(i) \/ IsTip(i) => Marking(i)
  BY DEF MarkTip, Mark, MarkPurchase, Marking, IsPayout, IsTip, LInv, RInv, IInv,
         JobsSigned, JobSigned
<1>8. job[p].pc \in {"markTip", "mark", "markPurchase"}
  BY DEF MarkTip, Mark, MarkPurchase
<1> HIDE DEF i
<1>9. \A k \in Ids \ {i} : Marking(k)' <=> Marking(k)
  BY <1>5, <1>6 DEF Marking, HoldsNoSum, i
<1>10. CountsKept
  BY <1>2, <1>4, <1>7, <1>9
     DEF CountsKept, Counted, IsPayout, IsTip, RecordsKept
<1>11. CreatorsKept /\ CreditsKept
  BY <1>5, <1>6, <1>8 DEF CreatorsKept, CreditsKept, CreditedBy, HoldsNoSum
<1> QED
  BY <1>1, <1>2, <1>4, <1>10, <1>11, SumsStay DEF AmountsKept

(* A handler passes the balance on to the records.                         *)

NoMarking == \A q \in Procs : job'[q] = job[q]
                \/ /\ job[q].pc \notin {"mark", "markTip"}
                   /\ job'[q].pc \notin {"mark", "markTip"}

LEMMA SameCounts ==
  ASSUME NoMarking, UNCHANGED records
  PROVE  RecordsKept /\ Ids' = Ids /\ CountsKept
<1>1. \A i : Marking(i)' <=> Marking(i)
  BY DEF Marking, NoMarking
<1> QED
  BY <1>1 DEF RecordsKept, Ids, CountsKept, Counted

(* A new record is not counted.                                            *)
LEMMA AddedCounts ==
  ASSUME IInv, NoMarking, NEW e \in Entry, StoreAndEmit(e), ~e.processed
  PROVE  RecordsKept /\ CountsKept
<1> DEFINE n == Len(records) + 1
<1>1. RecordsKept /\ Ids' = Ids \cup {n} /\ n \notin Ids /\ records'[n] = e
  BY AddedKept
<1>2. \A i \in Ids : records'[i] = records[i]
  <2>1. records \in Seq(Entry)
    BY DEF IInv, TypeOK
  <2> QED
    BY <2>1 DEF StoreAndEmit, Ids
<1> HIDE DEF n
<1>3. \A i : Marking(i)' <=> Marking(i)
  BY DEF Marking, NoMarking
<1>4. ~Marking(n)
  BY <1>1 DEF Marking, IInv, JobsSigned, JobSigned, Ids
<1>5. CountsKept
  BY <1>1, <1>2, <1>3, <1>4 DEF CountsKept, Counted
<1> QED
  BY <1>1, <1>5

LEMMA MoveSums ==
  ASSUME LInv, RInv', MarksInv', NEW p \in Procs, MoveBalance(p)
  PROVE  LInv'
<1> DEFINE e == job[p].entry
<1>1. e \in Entry /\ e.owner \in Users /\ e.sum \in Int
  <2>1. e \in Entry
    BY JobShape DEF LInv, RInv, IInv, TypeOK, MoveBalance
  <2> QED
    BY <2>1 DEF MoveBalance, Matches, Entry
<1>2. /\ job[p].pc = "move" /\ job'[p].pc = "create" /\ job'[p].entry = e
      /\ \A q \in Procs \ {p} : job'[q] = job[q]
  BY DEF LInv, RInv, IInv, TypeOK, MoveBalance, Become
<1>3. /\ balance'[e.owner] = balance[e.owner] + e.sum
      /\ \A u \in Users \ {e.owner} : balance'[u] = balance[u]
  BY <1>1 DEF LInv, RInv, IInv, TypeOK, MoveBalance
<1>4. UNCHANGED <<records, goal, faults>>
  BY DEF MoveBalance
<1> HIDE DEF e
<1>5. RecordsKept /\ Ids' = Ids /\ CountsKept
  <2>1. NoMarking
    BY <1>2 DEF NoMarking
  <2> QED
    BY <2>1, <1>4, SameCounts
<1>6. CreditsKept
  BY <1>2 DEF CreditsKept, CreditedBy
<1>7. \A u : Creators(u)' = Creators(u) \cup (IF u = e.owner THEN {p} ELSE {})
  BY <1>2 DEF Creators
<1>8. \A u : /\ p \notin Creators(u) /\ Creators(u) \subseteq Procs \ {p}
  BY <1>2 DEF Creators
<1>9. \A u : IF u = e.owner THEN Plus(Creating(u), p, e.sum, Creating(u)')
                            ELSE SameSums(Creating(u), Creating(u)')
  BY <1>2, <1>7, <1>8 DEF Creating, Plus, SameSums
<1>10. ASSUME NEW u \in Users, Reconciled(u)
       PROVE  Reconciled(u)'
  <2>1. /\ Total(Owned(u)') = Total(Owned(u))
        /\ Total(PaidTwice(u)') = Total(PaidTwice(u))
        /\ Total(Refunding(u)') = Total(Refunding(u))
    BY <1>5, <1>6, OwnedSame, CountedSame, RefundingSame, SumsSummable, SameTotal
       DEF LInv
  <2>2. Total(Creating(u)') = Total(Creating(u)) + (IF u = e.owner THEN e.sum ELSE 0)
    <3>1. Summable(Creating(u)) /\ Total(Creating(u)) \in Int
      BY SumsSummable, SummableTotal DEF LInv
    <3>2. CASE u = e.owner
      BY <1>1, <1>9, <3>1, <3>2, PlusTotal
    <3>3. CASE u # e.owner
      BY <1>9, <3>1, <3>3, SameTotal
    <3> QED
      BY <3>2, <3>3
  <2>3. /\ Total(Owned(u)) \in Int /\ Total(PaidTwice(u)) \in Int
        /\ Total(Refunding(u)) \in Int /\ Total(Creating(u)) \in Int
        /\ InitBalance \in Int
    BY SumsSummable, SummableTotal, SumsAssumption DEF LInv
  <2>4. balance'[u] = balance[u] + (IF u = e.owner THEN e.sum ELSE 0)
    BY <1>3 DEF LInv, RInv, IInv, TypeOK
  <2> QED
    BY <1>1, <1>10, <2>1, <2>2, <2>3, <2>4 DEF Reconciled
<1>11. LedgerReconciles'
  BY <1>4, <1>10, LedgerThen
<1>12. GoalFundedByTips'
  BY <1>4, <1>5, FundingStays, BoundsAssumption
     DEF AmountsKept, LInv, RInv, IInv, TypeOK
<1> QED
  BY <1>11, <1>12 DEF LInv

LEMMA CreateSums ==
  ASSUME LInv, RInv', MarksInv', NEW p \in Procs, CreateRecord(p)
  PROVE  LInv'
<1> DEFINE e == job[p].entry
<1>1. e \in Entry /\ e.owner \in Users /\ e.sum \in Int /\ ~e.processed
  <2>1. e \in Entry /\ e.owner \in Users /\ ~e.processed
    BY JobShape DEF LInv, RInv, IInv, TypeOK, JobsSigned, JobSigned, CreateRecord
  <2> QED
    BY <2>1 DEF Entry
<1>2. /\ job[p].pc = "create" /\ job'[p].pc = "idle"
      /\ \A q \in Procs \ {p} : job'[q] = job[q]
  BY DEF LInv, RInv, IInv, TypeOK, CreateRecord, Become, Finish, IdleJob
<1>3. /\ StoreAndEmit(e) /\ UNCHANGED <<balance, goal, faults>>
      /\ \A u : u = e.owner <=> u = job[p].entry.owner
      /\ e.sum = job[p].entry.sum
  BY DEF CreateRecord
<1> HIDE DEF e
<1>4. RecordsKept /\ CountsKept
  <2>1. NoMarking
    BY <1>2 DEF NoMarking
  <2> QED
    BY <1>1, <1>3, <2>1, AddedCounts DEF LInv, RInv
<1>5. CreditsKept
  BY <1>2 DEF CreditsKept, CreditedBy
<1>6. \A u : /\ Creators(u) = Creators(u)' \cup (IF u = e.owner THEN {p} ELSE {})
             /\ p \notin Creators(u)' /\ Creators(u)' \subseteq Procs \ {p}
  BY <1>2, <1>3 DEF Creators
<1>7. \A u : IF u = e.owner THEN Plus(Creating(u)', p, e.sum, Creating(u))
                            ELSE SameSums(Creating(u), Creating(u)')
  BY <1>2, <1>3, <1>6 DEF Creating, Plus, SameSums
<1>8. ASSUME NEW u \in Users, Reconciled(u)
      PROVE  Reconciled(u)'
  <2>1. /\ Total(PaidTwice(u)') = Total(PaidTwice(u))
        /\ Total(Refunding(u)') = Total(Refunding(u))
    BY <1>4, <1>5, CountedSame, RefundingSame, SumsSummable, SameTotal DEF LInv
  <2>2. /\ Summable(Owned(u)) /\ Summable(Creating(u))
        /\ Total(Owned(u)) \in Int /\ Total(PaidTwice(u)) \in Int
        /\ Total(Refunding(u)) \in Int /\ Total(Creating(u)) \in Int
        /\ InitBalance \in Int
    BY SumsSummable, SummableTotal, SumsAssumption DEF LInv
  <2>3. Total(Owned(u)') = Total(Owned(u)) + (IF u = e.owner THEN e.sum ELSE 0)
    <3>1. IF u = e.owner THEN Plus(Owned(u), Len(records) + 1, e.sum, Owned(u)')
                         ELSE SameSums(Owned(u), Owned(u)')
      BY <1>1, <1>3, OwnedGrows DEF LInv, RInv
    <3>2. CASE u = e.owner
      BY <1>1, <2>2, <3>1, <3>2, PlusTotal
    <3>3. CASE u # e.owner
      BY <2>2, <3>1, <3>3, SameTotal
    <3> QED
      BY <3>2, <3>3
  <2>4. Total(Creating(u)') = Total(Creating(u)) - (IF u = e.owner THEN e.sum ELSE 0)
    <3>1. CASE u = e.owner
      BY <1>7, <2>2, <3>1, MinusTotal
    <3>2. CASE u # e.owner
      BY <1>7, <2>2, <3>2, SameTotal
    <3> QED
      BY <3>1, <3>2
  <2> QED
    BY <1>1, <1>3, <1>8, <2>1, <2>2, <2>3, <2>4 DEF Reconciled
<1>9. LedgerReconciles'
  BY <1>3, <1>8, LedgerThen
<1>10. GoalFundedByTips'
  BY <1>3, <1>4, FundingStays, BoundsAssumption
     DEF AmountsKept, LInv, RInv, IInv, TypeOK
<1> QED
  BY <1>9, <1>10 DEF LInv

(* A payout is received: it is counted from now on, and the balance moves. *)
LEMMA TakePayoutSums ==
  ASSUME LInv, RInv', MarksInv', NEW p \in Procs, NEW i \in accepted, TakePayout(p, i)
  PROVE  LInv'
<1> DEFINE o == records[i].owner
           v == records[i].sum
<1>1. i \in Ids /\ o \in Users /\ v \in Int /\ IsPayout(i) /\ ~Counted(i)
  <2>1. i \in Ids /\ records[i] \in Entry /\ o \in Users
    BY DEF LInv, RInv, IInv, TypeOK, RecordsSigned, Ids
  <2>2. IsPayout(i)
    BY <2>1 DEF TakePayout, LInv, MarksInv, NoSales, IsPayout
  <2>3. ~Counted(i)
    BY DEF LInv, MarksInv, MarksOnce, Marks, Counted, Marking
  <2> QED
    BY <2>1, <2>2, <2>3 DEF Entry
<1>2. /\ Idle(p) /\ job'[p] = [pc |-> "mark", id |-> i]
      /\ \A q \in Procs \ {p} : job'[q] = job[q]
  BY DEF LInv, RInv, IInv, TypeOK, TakePayout, Receive, Become
<1>3. /\ balance'[o] = balance[o] + v
      /\ \A u \in Users \ {o} : balance'[u] = balance[u]
  BY <1>1 DEF LInv, RInv, IInv, TypeOK, TakePayout
<1>4. UNCHANGED <<records, goal, faults>>
  BY DEF TakePayout
<1>5. RecordsKept /\ Ids' = Ids
  BY <1>4 DEF RecordsKept, Ids
<1>6. CreatorsKept /\ CreditsKept
  BY <1>2 DEF CreatorsKept, CreditsKept, CreditedBy, Idle
<1>7. \A k \in Ids : Counted(k)' <=> Counted(k) \/ k = i
  <2>1. \A k : Marking(k)' <=> Marking(k) \/ k = i
    BY <1>2 DEF Marking, Idle
  <2> QED
    BY <2>1, <1>4 DEF Counted
<1>8. \A u : Paid(u)' = Paid(u) \cup (IF u = o THEN {i} ELSE {})
  BY <1>1, <1>4, <1>5, <1>7 DEF Paid, OwnedBy, IsPayout
<1>9. \A u : i \notin Paid(u)
  BY <1>1 DEF Paid
<1>10. records'[i].sum = v
  BY <1>4
<1> HIDE DEF o, v
<1>11. \A u : IF u = o THEN Plus(PaidTwice(u), i, v, PaidTwice(u)')
                       ELSE SameSums(PaidTwice(u), PaidTwice(u)')
  BY <1>4, <1>8, <1>9, <1>10 DEF PaidTwice, Plus, SameSums
<1>12. ASSUME NEW u \in Users, Reconciled(u)
       PROVE  Reconciled(u)'
  <2>1. /\ Total(Owned(u)') = Total(Owned(u))
        /\ Total(Creating(u)') = Total(Creating(u))
        /\ Total(Refunding(u)') = Total(Refunding(u))
    BY <1>5, <1>6, OwnedSame, CreatingSame, RefundingSame, SumsSummable, SameTotal
       DEF LInv
  <2>2. /\ Summable(PaidTwice(u))
        /\ Total(Owned(u)) \in Int /\ Total(PaidTwice(u)) \in Int
        /\ Total(Refunding(u)) \in Int /\ Total(Creating(u)) \in Int
        /\ InitBalance \in Int
    BY SumsSummable, SummableTotal, SumsAssumption DEF LInv
  <2>3. Total(PaidTwice(u)') = Total(PaidTwice(u)) + (IF u = o THEN v ELSE 0)
    <3>1. CASE u = o
      BY <1>1, <1>11, <2>2, <3>1, PlusTotal
    <3>2. CASE u # o
      BY <1>11, <2>2, <3>2, SameTotal
    <3> QED
      BY <3>1, <3>2
  <2>4. balance'[u] = balance[u] + (IF u = o THEN v ELSE 0)
    BY <1>3 DEF LInv, RInv, IInv, TypeOK
  <2> QED
    BY <1>1, <1>12, <2>1, <2>2, <2>3, <2>4 DEF Reconciled
<1>13. LedgerReconciles'
  BY <1>4, <1>12, LedgerThen
<1>14. GoalFundedByTips'
  <2>1. \A g : CountedTips(g)' = CountedTips(g)
    BY <1>1, <1>4, <1>5, <1>7 DEF CountedTips, IsTip, IsPayout
  <2>2. \A g : TipsOf(g)' = TipsOf(g)
    BY <1>4, <2>1 DEF TipsOf
  <2>3. AllFunded'
    BY <1>4, <2>2, FundedIs DEF LInv, AllFunded, Funded
  <2> QED
    BY <2>3, FundedIs, PTL
<1> QED
  BY <1>13, <1>14 DEF LInv

(* A handler that gives tips back: what it has credited.                   *)
LEMMA RevertingHolds ==
  ASSUME IInv, NEW p \in Procs, NEW todo, NEW credited, Reverting(p, todo, credited),
         job[p].pc = "revert"
  PROVE  /\ CreditedBy(p)' = credited
         /\ \A q \in Procs \ {p} : job'[q] = job[q]
         /\ NoMarking /\ CreatorsKept
<1>1. PICK j : /\ Become(p, j)
               /\ j.pc \in {"idle", "revert"}
               /\ credited = IF j.pc = "revert" THEN j.credited ELSE {}
  BY DEF Reverting, Finish, IdleJob
<1>2. job'[p] = j /\ \A q \in Procs \ {p} : job'[q] = job[q]
  BY <1>1 DEF IInv, TypeOK, Become
<1> QED
  BY <1>1, <1>2 DEF CreditedBy, NoMarking, CreatorsKept

(* No two handlers hold the same tip.                                      *)
LEMMA CreditedOnce ==
  ASSUME RInv, NEW p \in Procs, NEW q \in Procs, p # q,
         NEW i \in BeingRefunded(p)
  PROVE  i \notin CreditedBy(q)
<1>1. i \in Ids /\ IsTip(i)
  BY DEF RInv, TipsHeld, BeingRefunded
<1>2. records[i].ref \in Goals
  BY <1>1, TipsAreTyped DEF RInv
<1>3. i \notin BeingRefunded(q)
  BY <1>2 DEF RInv, OneDealer, Deals
<1> QED
  BY <1>3 DEF BeingRefunded, CreditedBy

LEMMA RefundSums ==
  ASSUME LInv, RInv', MarksInv', NEW p \in Procs, NEW i \in Ids, RefundTip(p, i)
  PROVE  LInv'
<1> DEFINE o == records[i].owner
           v == records[i].sum
<1>1. i \in Ids /\ o \in Users /\ v \in Int
  <2>1. records[i] \in Entry /\ o \in Users
    BY DEF LInv, RInv, IInv, TypeOK, RecordsSigned, Ids
  <2> QED
    BY <2>1 DEF Entry
<1>2. /\ i \in job[p].todo /\ i \in BeingRefunded(p) /\ i \notin CreditedBy(p)
      /\ CreditedBy(p)' = CreditedBy(p) \cup {i}
      /\ \A q \in Procs \ {p} : job'[q] = job[q]
      /\ NoMarking /\ CreatorsKept
  <2>1. job[p].pc = "revert" /\ i \in job[p].todo
    BY DEF RefundTip
  <2>2. i \in BeingRefunded(p) /\ i \notin CreditedBy(p) /\ CreditedBy(p) = job[p].credited
    BY <2>1 DEF BeingRefunded, CreditedBy, LInv, RInv, TipsHeld
  <2>3. Reverting(p, job[p].todo \ {i}, job[p].credited \cup {i})
    BY DEF RefundTip
  <2> QED
    BY <2>1, <2>2, <2>3, RevertingHolds DEF LInv, RInv
<1>3. /\ balance'[o] = balance[o] - v
      /\ \A u \in Users \ {o} : balance'[u] = balance[u]
  BY <1>1 DEF LInv, RInv, IInv, TypeOK, RefundTip
<1>4. UNCHANGED <<records, goal, faults>>
  BY DEF RefundTip
<1>5. RecordsKept /\ Ids' = Ids /\ CountsKept
  BY <1>2, <1>4, SameCounts
<1>6. \A q \in Procs : CreditedBy(q)' = IF q = p THEN CreditedBy(q) \cup {i} ELSE CreditedBy(q)
  BY <1>2 DEF CreditedBy
<1>7. \A u : OwnedBy(u)' = OwnedBy(u)
  BY <1>4, <1>5 DEF OwnedBy
<1>8. \A u : i \notin Credited(u)
  BY <1>2, CreditedOnce DEF Credited, LInv
<1>9. \A u : i \in OwnedBy(u) <=> u = o
  BY <1>1 DEF OwnedBy
<1>10. records'[i].sum = v
  BY <1>4
<1> HIDE DEF o, v
<1>11. \A u : Credited(u)' = Credited(u) \cup (IF u = o THEN {i} ELSE {})
  BY <1>6, <1>7, <1>9 DEF Credited
<1>12. \A u : IF u = o THEN Plus(Refunding(u), i, v, Refunding(u)')
                       ELSE SameSums(Refunding(u), Refunding(u)')
  BY <1>4, <1>8, <1>10, <1>11 DEF Refunding, Plus, SameSums
<1>13. ASSUME NEW u \in Users, Reconciled(u)
       PROVE  Reconciled(u)'
  <2>1. /\ Total(Owned(u)') = Total(Owned(u))
        /\ Total(PaidTwice(u)') = Total(PaidTwice(u))
        /\ Total(Creating(u)') = Total(Creating(u))
    BY <1>2, <1>5, OwnedSame, CountedSame, CreatingSame, SumsSummable, SameTotal
       DEF LInv
  <2>2. /\ Summable(Refunding(u))
        /\ Total(Owned(u)) \in Int /\ Total(PaidTwice(u)) \in Int
        /\ Total(Refunding(u)) \in Int /\ Total(Creating(u)) \in Int
        /\ InitBalance \in Int
    BY SumsSummable, SummableTotal, SumsAssumption DEF LInv
  <2>3. Total(Refunding(u)') = Total(Refunding(u)) + (IF u = o THEN v ELSE 0)
    <3>1. CASE u = o
      BY <1>1, <1>12, <2>2, <3>1, PlusTotal
    <3>2. CASE u # o
      BY <1>12, <2>2, <3>2, SameTotal
    <3> QED
      BY <3>1, <3>2
  <2>4. balance[u] \in Int /\ balance'[u] = balance[u] - (IF u = o THEN v ELSE 0)
    BY <1>3 DEF LInv, RInv, IInv, TypeOK
  <2> QED
    BY <1>1, <1>13, <2>1, <2>2, <2>3, <2>4 DEF Reconciled
<1>14. LedgerReconciles'
  BY <1>4, <1>13, LedgerThen
<1>15. GoalFundedByTips'
  BY <1>4, <1>5, FundingStays, BoundsAssumption
     DEF AmountsKept, LInv, RInv, IInv, TypeOK
<1> QED
  BY <1>14, <1>15 DEF LInv

LEMMA RecordRefundSums ==
  ASSUME LInv, RInv', MarksInv', NEW p \in Procs, NEW i \in Ids, RecordRefund(p, i)
  PROVE  LInv'
<1> DEFINE o == records[i].owner
           v == records[i].sum
           e == NewEntry(o, "Reverting", -v, i)
<1>1. /\ o \in Users /\ v \in Int
      /\ e \in Entry /\ ~e.processed /\ e.owner = o /\ e.sum = -v
  <2>1. records[i] \in Entry /\ o \in Users /\ i \in Nat
    BY IdsAreNumbers DEF LInv, RInv, IInv, TypeOK, RecordsSigned, Ids
  <2>2. v \in Int
    BY <2>1 DEF Entry
  <2> QED
    BY <2>1, <2>2 DEF NewEntry, Entry, Types
<1>2. /\ i \in BeingRefunded(p) /\ i \in CreditedBy(p)
      /\ CreditedBy(p)' = CreditedBy(p) \ {i}
      /\ \A q \in Procs \ {p} : job'[q] = job[q]
      /\ NoMarking /\ CreatorsKept
  <2>1. job[p].pc = "revert" /\ i \in job[p].credited
    BY DEF RecordRefund
  <2>2. i \in BeingRefunded(p) /\ CreditedBy(p) = job[p].credited
    BY <2>1 DEF BeingRefunded, CreditedBy
  <2>3. Reverting(p, job[p].todo, job[p].credited \ {i})
    BY DEF RecordRefund
  <2> QED
    BY <2>1, <2>2, <2>3, RevertingHolds DEF LInv, RInv
<1>3. StoreAndEmit(e) /\ UNCHANGED <<balance, goal, faults>>
  BY DEF RecordRefund
<1>4. \A u : i \in OwnedBy(u) <=> u = o
  BY DEF OwnedBy
<1>5. records[i].sum = v
  OBVIOUS
<1> HIDE DEF o, v, e
<1>6. RecordsKept /\ CountsKept
  BY <1>1, <1>2, <1>3, AddedCounts DEF LInv, RInv
<1>7. \A q \in Procs : CreditedBy(q)' = IF q = p THEN CreditedBy(q) \ {i} ELSE CreditedBy(q)
  BY <1>2 DEF CreditedBy
<1>8. \A q \in Procs : i \in CreditedBy(q) => q = p
  BY <1>2, CreditedOnce DEF LInv
<1>9. \A q \in Procs : CreditedBy(q) \subseteq Ids
  BY DEF LInv, RInv, TipsHeld, BeingRefunded, CreditedBy
<1>10. \A u : \A k \in Ids : k \in OwnedBy(u)' <=> k \in OwnedBy(u)
  BY <1>6 DEF OwnedBy, RecordsKept
<1>11. \A u : /\ Credited(u) = Credited(u)' \cup (IF u = o THEN {i} ELSE {})
              /\ i \notin Credited(u)'
              /\ Credited(u) \subseteq Ids /\ Credited(u)' \subseteq Ids
  <2>1. ASSUME NEW u
        PROVE  Credited(u)' = Credited(u) \ {i}
    BY <1>7, <1>8, <1>9, <1>10 DEF Credited, OwnedBy
  <2>2. \A u : i \in Credited(u) <=> u = o
    BY <1>2, <1>4 DEF Credited
  <2>3. \A u : Credited(u) \subseteq Ids
    BY DEF Credited, OwnedBy
  <2> QED
    BY <2>1, <2>2, <2>3
<1>12. \A u : IF u = o THEN Plus(Refunding(u)', i, v, Refunding(u))
                       ELSE SameSums(Refunding(u), Refunding(u)')
  <2>1. \A k \in Ids : records'[k].sum = records[k].sum
    BY <1>6 DEF RecordsKept
  <2> QED
    BY <1>5, <1>11, <2>1 DEF Refunding, Plus, SameSums
<1>13. ASSUME NEW u \in Users, Reconciled(u)
       PROVE  Reconciled(u)'
  <2>1. /\ Total(PaidTwice(u)') = Total(PaidTwice(u))
        /\ Total(Creating(u)') = Total(Creating(u))
    BY <1>2, <1>6, CountedSame, CreatingSame, SumsSummable, SameTotal DEF LInv
  <2>2. /\ Summable(Owned(u)) /\ Summable(Refunding(u))
        /\ Total(Owned(u)) \in Int /\ Total(PaidTwice(u)) \in Int
        /\ Total(Refunding(u)) \in Int /\ Total(Creating(u)) \in Int
        /\ InitBalance \in Int
    BY SumsSummable, SummableTotal, SumsAssumption DEF LInv
  <2>3. Total(Owned(u)') = Total(Owned(u)) - (IF u = o THEN v ELSE 0)
    <3>1. IF u = o THEN Plus(Owned(u), Len(records) + 1, -v, Owned(u)')
                   ELSE SameSums(Owned(u), Owned(u)')
      <4>1. IF u = e.owner THEN Plus(Owned(u), Len(records) + 1, e.sum, Owned(u)')
                           ELSE SameSums(Owned(u), Owned(u)')
        BY <1>1, <1>3, OwnedGrows DEF LInv, RInv
      <4> QED
        BY <1>1, <4>1
    <3>2. CASE u = o
      BY <1>1, <2>2, <3>1, <3>2, PlusTotal
    <3>3. CASE u # o
      BY <2>2, <3>1, <3>3, SameTotal
    <3> QED
      BY <3>2, <3>3
  <2>4. Total(Refunding(u)') = Total(Refunding(u)) - (IF u = o THEN v ELSE 0)
    <3>1. CASE u = o
      BY <1>12, <2>2, <3>1, MinusTotal
    <3>2. CASE u # o
      BY <1>12, <2>2, <3>2, SameTotal
    <3> QED
      BY <3>1, <3>2
  <2> QED
    BY <1>1, <1>3, <1>13, <2>1, <2>2, <2>3, <2>4 DEF Reconciled
<1>14. LedgerReconciles'
  BY <1>3, <1>13, LedgerThen
<1>15. GoalFundedByTips'
  BY <1>3, <1>6, FundingStays, BoundsAssumption
     DEF AmountsKept, LInv, RInv, IInv, TypeOK
<1> QED
  BY <1>14, <1>15 DEF LInv

(* A tip is received: its goal has it from now on.                         *)
LEMMA TakeTipSums ==
  ASSUME LInv, RInv', MarksInv', NEW p \in Procs, NEW i \in accepted, TakeTip(p, i)
  PROVE  LInv'
<1> DEFINE g == records[i].ref
           v == records[i].sum
<1>1. i \in Ids /\ g \in Goals /\ v \in Int /\ IsTip(i) /\ ~Counted(i)
  <2>1. i \in Ids /\ records[i] \in Entry /\ IsTip(i)
    BY DEF LInv, RInv, IInv, TypeOK, Ids, TakeTip
  <2>2. ~Counted(i)
    BY DEF LInv, MarksInv, MarksOnce, Marks, Counted, Marking
  <2> QED
    BY <2>1, <2>2, TipsAreTyped DEF Entry, LInv, RInv
<1>2. /\ Idle(p) /\ job'[p].pc = "markTip" /\ job'[p].id = i
      /\ \A q \in Procs \ {p} : job'[q] = job[q]
  BY DEF LInv, RInv, IInv, TypeOK, TakeTip, Receive, Become
<1>3. /\ goal'[g].current = goal[g].current - v
      /\ \A h \in Goals \ {g} : goal'[h] = goal[h]
      /\ \A h \in Goals : goal[h].current \in Int
  BY <1>1 DEF LInv, RInv, IInv, TypeOK, TakeTip
<1>4. UNCHANGED <<records, balance, faults>>
  BY DEF TakeTip
<1>5. RecordsKept /\ Ids' = Ids
  BY <1>4 DEF RecordsKept, Ids
<1>6. CreatorsKept /\ CreditsKept
  BY <1>2 DEF CreatorsKept, CreditsKept, CreditedBy, Idle
<1>7. \A k \in Ids : Counted(k)' <=> Counted(k) \/ k = i
  <2>1. \A k : Marking(k)' <=> Marking(k) \/ k = i
    BY <1>2 DEF Marking, Idle
  <2> QED
    BY <2>1, <1>4 DEF Counted
<1>8. LedgerReconciles'
  <2>1. \A u : Paid(u)' = Paid(u)
    BY <1>1, <1>4, <1>5, <1>7 DEF Paid, OwnedBy, IsPayout, IsTip
  <2>2. \A u : PaidTwice(u)' = PaidTwice(u)
    BY <1>4, <2>1 DEF PaidTwice
  <2>3. \A u : /\ Total(Owned(u)') = Total(Owned(u))
               /\ Total(Creating(u)') = Total(Creating(u))
               /\ Total(Refunding(u)') = Total(Refunding(u))
    BY <1>5, <1>6, OwnedSame, CreatingSame, RefundingSame, SumsSummable, SameTotal
       DEF LInv
  <2>4. \A u : Reconciled(u) => Reconciled(u)'
    BY <1>4, <2>2, <2>3 DEF Reconciled
  <2> QED
    BY <1>4, <2>4, LedgerThen
<1>9. \A h : CountedTips(h)' = CountedTips(h) \cup (IF h = g THEN {i} ELSE {})
  BY <1>1, <1>4, <1>5, <1>7 DEF CountedTips, IsTip
<1>10. \A h : i \notin CountedTips(h)
  BY <1>1 DEF CountedTips
<1>11. records'[i].sum = v
  BY <1>4
<1> HIDE DEF g, v
<1>12. \A h : IF h = g THEN Plus(TipsOf(h), i, v, TipsOf(h)')
                       ELSE SameSums(TipsOf(h), TipsOf(h)')
  BY <1>4, <1>9, <1>10, <1>11 DEF TipsOf, Plus, SameSums
<1>13. ASSUME NEW h \in Goals, Funded(h)
       PROVE  Funded(h)'
  <2>1. Summable(TipsOf(h)) /\ Total(TipsOf(h)) \in Int
    BY SumsSummable, SummableTotal DEF LInv
  <2>2. CASE h = g
    <3>1. Total(TipsOf(h)') = Total(TipsOf(h)) + v
      BY <1>1, <1>12, <2>1, <2>2, PlusTotal
    <3>2. goal'[h].current = goal[h].current - v /\ goal[h].current \in Int
      BY <1>3, <2>2
    <3> QED
      BY <1>1, <1>4, <1>13, <2>1, <3>1, <3>2 DEF Funded
  <2>3. CASE h # g
    <3>1. Total(TipsOf(h)') = Total(TipsOf(h))
      BY <1>12, <2>1, <2>3, SameTotal
    <3> QED
      BY <1>3, <1>4, <1>13, <2>3, <3>1 DEF Funded
  <2> QED
    BY <2>2, <2>3
<1>14. AllFunded'
  BY <1>13, FundedIs DEF LInv, AllFunded
<1>15. GoalFundedByTips'
  BY <1>14, FundedIs, PTL
<1> QED
  BY <1>8, <1>15 DEF LInv

(* A fault ends the handler of a tip: the goal keeps the amount, the tip   *)
(* is no longer counted.                                                   *)
LEMMA AbortFunds ==
  ASSUME LInv, NEW p \in Procs, AbortJob(p)
  PROVE  GoalFundedByTips'
<1> DEFINE i == job[p].id
<1>1. /\ job'[p] = IdleJob /\ \A q \in Procs \ {p} : job'[q] = job[q]
      /\ UNCHANGED <<records, goal>>
      /\ faults' # 0
  BY BoundsAssumption DEF LInv, RInv, IInv, TypeOK, AbortJob, Fault, Finish, Become
<1>2. \A k : /\ Marking(k)' => Marking(k)
             /\ Marking(k) => Marking(k)' \/ (job[p].pc \in {"mark", "markTip"} /\ k = i)
  BY <1>1 DEF Marking, IdleJob
<1>3. ASSUME NEW g \in Goals
      PROVE  CountedTips(g)' \in {CountedTips(g), CountedTips(g) \ {i}}
  BY <1>1, <1>2 DEF CountedTips, Counted, IsTip, Ids
<1>4. ASSUME NEW g \in Goals
      PROVE  Funded(g)'
  <2>1. Summable(TipsOf(g)) /\ Total(TipsOf(g)) \in Int /\ goal[g].current \in Int
    BY SumsSummable, SummableTotal DEF LInv, RInv, IInv, TypeOK
  <2>2. goal[g].current >= -Total(TipsOf(g))
    BY FundedIs DEF LInv, AllFunded, Funded
  <2>3. CASE CountedTips(g)' = CountedTips(g)
    <3>1. TipsOf(g)' = TipsOf(g)
      BY <1>1, <2>3 DEF TipsOf
    <3> QED
      BY <1>1, <2>2, <3>1 DEF Funded
  <2>4. CASE i \in CountedTips(g) /\ CountedTips(g)' = CountedTips(g) \ {i}
    <3>1. Plus(TipsOf(g)', i, records[i].sum, TipsOf(g))
      BY <1>1, <2>4 DEF TipsOf, Plus
    <3>2. Total(TipsOf(g)') = Total(TipsOf(g)) - records[i].sum
      BY <2>1, <3>1, MinusTotal
    <3>3. records[i].sum \in Int /\ records[i].sum < 0
      <4>1. records[i] \in Entry /\ Signed(records[i]) /\ IsTip(i)
        BY <2>4 DEF CountedTips, LInv, RInv, IInv, TypeOK, RecordsSigned, Ids
      <4> QED
        BY <4>1 DEF Entry, Signed, IsTip
    <3> QED
      BY <1>1, <2>1, <2>2, <3>2, <3>3 DEF Funded
  <2> QED
    BY <1>3, <2>3, <2>4
<1>5. AllFunded'
  BY <1>4 DEF AllFunded
<1> QED
  BY <1>5, FundedIs, PTL

LEMMA BreakSums ==
  ASSUME LInv, RInv', MarksInv', Break
  PROVE  LInv'
<1>1. faults' # 0 /\ faults' \in Nat
  BY BoundsAssumption
     DEF Break, AbortJob, LoseAccepted, LoseCompleted, Fault, LInv, RInv, IInv, TypeOK
<1>2. LedgerReconciles'
  BY <1>1, LedgerThen
<1>3. CASE UNCHANGED <<records, goal, job>>
  <2>1. RecordsKept /\ CountsKept
    BY <1>3, NoHandler
  <2>2. GoalFundedByTips'
    BY <1>1, <1>3, <2>1, FundingStays DEF AmountsKept
  <2> QED
    BY <1>2, <2>2 DEF LInv
<1> QED
  BY <1>2, <1>3, AbortFunds DEF Break, LoseAccepted, LoseCompleted, LInv

-----------------------------------------------------------------------------
LEMMA InitLedger == Init => LInv
<1> SUFFICES ASSUME Init PROVE LInv
  OBVIOUS
<1>1. RInv /\ MarksInv
  BY InitRefunds, InitMarks
<1>2. Ids = {}
  BY DEF Init, Ids
<1>3. ASSUME NEW u \in Users
      PROVE  Reconciled(u)
  <2>1. /\ DOMAIN Owned(u) = {} /\ DOMAIN PaidTwice(u) = {}
        /\ DOMAIN Creating(u) = {} /\ DOMAIN Refunding(u) = {}
    BY <1>2 DEF Owned, OwnedBy, PaidTwice, Paid, Creating, Creators, Refunding,
                Credited, Init, IdleJob
  <2>2. /\ Total(Owned(u)) = 0 /\ Total(PaidTwice(u)) = 0
        /\ Total(Creating(u)) = 0 /\ Total(Refunding(u)) = 0
    BY <2>1, TotalOfNothing
  <2>3. balance[u] = InitBalance /\ InitBalance \in Int
    BY SumsAssumption DEF Init
  <2> QED
    BY <2>2, <2>3 DEF Reconciled
<1>4. ASSUME NEW g \in Goals
      PROVE  Funded(g)
  <2>1. DOMAIN TipsOf(g) = {}
    BY <1>2 DEF TipsOf, CountedTips
  <2>2. Total(TipsOf(g)) = 0
    BY <2>1, TotalOfNothing
  <2>3. goal[g] \in [state : {"active"}, current : {0}, target : Targets]
    BY DEF Init
  <2>4. goal[g].current = 0
    BY <2>3
  <2>5. \A m, n \in Int : m + n = 0 => m = -n /\ m >= -n
    OBVIOUS
  <2>6. goal[g].current + Total(TipsOf(g)) = 0
    BY <2>2, <2>4
  <2>7. goal[g].current \in Int /\ Total(TipsOf(g)) \in Int
    BY <2>2, <2>4
  <2> QED
    BY <2>5, <2>6, <2>7 DEF Funded
<1>5. LedgerReconciles
  BY <1>1, <1>3, LedgerIs DEF AllReconciled
<1>6. GoalFundedByTips
  BY <1>4, FundedIs DEF AllFunded
<1> QED
  BY <1>1, <1>5, <1>6 DEF LInv

LEMMA OtherSums ==
  ASSUME LInv, RInv', MarksInv', NEW p \in Procs,
         \/ SaveStop(p) \/ RefuseRecord(p) \/ ReachGoal(p) \/ FindTips(p)
         \/ \E i \in accepted : TakePurchase(p, i)
         \/ \E s \in completed, g \in Goals : ExpireGoal(p, s, g)
  PROVE  LInv'
<1> USE DEF Finish, IdleJob
<1>1. UNCHANGED <<records, balance, faults>>
  BY DEF SaveStop, RefuseRecord, ReachGoal, FindTips, TakePurchase, ExpireGoal
<1>2. HoldsNoSum(job[p])
  BY IdleHoldsNoSum
     DEF SaveStop, RefuseRecord, ReachGoal, FindTips, TakePurchase, Receive,
         ExpireGoal, HoldsNoSum
<1>3. \E j : Become(p, j) /\ HoldsNoSum(j)
  <2>1. FindTips(p) => \E j : Become(p, j) /\ HoldsNoSum(j)
    BY DEF FindTips, Reverting, HoldsNoSum
  <2>2. ReachGoal(p) => \E j : Become(p, j) /\ HoldsNoSum(j)
    BY DEF ReachGoal, ProcessRecord, HoldsNoSum
  <2>3. SaveStop(p) \/ RefuseRecord(p) => \E j : Become(p, j) /\ HoldsNoSum(j)
    BY DEF SaveStop, RefuseRecord, HoldsNoSum
  <2>4. ASSUME NEW i \in accepted, TakePurchase(p, i)
        PROVE  \E j : Become(p, j) /\ HoldsNoSum(j)
    BY <2>4 DEF TakePurchase, HoldsNoSum
  <2>5. ASSUME NEW s \in completed, NEW g \in Goals, ExpireGoal(p, s, g)
        PROVE  \E j : Become(p, j) /\ HoldsNoSum(j)
    BY <2>5 DEF ExpireGoal, HoldsNoSum
  <2> QED
    BY <2>1, <2>2, <2>3, <2>4, <2>5
<1>4. AmountsKept
  <2>1. IInv
    BY DEF LInv, RInv
  <2>2. ReachGoal(p) => AmountsKept
    <3>1. job[p].pc = "reach" => job[p].goal \in Goals
      BY <2>1, JobShape DEF IInv, TypeOK
    <3> QED
      BY <2>1, <3>1, StatesKeepAmounts DEF ReachGoal, AmountsKept
  <2>3. ASSUME NEW s \in completed, NEW g \in Goals, ExpireGoal(p, s, g)
        PROVE  AmountsKept
    BY <2>1, <2>3, StatesKeepAmounts DEF ExpireGoal
  <2> QED
    BY <2>2, <2>3 DEF SaveStop, RefuseRecord, FindTips, TakePurchase, AmountsKept
<1> QED
  BY <1>1, <1>2, <1>3, <1>4, OtherWork, SumsStay DEF LInv, RInv

LEMMA NextSums ==
  ASSUME LInv, RInv', MarksInv', [Next]_vars
  PROVE  LInv'
<1>1. ASSUME NEW p \in Procs, Handle(p) PROVE LInv'
  <2>1. ASSUME UNCHANGED <<records, balance, goal, job, faults>> PROVE LInv'
    BY <2>1, NoHandler, SumsStay DEF AmountsKept
  <2> QED
    BY <1>1, <2>1, TakeTipSums, TakePayoutSums, OtherSums
       DEF Handle, SkipTip, IgnoreAccepted, NothingToExpire
<1>2. ASSUME NEW p \in Procs, Continue(p) PROVE LInv'
  BY <1>2, MoveSums, CreateSums, MarkSums, RefundSums, RecordRefundSums, OtherSums
     DEF Continue
<1>3. CASE UNCHANGED vars
  BY <1>3, NoHandler, SumsStay DEF vars, AmountsKept
<1> QED
  BY <1>1, <1>2, <1>3, RequestSums, AdministerSums, BreakSums DEF Next

LEMMA NextLedger == LInv /\ [Next]_vars => LInv'
<1> SUFFICES ASSUME LInv, [Next]_vars PROVE LInv'
  OBVIOUS
<1>1. RInv'
  BY NextRefunds DEF LInv
<1>2. MarksInv'
  BY NextMarks DEF LInv, RInv
<1> QED
  BY <1>1, <1>2, NextSums

LEMMA SpecLedger == Spec => []LInv
  BY InitLedger, NextLedger, PTL DEF Spec

(* While nothing failed, the balance of every user is the initial one plus *)
(* the sums of the records of that user, plus once more the sum of every   *)
(* payout handled, plus what is moved and not yet recorded                 *)
(* (payment.service.ts:23, payment.molecule.ts:33).                        *)
THEOREM LedgerReconcilesAlways == Spec => []LedgerReconciles
<1>1. LInv => LedgerReconciles
  BY DEF LInv
<1> QED
  BY <1>1, SpecLedger, PTL

(* The amount of a goal is at least the sum of its counted tips, whatever  *)
(* fails, and exactly that sum while nothing does                          *)
(* (payment.molecule.ts:40-55).                                            *)
THEOREM GoalFundedByTipsAlways == Spec => []GoalFundedByTips
<1>1. LInv => GoalFundedByTips
  BY DEF LInv
<1> QED
  BY <1>1, SpecLedger, PTL

(* What was paid for is there, whatever interleaves or fails: the amounts  *)
(* of goals are made of tips, purchases that are over have unlocked their  *)
(* contents (payment.molecule.ts:40-75).                                   *)
THEOREM EffectsBackedAlways == Spec => []EffectsBacked
<1>1. GoalFundedByTips /\ PurchasesBacked => EffectsBacked
  BY DEF EffectsBacked
<1> QED
  BY <1>1, GoalFundedByTipsAlways, PurchasesBackedAlways, PTL
=============================================================================
