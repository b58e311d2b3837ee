-------------------------- MODULE LiveStreamsProofs ---------------------------
(***************************************************************************)
(* Proofs about live streams and their goals: for any streams, goals,      *)
(* processes, hours and faults.  As in the run, requests about one stream  *)
(* come one at a time (~Overlap); that subscribers are told once also      *)
(* needs a single node that ticks (OneNode).                               *)
(***************************************************************************)
EXTENDS LiveStreamsProperties, TLAPS

OneNode == \A m, n \in Nodes : m = n

-----------------------------------------------------------------------------
(* Types                                                                   *)

(* A request that schedules a stream holds a time, and not the unset one.  *)
TypedInv ==
  /\ TypeOK
  /\ \A p \in Procs :
       At(p, "save") /\ job[p].to = "scheduled" => job[p].at # 0

LEMMA InitTyped == Init => TypedInv
BY StreamBoundsAssumption
   DEF Init, TypedInv, TypeOK, StreamStates, Stored, GoalStates, Job, IdleJob, At

LEMMA RequestFields ==
  ASSUME TypeOK, NEW p \in Procs, InRequest(p)
  PROVE  job[p] \in Request
BY DEF TypeOK, InRequest, Job, IdleJob, CronJob

LEMMA FetchFields ==
  ASSUME TypeOK, NEW p \in Procs, At(p, "fetch")
  PROVE  job[p].at \in 0 .. MaxClock
BY DEF TypeOK, At, Job, IdleJob, CronJob, Request

LEMMA AnnounceFields ==
  ASSUME TypeOK, NEW p \in Procs, At(p, "announce")
  PROVE  job[p] = [pc |-> "announce", streams |-> job[p].streams]
         /\ job[p].streams \subseteq Streams
BY DEF TypeOK, At, Job, IdleJob, CronJob, Request

(* What a process becomes is a process.                                    *)
LEMMA BecomeTyped ==
  ASSUME TypedInv, NEW p \in Procs, NEW j \in Job, Become(p, j),
         j.pc = "save" /\ j.to = "scheduled" => j.at # 0
  PROVE  /\ job' \in [Procs -> Job]
         /\ \A q \in Procs :
              At(q, "save")' /\ job'[q].to = "scheduled" => job'[q].at # 0
BY DEF TypedInv, TypeOK, Become, At

LEMMA FinishTyped ==
  ASSUME TypedInv, NEW p \in Procs, Finish(p)
  PROVE  /\ job' \in [Procs -> Job]
         /\ \A q \in Procs :
              At(q, "save")' /\ job'[q].to = "scheduled" => job'[q].at # 0
<1>1. IdleJob \in Job /\ IdleJob.pc # "save"
  BY DEF Job, IdleJob
<1> QED
  BY <1>1, BecomeTyped DEF Finish

LEMMA AdvanceTyped ==
  ASSUME TypedInv, NEW p \in Procs, NEW pc \in {"tell", "insertGoal"},
         InRequest(p), Advance(p, pc)
  PROVE  /\ job' \in [Procs -> Job]
         /\ \A q \in Procs :
              At(q, "save")' /\ job'[q].to = "scheduled" => job'[q].at # 0
<1>1. job[p] \in Request
  BY RequestFields DEF TypedInv
<1>2. [job[p] EXCEPT !.pc = pc] \in Request
  BY <1>1 DEF Request
<1>3. [job[p] EXCEPT !.pc = pc] \in Job /\ [job[p] EXCEPT !.pc = pc].pc # "save"
  BY <1>1, <1>2 DEF Job, Request
<1> QED
  BY <1>3, BecomeTyped DEF Advance

LEMMA EnterTyped ==
  ASSUME TypedInv, NEW p \in Procs, NEW pc \in {"insert", "save", "findOther"},
         NEW s \in Streams, NEW g \in Goals \cup {None}, NEW to \in Stored,
         NEW at \in 0 .. MaxClock, Enter(p, pc, s, g, to, at),
         pc = "save" /\ to = "scheduled" => at # 0
  PROVE  /\ job' \in [Procs -> Job]
         /\ \A q \in Procs :
              At(q, "save")' /\ job'[q].to = "scheduled" => job'[q].at # 0
<1> DEFINE j == [pc |-> pc, stream |-> s, goal |-> g, to |-> to, at |-> at]
<1>1. j \in Job
  BY DEF Job, Request
<1>2. j.pc = pc /\ j.to = to /\ j.at = at
  OBVIOUS
<1>3. Become(p, j)
  BY DEF Enter
<1> HIDE DEF j
<1> QED
  BY <1>1, <1>2, <1>3, BecomeTyped

LEMMA BeginTyped ==
  ASSUME TypedInv, NEW p \in Procs, Begin(p)
  PROVE  TypedInv'
<1> USE DEF StreamStates, Stored, GoalStates
<1>1. ASSUME NEW s \in Streams, CreateChat(p, s) PROVE TypedInv'
  <2>1. /\ job' \in [Procs -> Job]
        /\ \A q \in Procs :
             At(q, "save")' /\ job'[q].to = "scheduled" => job'[q].at # 0
    BY <1>1, EnterTyped, StreamBoundsAssumption DEF CreateChat
  <2> QED
    BY <1>1, <2>1 DEF CreateChat, cron, TypedInv, TypeOK
<1>2. ASSUME NEW s \in Streams, NEW to \in Stored, ReadStream(p, s, to)
      PROVE  TypedInv'
  <2>1. PICK at \in 0 .. MaxClock :
          /\ IF to = "scheduled" THEN FarEnough(at) ELSE at = 0
          /\ Enter(p, "save", s, None, to, at)
    BY <1>2 DEF ReadStream
  <2>2. to = "scheduled" => at # 0
    BY <2>1 DEF FarEnough, TypedInv, TypeOK
  <2>3. /\ job' \in [Procs -> Job]
        /\ \A q \in Procs :
             At(q, "save")' /\ job'[q].to = "scheduled" => job'[q].at # 0
    BY <2>1, <2>2, EnterTyped
  <2> QED
    BY <1>2, <2>3 DEF ReadStream, stream, cron, TypedInv, TypeOK
<1>3. ASSUME NEW g \in Goals, ReadStreamOfGoal(p, g) PROVE TypedInv'
  <2>1. StreamOf[g] \in Streams
    BY StreamOfAssumption
  <2>2. /\ job' \in [Procs -> Job]
        /\ \A q \in Procs :
             At(q, "save")' /\ job'[q].to = "scheduled" => job'[q].at # 0
    BY <1>3, <2>1, EnterTyped, StreamBoundsAssumption DEF ReadStreamOfGoal
  <2> QED
    BY <1>3, <2>2 DEF ReadStreamOfGoal, stream, cron, TypedInv, TypeOK
<1> QED
  BY <1>1, <1>2, <1>3 DEF Begin

LEMMA SaveStreamTyped ==
  ASSUME TypedInv, NEW p \in Procs, SaveStream(p)
  PROVE  TypedInv'
<1>1. job[p] \in Request
  BY RequestFields DEF SaveStream, At, InRequest, TypedInv
<1>2. /\ job' \in [Procs -> Job]
      /\ \A q \in Procs :
           At(q, "save")' /\ job'[q].to = "scheduled" => job'[q].at # 0
  BY FinishTyped, AdvanceTyped DEF SaveStream, At, InRequest
<1>3. job[p].to = "scheduled" => job[p].at # 0
  BY DEF SaveStream, TypedInv
<1> QED
  BY <1>1, <1>2, <1>3
     DEF SaveStream, Request, StreamStates, Stored, cron, TypedInv, TypeOK

LEMMA AnnounceTyped ==
  ASSUME TypedInv, NEW p \in Procs, NEW s \in Streams, Announce(p, s)
  PROVE  TypedInv'
<1> DEFINE j == [job[p] EXCEPT !.streams = @ \ {s}]
<1>1. j \in Job /\ j.pc # "save"
  <2>1. job[p] = [pc |-> "announce", streams |-> job[p].streams]
        /\ job[p].streams \subseteq Streams
    BY AnnounceFields DEF Announce, TypedInv
  <2>2. j = [pc |-> "announce", streams |-> job[p].streams \ {s}]
    BY <2>1
  <2> HIDE DEF j
  <2> QED
    BY <2>1, <2>2 DEF Job, CronJob
<1>2. /\ job' \in [Procs -> Job]
      /\ \A q \in Procs :
           At(q, "save")' /\ job'[q].to = "scheduled" => job'[q].at # 0
  <2>1. CASE job[p].streams = {s}
    BY <2>1, FinishTyped DEF Announce, Finish
  <2>2. CASE job[p].streams # {s}
    <3>1. Become(p, j)
      BY <2>2 DEF Announce
    <3> HIDE DEF j
    <3> QED
      BY <1>1, <3>1, BecomeTyped
  <2> QED
    BY <2>1, <2>2
<1> QED
  BY <1>2 DEF Announce, stream, TypedInv, TypeOK

LEMMA ContinueTyped ==
  ASSUME TypedInv, NEW p \in Procs, Continue(p)
  PROVE  TypedInv'
<1>1. CASE InsertStream(p)
  <2>1. job[p] \in Request
    BY <1>1, RequestFields DEF InsertStream, At, InRequest, TypedInv
  <2>2. /\ job' \in [Procs -> Job]
        /\ \A q \in Procs :
             At(q, "save")' /\ job'[q].to = "scheduled" => job'[q].at # 0
    BY <1>1, FinishTyped DEF InsertStream
  <2> QED
    BY <1>1, <2>1, <2>2
       DEF InsertStream, Request, StreamStates, Stored, cron, TypedInv, TypeOK
<1>2. CASE SaveStream(p)
  BY <1>2, SaveStreamTyped
<1>3. CASE SaveFails(p)
  BY <1>3, FinishTyped DEF SaveFails, stream, cron, TypedInv, TypeOK
<1>4. CASE Tell(p)
  <2>1. job[p] \in Request
    BY <1>4, RequestFields DEF Tell, At, InRequest, TypedInv
  <2>2. <<job[p].stream, job[p].to>> \in Streams \X Stored
    BY <2>1 DEF Request
  <2> QED
    BY <1>4, <2>2, FinishTyped DEF Tell, cron, TypedInv, TypeOK
<1>5. CASE Fetch(p)
  <2> DEFINE found == {s \in Streams : state[s] \in Stored /\ claimed[s] = job[p].at}
             j == [pc |-> "announce", streams |-> found]
  <2>1. j \in Job /\ j.pc # "save"
    BY DEF Job, CronJob
  <2>2. Become(p, j) \/ Finish(p)
    BY <1>5 DEF Fetch, Finish
  <2> HIDE DEF j
  <2>3. /\ job' \in [Procs -> Job]
        /\ \A q \in Procs :
             At(q, "save")' /\ job'[q].to = "scheduled" => job'[q].at # 0
    BY <2>1, <2>2, BecomeTyped, FinishTyped
  <2> QED
    BY <1>5, <2>3 DEF Fetch, stream, cron, TypedInv, TypeOK
<1>6. CASE \E s \in Streams : Announce(p, s)
  BY <1>6, AnnounceTyped
<1>7. CASE FindOther(p)
  <2>1. /\ job' \in [Procs -> Job]
        /\ \A q \in Procs :
             At(q, "save")' /\ job'[q].to = "scheduled" => job'[q].at # 0
    BY <1>7, FinishTyped, AdvanceTyped DEF FindOther, At, InRequest
  <2> QED
    BY <1>7, <2>1 DEF FindOther, stream, cron, TypedInv, TypeOK
<1>8. CASE InsertGoal(p)
  BY <1>8, FinishTyped
     DEF InsertGoal, stream, cron, TypedInv, TypeOK, GoalStates
<1> QED
  BY <1>1, <1>2, <1>3, <1>4, <1>5, <1>6, <1>7, <1>8 DEF Continue

LEMMA TickTyped ==
  ASSUME TypedInv, NEW p \in Procs, NEW n \in Nodes, Tick(p, n)
  PROVE  TypedInv'
<1> DEFINE j == [pc |-> "fetch", at |-> clock]
<1>1. j \in Job /\ j.pc # "save"
  BY DEF Job, CronJob, TypedInv, TypeOK
<1>2. Become(p, j)
  BY DEF Tick
<1> HIDE DEF j
<1>3. /\ job' \in [Procs -> Job]
      /\ \A q \in Procs :
           At(q, "save")' /\ job'[q].to = "scheduled" => job'[q].at # 0
  BY <1>1, <1>2, BecomeTyped
<1> QED
  BY <1>3 DEF Tick, Due, stream, TypedInv, TypeOK

LEMMA NextTyped == TypedInv /\ [Next]_vars => TypedInv'
<1> SUFFICES ASSUME TypedInv, [Next]_vars PROVE TypedInv'
  OBVIOUS
<1>1. ASSUME NEW p \in Procs, Begin(p) \/ Continue(p) PROVE TypedInv'
  BY <1>1, BeginTyped, ContinueTyped
<1>2. ASSUME NEW p \in Procs, AbortJob(p) PROVE TypedInv'
  BY <1>2, FinishTyped, StreamBoundsAssumption
     DEF AbortJob, stream, cron, TypedInv, TypeOK
<1>3. CASE CronTick
  BY <1>3, TickTyped DEF CronTick
<1>4. ASSUME NEW s \in Streams, RemoveStream(s) PROVE TypedInv'
  BY <1>4 DEF RemoveStream, cron, StreamStates, TypedInv, TypeOK, At
<1>5. ASSUME NEW s \in Streams, ExpireGoal(s) PROVE TypedInv'
  BY <1>5 DEF ExpireGoal, Expire, stream, cron, GoalStates, TypedInv, TypeOK, At
<1>6. ASSUME NEW s \in Streams, LoseCompleted(s) PROVE TypedInv'
  BY <1>6, StreamBoundsAssumption
     DEF LoseCompleted, stream, cron, TypedInv, TypeOK, At
<1>7. ASSUME NEW g \in Goals, ReachGoal(g) \/ RemoveGoal(g) PROVE TypedInv'
  BY <1>7 DEF ReachGoal, RemoveGoal, stream, cron, GoalStates, TypedInv, TypeOK,
              At
<1>8. CASE Elapse
  BY <1>8, StreamBoundsAssumption DEF Elapse, stream, cron, TypedInv, TypeOK, At
<1>9. CASE UNCHANGED vars
  BY <1>9 DEF vars, stream, cron, TypedInv, TypeOK, At
<1> QED
  BY <1>1, <1>2, <1>3, <1>4, <1>5, <1>6, <1>7, <1>8, <1>9 DEF Next

(* Streams, goals, notifications, ticks and processes hold values of their *)
(* types, and only a stream that was scheduled has a time of start or was  *)
(* claimed (liveStream.model.ts, liveStreams.molecule.ts:26-42).           *)
THEOREM LiveStreamsTyped == Spec => []TypeOK
<1>1. TypedInv => TypeOK
  BY DEF TypedInv
<1> QED
  BY <1>1, InitTyped, NextTyped, PTL DEF Spec

-----------------------------------------------------------------------------
(* What a request still knows when it writes, the requests about a stream  *)
(* coming one at a time: the state it read is the state it writes over,    *)
(* unless the stream was removed, and the goal it found is still the only. *)

Alone ==
  \A p, q \in Procs :
    InRequest(p) /\ InRequest(q) /\ job[p].stream = job[q].stream => p = q

NoActive(s) == \A h \in Goals : StreamOf[h] = s => goal[h] # "active"

Knows(p) ==
  LET r == job[p]
  IN /\ At(p, "insert") => state[r.stream] = "none"
     /\ At(p, "save") => \/ state[r.stream] = "removed"
                         \/ changeState(state[r.stream], r.to)
     /\ At(p, "tell") => state[r.stream] \in {r.to, "removed"}
     /\ At(p, "findOther") \/ At(p, "insertGoal")
          => r.goal \in Goals /\ StreamOf[r.goal] = r.stream
     /\ At(p, "insertGoal") => NoActive(r.stream)

UnsetUntilScheduled ==
  \A s \in Streams : state[s] \in {"none", "created"} => startsAt[s] = 0

HeardOf ==
  \A m \in told :
    \/ state[m[1]] = "removed"
    \/ state[m[1]] \in Stored /\ Rank[state[m[1]]] >= Rank[m[2]]

RequestsInv ==
  /\ Alone
  /\ \A p \in Procs : Knows(p)
  /\ UnsetUntilScheduled
  /\ HeardOf
  /\ OneActiveGoal

LEMMA InitRequestsInv == Init => RequestsInv
BY DEF Init, RequestsInv, Alone, Knows, InRequest, At, IdleJob,
       UnsetUntilScheduled, HeardOf, OneActiveGoal

LEMMA RankNat == \A x \in Stored : Rank[x] \in Nat
BY DEF Rank, Stored

(* A change of state goes forward.                                         *)
LEMMA RankRises ==
  ASSUME NEW from, NEW to, changeState(from, to)
  PROVE  from \in Stored /\ to \in Stored /\ Rank[from] < Rank[to]
BY DEF changeState, Rank, Stored

(* A step in which no request moves on, nobody is told and no goal becomes *)
(* active keeps what requests know, even if it removes a stream.           *)
Quiet ==
  /\ \A q \in Procs : job'[q] = job[q] \/ ~InRequest(q)'
  /\ \A s \in Streams : \/ state'[s] = state[s]
                        \/ state[s] \in Stored /\ state'[s] = "removed"
  /\ startsAt' = startsAt
  /\ told' = told
  /\ \A g \in Goals : goal'[g] = "active" => goal[g] = "active"

LEMMA AfterQuiet ==
  ASSUME TypedInv, RequestsInv, Quiet
  PROVE  RequestsInv'
<1>1. Alone'
  BY DEF RequestsInv, Alone, InRequest, Quiet
<1>2. ASSUME NEW q \in Procs PROVE Knows(q)'
  <2>1. CASE ~InRequest(q)'
    BY <2>1 DEF InRequest, Knows, At
  <2>2. CASE InRequest(q)'
    <3>1. job'[q] = job[q] /\ job[q] \in Request /\ Knows(q)
      BY <2>2, RequestFields DEF Quiet, InRequest, RequestsInv, TypedInv
    <3>2. job[q].stream \in Streams
      BY <3>1 DEF Request
    <3> QED
      BY <3>1, <3>2 DEF Quiet, Knows, At, NoActive, Stored
  <2> QED
    BY <2>1, <2>2
<1>3. UnsetUntilScheduled'
  BY DEF RequestsInv, UnsetUntilScheduled, Quiet
<1>4. HeardOf'
  <2>1. \A m \in told : m[1] \in Streams
    BY DEF TypedInv, TypeOK
  <2> QED
    BY <2>1 DEF RequestsInv, HeardOf, Quiet
<1>5. OneActiveGoal'
  BY DEF RequestsInv, OneActiveGoal, Quiet
<1> QED
  BY <1>1, <1>2, <1>3, <1>4, <1>5 DEF RequestsInv

(* A new request is alone with its stream, if requests do not overlap.     *)
LEMMA AfterEnter ==
  ASSUME TypedInv, RequestsInv, ~Overlap, NEW p \in Procs, NEW pc,
         NEW s \in Streams, NEW g, NEW to, NEW at, Enter(p, pc, s, g, to, at),
         UNCHANGED <<state, startsAt, told, goal>>, Knows(p)'
  PROVE  RequestsInv'
<1>1. /\ job'[p].stream = s
      /\ \A q \in Procs : q # p => job'[q] = job[q]
  BY DEF Enter, Become, TypedInv, TypeOK
<1>2. Alone'
  BY <1>1 DEF RequestsInv, Alone, Enter, Open, InRequest
<1>3. \A q \in Procs : Knows(q)'
  BY <1>1 DEF RequestsInv, Knows, At, NoActive
<1> QED
  BY <1>2, <1>3
     DEF RequestsInv, UnsetUntilScheduled, HeardOf, OneActiveGoal

LEMMA BeginRequestsInv ==
  ASSUME TypedInv, RequestsInv, ~Overlap, NEW p \in Procs, Begin(p)
  PROVE  RequestsInv'
<1> USE DEF Become, At
<1>1. ASSUME NEW s \in Streams, CreateChat(p, s) PROVE RequestsInv'
  <2>1. Knows(p)'
    BY <1>1 DEF CreateChat, Enter, Knows, TypedInv, TypeOK
  <2> QED
    BY <1>1, <2>1, AfterEnter DEF CreateChat
<1>2. ASSUME NEW s \in Streams, NEW to \in Stored, ReadStream(p, s, to)
      PROVE  RequestsInv'
  <2>1. PICK at \in 0 .. MaxClock : Enter(p, "save", s, None, to, at)
    BY <1>2 DEF ReadStream
  <2>2. Knows(p)'
    BY <1>2, <2>1 DEF ReadStream, Enter, Knows, TypedInv, TypeOK, stream
  <2> QED
    BY <1>2, <2>1, <2>2, AfterEnter DEF ReadStream, stream
<1>3. ASSUME NEW g \in Goals, ReadStreamOfGoal(p, g) PROVE RequestsInv'
  <2>1. StreamOf[g] \in Streams
    BY StreamOfAssumption
  <2>2. Knows(p)'
    BY <1>3 DEF ReadStreamOfGoal, Enter, Knows, TypedInv, TypeOK
  <2> QED
    BY <1>3, <2>1, <2>2, AfterEnter DEF ReadStreamOfGoal, stream
<1> QED
  BY <1>1, <1>2, <1>3 DEF Begin

(* A request that moves on or ends stays alone with its stream.            *)
LEMMA AloneMoves ==
  ASSUME TypedInv, Alone, NEW p \in Procs, InRequest(p),
         \/ Finish(p)
         \/ \E pc \in {"tell", "insertGoal"} : Advance(p, pc)
  PROVE  /\ Alone'
         /\ \A q \in Procs \ {p} :
              /\ job'[q] = job[q]
              /\ InRequest(q) => job[q].stream # job[p].stream
<1>1. job[p] \in Request
  BY RequestFields DEF TypedInv
<1>2. \/ job'[p] = IdleJob
      \/ job'[p].stream = job[p].stream
  BY <1>1 DEF Finish, Advance, Become, Request, TypedInv, TypeOK
<1>3. \A q \in Procs \ {p} : job'[q] = job[q]
  BY DEF Finish, Advance, Become, TypedInv, TypeOK
<1> QED
  BY <1>2, <1>3 DEF Alone, InRequest, IdleJob

(* The requests about other streams know what they knew.                   *)
LEMMA KnowsOthers ==
  ASSUME RequestsInv, TypedInv, NEW p \in Procs, NEW q \in Procs,
         job'[q] = job[q], InRequest(q) => job[q].stream # job[p].stream,
         \A s \in Streams : s # job[p].stream => state'[s] = state[s],
         \A g \in Goals : StreamOf[g] # job[p].stream => goal'[g] = goal[g]
  PROVE  Knows(q)'
<1>1. CASE ~InRequest(q)
  BY <1>1 DEF InRequest, Knows, At
<1>2. CASE InRequest(q)
  <2>1. job[q] \in Request /\ Knows(q)
    BY <1>2, RequestFields DEF RequestsInv, TypedInv
  <2>2. job[q].stream \in Streams
    BY <2>1 DEF Request
  <2> QED
    BY <1>2, <2>1, <2>2 DEF Knows, At, NoActive
<1> QED
  BY <1>1, <1>2

LEMMA InsertRequestsInv ==
  ASSUME TypedInv, RequestsInv, NEW p \in Procs, InsertStream(p)
  PROVE  RequestsInv'
<1>1. InRequest(p) /\ Finish(p) /\ At(p, "insert")
  BY DEF InsertStream, InRequest, At
<1>2. job[p] \in Request /\ job[p].stream \in Streams
  BY <1>1, RequestFields DEF TypedInv, Request
<1>3. state[job[p].stream] = "none"
  BY <1>1 DEF RequestsInv, Knows
<1>4. /\ Alone'
      /\ \A q \in Procs \ {p} :
           /\ job'[q] = job[q]
           /\ InRequest(q) => job[q].stream # job[p].stream
  BY <1>1, AloneMoves DEF RequestsInv
<1>5. ASSUME NEW q \in Procs PROVE Knows(q)'
  <2>1. CASE q = p
    BY <1>1, <2>1 DEF Finish, Become, Knows, At, IdleJob, TypedInv, TypeOK
  <2>2. CASE q # p
    BY <1>4, <2>2, KnowsOthers DEF InsertStream, TypedInv, TypeOK
  <2> QED
    BY <2>1, <2>2
<1>6. UnsetUntilScheduled'
  BY <1>2, <1>3 DEF InsertStream, RequestsInv, UnsetUntilScheduled, TypedInv, TypeOK
<1>7. HeardOf'
  <2>1. \A m \in told : m[1] \in Streams /\ m[1] # job[p].stream
    BY <1>3 DEF TypedInv, TypeOK, RequestsInv, HeardOf, Stored
  <2> QED
    BY <2>1 DEF InsertStream, RequestsInv, HeardOf, TypedInv, TypeOK
<1> QED
  BY <1>4, <1>5, <1>6, <1>7 DEF RequestsInv, OneActiveGoal, InsertStream

LEMMA SaveRequestsInv ==
  ASSUME TypedInv, RequestsInv, NEW p \in Procs, SaveStream(p)
  PROVE  RequestsInv'
<1> DEFINE s == job[p].stream
           to == job[p].to
<1>1. InRequest(p) /\ At(p, "save")
  BY DEF SaveStream, InRequest, At
<1>2. job[p] \in Request /\ s \in Streams /\ to \in Stored
  BY <1>1, RequestFields DEF TypedInv, Request
<1>3. changeState(state[s], to)
  BY <1>1 DEF SaveStream, RequestsInv, Knows
<1>4. Finish(p) \/ Advance(p, "tell")
  BY DEF SaveStream
<1>5. /\ Alone'
      /\ \A q \in Procs \ {p} :
           /\ job'[q] = job[q]
           /\ InRequest(q) => job[q].stream # s
  BY <1>1, <1>4, AloneMoves DEF RequestsInv
<1>6. state'[s] = to /\ \A x \in Streams \ {s} : state'[x] = state[x]
  BY <1>2 DEF SaveStream, TypedInv, TypeOK
<1>7. ASSUME NEW q \in Procs PROVE Knows(q)'
  <2>1. CASE q = p
    <3>1. CASE Finish(p)
      BY <2>1, <3>1 DEF Finish, Become, Knows, At, IdleJob, TypedInv, TypeOK
    <3>2. CASE Advance(p, "tell")
      <4>1. job'[p] = [job[p] EXCEPT !.pc = "tell"]
        BY <3>2 DEF Advance, Become, TypedInv, TypeOK
      <4>2. job'[p].pc = "tell" /\ job'[p].stream = s /\ job'[p].to = to
        BY <1>2, <4>1 DEF Request
      <4> QED
        BY <1>6, <2>1, <4>2 DEF Knows, At
    <3> QED
      BY <1>4, <3>1, <3>2
  <2>2. CASE q # p
    BY <1>5, <1>6, <2>2, KnowsOthers DEF SaveStream
  <2> QED
    BY <2>1, <2>2
<1>8. UnsetUntilScheduled'
  <2>1. to \notin {"none", "created"}
    BY <1>3 DEF changeState
  <2> QED
    BY <1>2, <1>6, <2>1
       DEF SaveStream, RequestsInv, UnsetUntilScheduled, TypedInv, TypeOK
<1>9. HeardOf'
  <2> SUFFICES ASSUME NEW m \in told
               PROVE  \/ state'[m[1]] = "removed"
                      \/ state'[m[1]] \in Stored /\ Rank[state'[m[1]]] >= Rank[m[2]]
    BY DEF HeardOf, SaveStream
  <2>1. m[1] \in Streams /\ m[2] \in Stored
    BY DEF TypedInv, TypeOK
  <2>2. \/ state[m[1]] = "removed"
        \/ state[m[1]] \in Stored /\ Rank[state[m[1]]] >= Rank[m[2]]
    BY DEF RequestsInv, HeardOf
  <2>3. CASE m[1] # s
    BY <1>6, <2>1, <2>2, <2>3
  <2>4. CASE m[1] = s
    <3>1. state[s] \in Stored /\ Rank[state[s]] < Rank[to]
      BY <1>3, RankRises
    <3>2. state[s] # "removed"
      BY DEF SaveStream
    <3>3. Rank[to] \in Nat /\ Rank[state[s]] \in Nat /\ Rank[m[2]] \in Nat
      BY <1>2, <2>1, <3>1, RankNat
    <3> QED
      BY <1>2, <1>6, <2>2, <2>4, <3>1, <3>2, <3>3
  <2> QED
    BY <2>3, <2>4
<1> QED
  BY <1>5, <1>7, <1>8, <1>9 DEF RequestsInv, OneActiveGoal, SaveStream

LEMMA TellRequestsInv ==
  ASSUME TypedInv, RequestsInv, NEW p \in Procs, Tell(p)
  PROVE  RequestsInv'
<1>1. InRequest(p) /\ Finish(p) /\ At(p, "tell")
  BY DEF Tell, InRequest, At
<1>2. job[p] \in Request /\ job[p].to \in Stored
  BY <1>1, RequestFields DEF TypedInv, Request
<1>3. state[job[p].stream] \in {job[p].to, "removed"}
  BY <1>1 DEF RequestsInv, Knows
<1>4. /\ Alone'
      /\ \A q \in Procs \ {p} : job'[q] = job[q]
  BY <1>1, AloneMoves DEF RequestsInv
<1>5. \A q \in Procs : Knows(q)'
  BY <1>1, <1>4 DEF Tell, Finish, Become, RequestsInv, Knows, At, IdleJob,
                    NoActive, TypedInv, TypeOK
<1>6. HeardOf'
  BY <1>2, <1>3, RankNat DEF Tell, RequestsInv, HeardOf
<1> QED
  BY <1>4, <1>5, <1>6
     DEF Tell, RequestsInv, UnsetUntilScheduled, OneActiveGoal

LEMMA FindOtherRequestsInv ==
  ASSUME TypedInv, RequestsInv, NEW p \in Procs, FindOther(p)
  PROVE  RequestsInv'
<1>1. InRequest(p) /\ At(p, "findOther")
  BY DEF FindOther, InRequest, At
<1>2. job[p] \in Request
  BY <1>1, RequestFields DEF TypedInv
<1>3. Finish(p) \/ Advance(p, "insertGoal")
  BY DEF FindOther
<1>4. /\ Alone'
      /\ \A q \in Procs \ {p} : job'[q] = job[q]
  BY <1>1, <1>3, AloneMoves DEF RequestsInv
<1>5. Knows(p)'
  <2>1. CASE Finish(p)
    BY <2>1 DEF Finish, Become, Knows, At, IdleJob, TypedInv, TypeOK
  <2>2. CASE ~Finish(p)
    <3>1. Advance(p, "insertGoal") /\ NoActive(job[p].stream)
      BY <2>2 DEF FindOther, OtherActive, NoActive
    <3>2. job'[p] = [job[p] EXCEPT !.pc = "insertGoal"]
      BY <3>1 DEF Advance, Become, TypedInv, TypeOK
    <3>3. /\ job'[p].pc = "insertGoal"
          /\ job'[p].stream = job[p].stream
          /\ job'[p].goal = job[p].goal
      BY <1>2, <3>2 DEF Request
    <3>4. job[p].goal \in Goals /\ StreamOf[job[p].goal] = job[p].stream
      BY <1>1 DEF RequestsInv, Knows
    <3> QED
      BY <3>1, <3>3, <3>4 DEF FindOther, Knows, At, NoActive
  <2> QED
    BY <2>1, <2>2
<1>6. \A q \in Procs \ {p} : Knows(q)'
  BY <1>4 DEF FindOther, stream, RequestsInv, Knows, At, NoActive
<1> QED
  BY <1>4, <1>5, <1>6
     DEF FindOther, stream, RequestsInv, UnsetUntilScheduled, HeardOf,
         OneActiveGoal

LEMMA InsertGoalRequestsInv ==
  ASSUME TypedInv, RequestsInv, NEW p \in Procs, InsertGoal(p)
  PROVE  RequestsInv'
<1> DEFINE new == job[p].goal
<1>1. InRequest(p) /\ Finish(p) /\ At(p, "insertGoal")
  BY DEF InsertGoal, InRequest, At
<1>2. /\ new \in Goals
      /\ StreamOf[new] = job[p].stream
      /\ NoActive(job[p].stream)
  BY <1>1 DEF RequestsInv, Knows
<1>3. /\ Alone'
      /\ \A q \in Procs \ {p} :
           /\ job'[q] = job[q]
           /\ InRequest(q) => job[q].stream # job[p].stream
  BY <1>1, AloneMoves DEF RequestsInv
<1>4. goal'[new] = "active" /\ \A g \in Goals \ {new} : goal'[g] = goal[g]
  BY <1>2 DEF InsertGoal, TypedInv, TypeOK
<1>5. ASSUME NEW q \in Procs PROVE Knows(q)'
  <2>1. CASE q = p
    BY <1>1, <2>1 DEF Finish, Become, Knows, At, IdleJob, TypedInv, TypeOK
  <2>2. CASE q # p
    BY <1>2, <1>3, <1>4, <2>2, KnowsOthers DEF InsertGoal, stream
  <2> QED
    BY <2>1, <2>2
<1>6. OneActiveGoal'
  BY <1>2, <1>4 DEF RequestsInv, OneActiveGoal, NoActive
<1> QED
  BY <1>3, <1>5, <1>6
     DEF InsertGoal, stream, RequestsInv, UnsetUntilScheduled, HeardOf

LEMMA StepRequestsInv ==
  ASSUME TypedInv, RequestsInv, ~Overlap, [Next]_vars
  PROVE  RequestsInv'
<1> USE DEF stream, cron
<1>1. ASSUME NEW p \in Procs, Continue(p) PROVE RequestsInv'
  <2>1. CASE InsertStream(p) \/ SaveStream(p) \/ Tell(p)
    BY <2>1, InsertRequestsInv, SaveRequestsInv, TellRequestsInv
  <2>2. CASE FindOther(p) \/ InsertGoal(p)
    BY <2>2, FindOtherRequestsInv, InsertGoalRequestsInv
  <2>3. CASE SaveFails(p)
    <3>1. Quiet
      BY <2>3 DEF SaveFails, Finish, Become, Quiet, InRequest, IdleJob,
                  TypedInv, TypeOK
    <3> QED
      BY <3>1, AfterQuiet
  <2>4. CASE Fetch(p)
    <3>1. Quiet
      BY <2>4 DEF Fetch, Become, Quiet, InRequest, IdleJob, TypedInv, TypeOK
    <3> QED
      BY <3>1, AfterQuiet
  <2>5. ASSUME NEW s \in Streams, Announce(p, s) PROVE RequestsInv'
    <3>1. job[p] = [pc |-> "announce", streams |-> job[p].streams]
      BY <2>5, AnnounceFields DEF Announce, TypedInv
    <3>2. [job[p] EXCEPT !.streams = @ \ {s}].pc = "announce"
      BY <3>1
    <3>3. ~InRequest(p)' /\ \A q \in Procs \ {p} : job'[q] = job[q]
      BY <2>5, <3>2 DEF Announce, Become, InRequest, IdleJob, TypedInv, TypeOK
    <3>4. Quiet
      BY <2>5, <3>3 DEF Announce, Quiet
    <3> QED
      BY <3>4, AfterQuiet
  <2> QED
    BY <1>1, <2>1, <2>2, <2>3, <2>4, <2>5 DEF Continue
<1>2. ASSUME NEW p \in Procs, AbortJob(p) PROVE Quiet
  BY <1>2 DEF AbortJob, Finish, Become, Quiet, InRequest, IdleJob, TypedInv, TypeOK
<1>3. ASSUME NEW p \in Procs, NEW n \in Nodes, Tick(p, n) PROVE Quiet
  BY <1>3 DEF Tick, Become, Quiet, InRequest, TypedInv, TypeOK
<1>4. ASSUME NEW s \in Streams, RemoveStream(s) PROVE Quiet
  BY <1>4 DEF RemoveStream, Quiet, TypedInv, TypeOK
<1>5. ASSUME NEW s \in Streams, ExpireGoal(s) \/ LoseCompleted(s) PROVE Quiet
  BY <1>5 DEF ExpireGoal, Expire, LoseCompleted, Quiet, TypedInv, TypeOK
<1>6. ASSUME NEW g \in Goals, ReachGoal(g) \/ RemoveGoal(g) PROVE Quiet
  BY <1>6 DEF ReachGoal, RemoveGoal, Quiet, TypedInv, TypeOK
<1>7. ASSUME Elapse \/ UNCHANGED vars PROVE Quiet
  BY <1>7 DEF Elapse, vars, Quiet
<1> QED
  BY <1>1, <1>2, <1>3, <1>4, <1>5, <1>6, <1>7, AfterQuiet, BeginRequestsInv
     DEF Next, CronTick

LEMMA RequestsInvAlways ==
  ASSUME ~Overlap
  PROVE  Spec => [](TypedInv /\ RequestsInv)
<1>1. Init => TypedInv /\ RequestsInv
  BY InitTyped, InitRequestsInv
<1>2. TypedInv /\ RequestsInv /\ [Next]_vars => (TypedInv /\ RequestsInv)'
  BY NextTyped, StepRequestsInv
<1> QED
  BY <1>1, <1>2, PTL DEF Spec

(* A stream whose requests come one at a time has at most one active goal, *)
(* whatever tips, expirations, removals and ticks run meanwhile            *)
(* (goal.controller.ts:345-350).                                           *)
THEOREM OneActiveGoalAlways ==
  ASSUME ~Overlap
  PROVE  Spec => []OneActiveGoal
<1>1. TypedInv /\ RequestsInv => OneActiveGoal
  BY DEF RequestsInv
<1> QED
  BY <1>1, RequestsInvAlways, PTL

-----------------------------------------------------------------------------
(* What makes the cron job tell subscribers once.  A stream is claimed     *)
(* with the time of a tick, later than that of every earlier tick, so the  *)
(* fetch of a tick finds only the streams it claimed itself; those nobody  *)
(* was told of yet, and each waits in one list of notifications at most.   *)

Untold(s) ==
  /\ announced[s] = 0
  /\ \A p \in Procs : At(p, "announce") => s \notin job[p].streams

ClaimsPast ==
  /\ \A s \in Streams, n \in Nodes : claimed[s] <= ticked[n]
  /\ \A n \in Nodes : ticked[n] <= clock
  /\ \A p \in Procs : At(p, "fetch") =>
       job[p].at # 0 /\ \A n \in Nodes : job[p].at <= ticked[n]

FetchesOwn ==
  /\ \A p, q \in Procs :
       At(p, "fetch") /\ At(q, "fetch") /\ job[p].at = job[q].at => p = q
  /\ \A p \in Procs, s \in Streams :
       At(p, "fetch") /\ claimed[s] = job[p].at => Untold(s)
  /\ \A s \in Streams : claimed[s] = 0 => Untold(s)

ListedOnce ==
  \A p \in Procs, s \in Streams :
    At(p, "announce") /\ s \in job[p].streams =>
      /\ announced[s] = 0
      /\ \A q \in Procs : At(q, "announce") /\ s \in job[q].streams => p = q

ClaimedWhenDue ==
  \A s \in Streams : claimed[s] # 0 => startsAt[s] \in 1 .. claimed[s]

CronInv ==
  ClaimsPast /\ FetchesOwn /\ ListedOnce /\ AnnouncedOnce /\ ClaimedWhenDue

LEMMA InitCronInv == Init => CronInv
BY DEF Init, CronInv, ClaimsPast, FetchesOwn, Untold, ListedOnce,
       AnnouncedOnce, ClaimedWhenDue, At, IdleJob

(* A step outside the cron job, in which time may pass and a stream nobody *)
(* has claimed may be scheduled.                                           *)
NoCron ==
  /\ claimed' = claimed
  /\ announced' = announced
  /\ ticked' = ticked
  /\ clock' \in Nat /\ clock' >= clock
  /\ \A p \in Procs :
       \/ job'[p] = job[p]
       \/ ~At(p, "fetch")' /\ ~At(p, "announce")'
  /\ \A s \in Streams : startsAt'[s] = startsAt[s] \/ claimed[s] = 0

(* A request that moves on or ends is no tick.                             *)
LEMMA MovesAsRequest ==
  ASSUME TypedInv, NEW p \in Procs, InRequest(p),
         \/ Finish(p)
         \/ \E pc \in {"tell", "insertGoal"} : Advance(p, pc)
  PROVE  /\ job'[p].pc \notin {"fetch", "announce"}
         /\ \A q \in Procs \ {p} : job'[q] = job[q]
<1>1. CASE Finish(p)
  BY <1>1 DEF Finish, Become, IdleJob, TypedInv, TypeOK
<1>2. ASSUME NEW pc \in {"tell", "insertGoal"}, Advance(p, pc)
      PROVE  /\ job'[p].pc \notin {"fetch", "announce"}
             /\ \A q \in Procs \ {p} : job'[q] = job[q]
  <2>1. job[p] \in Request
    BY RequestFields DEF TypedInv
  <2>2. [job[p] EXCEPT !.pc = pc].pc = pc
    BY <2>1 DEF Request
  <2>3. /\ job'[p] = [job[p] EXCEPT !.pc = pc]
        /\ \A q \in Procs \ {p} : job'[q] = job[q]
    BY <1>2 DEF Advance, Become, TypedInv, TypeOK
  <2> QED
    BY <2>2, <2>3
<1> QED
  BY <1>1, <1>2

LEMMA AfterNoCron ==
  ASSUME TypedInv, CronInv, NoCron
  PROVE  CronInv'
<1> USE DEF NoCron, CronInv
<1>1. \A s \in Streams : Untold(s) => Untold(s)'
  BY DEF Untold, At
<1>2. ClaimsPast'
  <2>1. clock \in Int /\ clock' \in Int /\ clock' >= clock
        /\ \A n \in Nodes : ticked[n] \in Int
    BY StreamBoundsAssumption DEF TypedInv, TypeOK
  <2>2. \A n \in Nodes : ticked[n] <= clock'
    <3> SUFFICES ASSUME NEW n \in Nodes PROVE ticked[n] <= clock'
      OBVIOUS
    <3>1. ticked[n] <= clock
      BY DEF ClaimsPast
    <3> QED
      BY <2>1, <3>1
  <2> QED
    BY <2>2 DEF ClaimsPast, At
<1>3. FetchesOwn'
  BY <1>1 DEF FetchesOwn, At
<1>4. ListedOnce'
  BY DEF ListedOnce, At
<1> QED
  BY <1>2, <1>3, <1>4 DEF AnnouncedOnce, ClaimedWhenDue

LEMMA TickCronInv ==
  ASSUME TypedInv, CronInv, OneNode, NEW p \in Procs, NEW n \in Nodes, Tick(p, n)
  PROVE  CronInv'
<1> USE DEF CronInv
<1>1. /\ job'[p] = [pc |-> "fetch", at |-> clock]
      /\ \A q \in Procs \ {p} : job'[q] = job[q]
  BY DEF Tick, Become, TypedInv, TypeOK
<1>2. /\ ticked[n] < clock
      /\ ticked[n] \in Nat /\ clock \in Nat
      /\ \A m \in Nodes : m = n
      /\ ticked'[n] = clock
      /\ clock' = clock
  BY StreamBoundsAssumption DEF Tick, TypedInv, TypeOK, OneNode
<1>3. \A s \in Streams : claimed[s] \in Nat /\ claimed[s] < clock
  BY <1>2, StreamBoundsAssumption DEF ClaimsPast, TypedInv, TypeOK
<1>4. ASSUME NEW q \in Procs \ {p}, At(q, "fetch")
      PROVE  job[q].at \in Nat /\ job[q].at # 0 /\ job[q].at < clock
  BY <1>2, <1>4, FetchFields, StreamBoundsAssumption DEF ClaimsPast, TypedInv
<1>5. \A s \in Streams :
        \/ claimed'[s] = claimed[s]
        \/ Due(s) /\ claimed'[s] = clock
  BY DEF Tick
<1>6. \A s \in Streams : Untold(s) => Untold(s)'
  BY <1>1 DEF Tick, Untold, At
<1>7. ClaimsPast'
  BY <1>1, <1>2, <1>3, <1>4, <1>5 DEF ClaimsPast, At
<1>8. FetchesOwn'
  <2>1. ASSUME NEW q \in Procs, NEW r \in Procs, At(q, "fetch")',
               At(r, "fetch")', job'[q].at = job'[r].at
        PROVE  q = r
    BY <1>1, <1>4, <2>1 DEF FetchesOwn, At
  <2>2. ASSUME NEW q \in Procs, NEW s \in Streams, At(q, "fetch")',
               claimed'[s] = job'[q].at
        PROVE  Untold(s)'
    <3>1. CASE q = p
      <4>1. Due(s)
        BY <1>1, <1>3, <1>5, <2>2, <3>1
      <4>2. Untold(s)
        BY <4>1 DEF Due, FetchesOwn
      <4> QED
        BY <1>6, <4>2
    <3>2. CASE q # p
      <4>1. At(q, "fetch") /\ job'[q].at = job[q].at
        BY <1>1, <2>2, <3>2 DEF At
      <4>2. claimed[s] = job[q].at
        BY <1>4, <1>5, <2>2, <3>2, <4>1
      <4> QED
        BY <1>6, <4>1, <4>2 DEF FetchesOwn
    <3> QED
      BY <3>1, <3>2
  <2>3. ASSUME NEW s \in Streams, claimed'[s] = 0 PROVE Untold(s)'
    BY <1>2, <1>5, <1>6, <2>3 DEF FetchesOwn
  <2> QED
    BY <2>1, <2>2, <2>3 DEF FetchesOwn
<1>9. ListedOnce'
  BY <1>1 DEF Tick, ListedOnce, At
<1>10. ClaimedWhenDue'
  BY <1>5 DEF Tick, stream, Due, ClaimedWhenDue
<1> QED
  BY <1>7, <1>8, <1>9, <1>10 DEF Tick, AnnouncedOnce

LEMMA FetchCronInv ==
  ASSUME TypedInv, CronInv, NEW p \in Procs, Fetch(p)
  PROVE  CronInv'
<1> USE DEF CronInv
<1> DEFINE found == {s \in Streams : state[s] \in Stored /\ claimed[s] = job[p].at}
<1>1. At(p, "fetch") /\ job[p].at # 0
  BY DEF Fetch, ClaimsPast
<1>2. /\ \A q \in Procs \ {p} : job'[q] = job[q]
      /\ \/ job'[p] = IdleJob
         \/ job'[p] = [pc |-> "announce", streams |-> found]
  BY DEF Fetch, Become, TypedInv, TypeOK
<1>3. /\ ~At(p, "fetch")'
      /\ \A s \in Streams : At(p, "announce")' /\ s \in job'[p].streams
           => claimed[s] = job[p].at /\ Untold(s)
  BY <1>1, <1>2 DEF At, IdleJob, FetchesOwn
<1>4. UNCHANGED <<claimed, announced, ticked, startsAt, clock>>
  BY DEF Fetch, stream, cron
<1>5. ClaimsPast'
  BY <1>2, <1>3, <1>4 DEF ClaimsPast, At
<1>6. ASSUME NEW s \in Streams, claimed[s] # job[p].at, Untold(s)
      PROVE  Untold(s)'
  BY <1>2, <1>3, <1>4, <1>6 DEF Untold, At
<1>7. FetchesOwn'
  <2>1. ASSUME NEW q \in Procs, NEW s \in Streams, At(q, "fetch")',
               claimed[s] = job'[q].at
        PROVE  Untold(s)'
    <3>1. q # p /\ job'[q] = job[q] /\ At(q, "fetch")
      BY <1>2, <1>3, <2>1 DEF At
    <3>2. job[q].at # job[p].at
      BY <1>1, <3>1 DEF FetchesOwn
    <3> QED
      BY <1>6, <2>1, <3>1, <3>2 DEF FetchesOwn
  <2>2. \A s \in Streams : claimed[s] = 0 => Untold(s)'
    BY <1>1, <1>6 DEF FetchesOwn
  <2>3. \A q, r \in Procs :
          At(q, "fetch")' /\ At(r, "fetch")' /\ job'[q].at = job'[r].at => q = r
    BY <1>2, <1>3 DEF FetchesOwn, At
  <2> QED
    BY <1>4, <2>1, <2>2, <2>3 DEF FetchesOwn
<1>8. ListedOnce'
  BY <1>2, <1>3, <1>4 DEF ListedOnce, Untold, At
<1> QED
  BY <1>4, <1>5, <1>7, <1>8 DEF AnnouncedOnce, ClaimedWhenDue

LEMMA AnnounceCronInv ==
  ASSUME TypedInv, CronInv, NEW p \in Procs, NEW s \in Streams, Announce(p, s)
  PROVE  CronInv'
<1> USE DEF CronInv
<1>1. /\ At(p, "announce")
      /\ s \in job[p].streams
      /\ job[p] = [pc |-> "announce", streams |-> job[p].streams]
  BY AnnounceFields DEF Announce, TypedInv
<1>2. /\ [job[p] EXCEPT !.streams = @ \ {s}].pc = "announce"
      /\ [job[p] EXCEPT !.streams = @ \ {s}].streams = job[p].streams \ {s}
  BY <1>1
<1>3. /\ \A q \in Procs \ {p} : job'[q] = job[q]
      /\ ~At(p, "fetch")'
      /\ At(p, "announce")' => job'[p].streams = job[p].streams \ {s}
  BY <1>2 DEF Announce, Become, At, IdleJob, TypedInv, TypeOK
<1>4. announced[s] = 0
  BY <1>1 DEF ListedOnce
<1>5. announced'[s] = 1 /\ \A x \in Streams \ {s} : announced'[x] = announced[x]
  BY <1>4 DEF Announce, TypedInv, TypeOK
<1>6. UNCHANGED <<claimed, ticked, startsAt, clock>>
  BY DEF Announce, stream
<1>7. ClaimsPast'
  BY <1>3, <1>6 DEF ClaimsPast, At
<1>8. ~Untold(s)
  BY <1>1 DEF Untold
<1>9. \A x \in Streams : Untold(x) => Untold(x)'
  BY <1>1, <1>3, <1>5, <1>8 DEF Untold, At
<1>10. FetchesOwn'
  BY <1>3, <1>6, <1>9 DEF FetchesOwn, At
<1>11. ListedOnce'
  BY <1>1, <1>3, <1>5 DEF ListedOnce, At
<1>12. AnnouncedOnce'
  BY <1>5 DEF AnnouncedOnce
<1> QED
  BY <1>6, <1>7, <1>10, <1>11, <1>12 DEF ClaimedWhenDue

(* A stream is scheduled while it has no time of start; then no tick has   *)
(* claimed it.                                                             *)
LEMMA SaveCronInv ==
  ASSUME TypedInv, RequestsInv, CronInv, NEW p \in Procs, SaveStream(p)
  PROVE  CronInv'
<1>1. job[p] \in Request /\ job[p].stream \in Streams
  BY RequestFields DEF SaveStream, InRequest, At, TypedInv, Request
<1>2. job[p].to = "scheduled" => claimed[job[p].stream] = 0
  <2> SUFFICES ASSUME job[p].to = "scheduled"
               PROVE  claimed[job[p].stream] = 0
    OBVIOUS
  <2>1. state[job[p].stream] = "created"
    BY DEF SaveStream, RequestsInv, Knows, changeState
  <2>2. startsAt[job[p].stream] = 0
    BY <1>1, <2>1 DEF RequestsInv, UnsetUntilScheduled
  <2> QED
    BY <1>1, <2>2 DEF CronInv, ClaimedWhenDue, TypedInv, TypeOK
<1>3. /\ job'[p].pc \notin {"fetch", "announce"}
      /\ \A q \in Procs \ {p} : job'[q] = job[q]
  BY MovesAsRequest DEF SaveStream, InRequest, At
<1>4. NoCron
  BY <1>1, <1>2, <1>3, StreamBoundsAssumption
     DEF NoCron, SaveStream, cron, At, TypedInv, TypeOK
<1> QED
  BY <1>4, AfterNoCron

LEMMA StepCronInv ==
  ASSUME TypedInv, RequestsInv, CronInv, OneNode, [Next]_vars
  PROVE  CronInv'
<1> USE DEF stream, cron, At
<1>0. clock \in Nat
  BY StreamBoundsAssumption DEF TypedInv, TypeOK
<1>1. ASSUME NEW p \in Procs, Begin(p) PROVE NoCron
  BY <1>0, <1>1 DEF Begin, CreateChat, ReadStream, ReadStreamOfGoal, Enter,
                    Become, NoCron, TypedInv, TypeOK
<1>2. ASSUME NEW p \in Procs, Continue(p) PROVE CronInv'
  <2>1. CASE SaveStream(p) \/ Fetch(p) \/ \E s \in Streams : Announce(p, s)
    BY <2>1, SaveCronInv, FetchCronInv, AnnounceCronInv
  <2>2. CASE InsertStream(p) \/ SaveFails(p) \/ Tell(p) \/ InsertGoal(p)
    <3>1. NoCron
      BY <1>0, <2>2 DEF InsertStream, SaveFails, Tell, InsertGoal, Finish, Become,
                        IdleJob, NoCron, TypedInv, TypeOK
    <3> QED
      BY <3>1, AfterNoCron
  <2>3. CASE FindOther(p)
    <3>1. /\ job'[p].pc \notin {"fetch", "announce"}
          /\ \A q \in Procs \ {p} : job'[q] = job[q]
      BY <2>3, MovesAsRequest DEF FindOther, InRequest
    <3>2. NoCron
      BY <1>0, <2>3, <3>1 DEF FindOther, NoCron
    <3> QED
      BY <3>2, AfterNoCron
  <2> QED
    BY <1>2, <2>1, <2>2, <2>3 DEF Continue
<1>3. ASSUME NEW p \in Procs, AbortJob(p) PROVE NoCron
  BY <1>0, <1>3 DEF AbortJob, Finish, Become, IdleJob, NoCron, TypedInv, TypeOK
<1>4. CASE CronTick
  BY <1>4, TickCronInv DEF CronTick
<1>5. ASSUME NEW s \in Streams, RemoveStream(s) \/ ExpireGoal(s) \/ LoseCompleted(s)
      PROVE  NoCron
  BY <1>0, <1>5 DEF RemoveStream, ExpireGoal, LoseCompleted, NoCron
<1>6. ASSUME NEW g \in Goals, ReachGoal(g) \/ RemoveGoal(g) PROVE NoCron
  BY <1>0, <1>6 DEF ReachGoal, RemoveGoal, NoCron
<1>7. ASSUME Elapse \/ UNCHANGED vars PROVE NoCron
  BY <1>0, <1>7 DEF Elapse, vars, NoCron
<1> QED
  BY <1>1, <1>2, <1>3, <1>4, <1>5, <1>6, <1>7, AfterNoCron DEF Next

(* Subscribers are told the truth, in time and once: a start is announced  *)
(* at most once and not before its time, and the state they heard of is    *)
(* behind the stream or its own (liveStreams.molecule.ts:26-42,            *)
(* liveStream.controller.ts:786-825), on one node and with requests about  *)
(* one stream one at a time.                                               *)
THEOREM SubscribersToldRightAlways ==
  ASSUME ~Overlap, OneNode
  PROVE  Spec => []SubscribersToldRight
<1> DEFINE Inv == TypedInv /\ RequestsInv /\ CronInv
<1>1. Init => Inv
  BY InitTyped, InitRequestsInv, InitCronInv
<1>2. Inv /\ [Next]_vars => Inv'
  BY NextTyped, StepRequestsInv, StepCronInv
<1>3. Inv => SubscribersToldRight
  <2> SUFFICES ASSUME Inv PROVE SubscribersToldRight
    OBVIOUS
  <2>1. AnnouncedWhenDue
    BY DEF AnnouncedWhenDue, CronInv, FetchesOwn, Untold, ClaimedWhenDue
  <2>2. ToldWhatHappened
    BY DEF ToldWhatHappened, RequestsInv, HeardOf, Stored
  <2> QED
    BY <2>1, <2>2 DEF SubscribersToldRight, CronInv
<1> QED
  BY <1>1, <1>2, <1>3, PTL DEF Spec
=============================================================================
