---------------------------- MODULE LiveStreams -----------------------------
(***************************************************************************)
(* Live streams and their goals: an owner creates a stream with its chat,  *)
(* schedules, starts and stops it and opens goals in it; a cron job tells  *)
(* the subscribers that a scheduled stream is starting; the goals molecule *)
(* expires the active goal of a completed stream.                          *)
(*                                                                         *)
(* A request or a tick of the cron job is a process, and each of its       *)
(* database calls is one action.  Time is counted in hours, the unit in    *)
(* which schedule compares it.  Tips are the subject of module Payments:   *)
(* here they only make a goal Reached.                                     *)
(***************************************************************************)
EXTENDS Integers

CONSTANTS
  Streams,    \* the live streams that may be created
  Goals,      \* the goals that may be created
  StreamOf,   \* the stream a goal belongs to
  Procs,      \* running requests and ticks
  Nodes,      \* application processes, each with a cron job
  None,       \* no goal
  Overlap,    \* whether an owner's requests about one stream may overlap
  MaxClock,   \* bound: hours that pass
  MaxFaults   \* bound: processes cut short and events lost

ASSUME StreamOfAssumption == StreamOf \in [Goals -> Streams] /\ None \notin Goals
ASSUME OverlapAssumption == Overlap \in BOOLEAN
ASSUME StreamBoundsAssumption == MaxClock \in Nat /\ MaxFaults \in Nat

VARIABLES
  state,      \* stream |-> state, "none" before it and "removed" after it
  startsAt,   \* stream |-> scheduledStartingAt, 0 when unset
  claimed,    \* stream |-> startingProcessedAt, 0 when unset
  announced,  \* stream |-> number of LiveStreamStarting notifications
  told,       \* the streams whose new state subscribers were told, with it
  chats,      \* streams a chat was created for
  goal,       \* goal |-> state, "none" before it and "removed" after it
  completed,  \* liveStreams.completed events in flight
  clock,      \* hours passed
  ticked,     \* node |-> the time of its last tick
  job,        \* process |-> where it is and what it holds
  faults      \* faults suffered (bounded by MaxFaults)

stream == <<state, startsAt, told, chats>>
cron == <<claimed, announced, ticked>>
vars == <<stream, cron, goal, completed, clock, job, faults>>

-----------------------------------------------------------------------------
Stored == {"created", "scheduled", "onAir", "completed"}
StreamStates == Stored \cup {"none", "removed"}
GoalStates == {"none", "active", "reached", "expired", "removed"}

IdleJob == [pc |-> "idle"]
Request ==
  [pc : {"insert", "save", "tell", "findOther", "insertGoal"},
   stream : Streams, goal : Goals \cup {None}, to : Stored, at : 0 .. MaxClock]
CronJob ==
  [pc : {"fetch"}, at : 0 .. MaxClock]
    \cup [pc : {"announce"}, streams : SUBSET Streams]
Job == {IdleJob} \cup Request \cup CronJob

Idle(p) == job[p].pc = "idle"
Become(p, j) == job' = [job EXCEPT ![p] = j]
Finish(p) == Become(p, IdleJob)
Advance(p, pc) == Become(p, [job[p] EXCEPT !.pc = pc])
At(p, pc) == job[p].pc = pc

InRequest(p) == job[p].pc \notin {"idle", "fetch", "announce"}

(* A request about s may start.                                            *)
Open(s) == Overlap \/ \A p \in Procs : InRequest(p) => job[p].stream # s

Enter(p, pc, s, g, to, at) ==
  /\ Idle(p)
  /\ Open(s)
  /\ Become(p, [pc |-> pc, stream |-> s, goal |-> g, to |-> to, at |-> at])

Init ==
  /\ state = [s \in Streams |-> "none"]
  /\ startsAt = [s \in Streams |-> 0]
  /\ claimed = [s \in Streams |-> 0]
  /\ announced = [s \in Streams |-> 0]
  /\ told = {}
  /\ chats = {}
  /\ goal = [g \in Goals |-> "none"]
  /\ completed = {}
  /\ clock = 0
  /\ ticked = [n \in Nodes |-> 0]
  /\ job = [p \in Procs |-> IdleJob]
  /\ faults = 0

-----------------------------------------------------------------------------
(* Creation: beforeSave creates the chat, then the stream is saved.        *)

CreateChat(p, s) ==
  /\ s \notin chats
  /\ state[s] = "none"
  /\ chats' = chats \cup {s}
  /\ Enter(p, "insert", s, None, "created", 0)
  /\ UNCHANGED <<state, startsAt, told, cron, goal, completed, clock, faults>>

InsertStream(p) ==
  /\ At(p, "insert")
  /\ state' = [state EXCEPT ![job[p].stream] = "created"]
  /\ Finish(p)
  /\ UNCHANGED <<startsAt, told, chats, cron, goal, completed, clock, faults>>

-----------------------------------------------------------------------------
(* schedule, start and stop: read the stream, check the transition on what *)
(* was read, save it, then tell the subscribers or emit the event.         *)

changeState(from, to) ==
  <<from, to>> \in {<<"created", "scheduled">>, <<"created", "onAir">>,
                    <<"scheduled", "onAir">>, <<"onAir", "completed">>}

(* The start of a scheduled stream is at least an hour away.               *)
FarEnough(at) == at \in clock + 1 .. MaxClock

ReadStream(p, s, to) ==
  /\ changeState(state[s], to)
  /\ \E at \in 0 .. MaxClock :
       /\ IF to = "scheduled" THEN FarEnough(at) ELSE at = 0
       /\ Enter(p, "save", s, None, to, at)
  /\ UNCHANGED <<stream, cron, goal, completed, clock, faults>>

(* Only the changed fields are written.  The event of a stop is emitted    *)
(* with no database call in between.                                       *)
SaveStream(p) ==
  LET s == job[p].stream
      to == job[p].to
  IN /\ At(p, "save")
     /\ state[s] # "removed"
     /\ state' = [state EXCEPT ![s] = to]
     /\ startsAt' = [startsAt EXCEPT
                       ![s] = IF to = "scheduled" THEN job[p].at ELSE @]
     /\ IF to = "completed"
        THEN completed' = completed \cup {s} /\ Finish(p)
        ELSE Advance(p, "tell") /\ UNCHANGED completed
     /\ UNCHANGED <<told, chats, cron, goal, clock, faults>>

(* The stream was removed meanwhile: the save fails.                       *)
SaveFails(p) ==
  /\ At(p, "save")
  /\ state[job[p].stream] = "removed"
  /\ Finish(p)
  /\ UNCHANGED <<stream, cron, goal, completed, clock, faults>>

(* createNotification for the subscribers of the owner.                    *)
Tell(p) ==
  /\ At(p, "tell")
  /\ told' = told \cup {<<job[p].stream, job[p].to>>}
  /\ Finish(p)
  /\ UNCHANGED <<state, startsAt, chats, cron, goal, completed, clock, faults>>

(* By the owner or an admin, at any time.                                  *)
RemoveStream(s) ==
  /\ state[s] \in Stored
  /\ state' = [state EXCEPT ![s] = "removed"]
  /\ UNCHANGED <<startsAt, told, chats, cron, goal, completed, clock, job, faults>>

-----------------------------------------------------------------------------
(* The cron job: claim the streams that are due with the time of the tick, *)
(* fetch those claimed at that time, tell the subscribers of each.         *)

(* Mutants: streams claimed before are claimed again; streams due earlier  *)
(* are not.                                                                *)
DueAgain(s) == state[s] \in Stored /\ startsAt[s] \in 1 .. clock
DueNow(s) == state[s] \in Stored /\ startsAt[s] = clock /\ claimed[s] = 0

Due(s) == state[s] \in Stored /\ startsAt[s] \in 1 .. clock /\ claimed[s] = 0

Tick(p, n) ==
  /\ Idle(p)
  /\ ticked[n] < clock
  /\ ticked' = [ticked EXCEPT ![n] = clock]
  /\ claimed' = [s \in Streams |-> IF Due(s) THEN clock ELSE claimed[s]]
  /\ Become(p, [pc |-> "fetch", at |-> clock])
  /\ UNCHANGED <<stream, announced, goal, completed, clock, faults>>

Fetch(p) ==
  LET found == {s \in Streams : state[s] \in Stored /\ claimed[s] = job[p].at}
  IN /\ At(p, "fetch")
     /\ Become(p, IF found = {} THEN IdleJob
                  ELSE [pc |-> "announce", streams |-> found])
     /\ UNCHANGED <<stream, cron, goal, completed, clock, faults>>

(* The notifications of one tick are created in any order.                 *)
Announce(p, s) ==
  /\ At(p, "announce")
  /\ s \in job[p].streams
  /\ announced' = [announced EXCEPT ![s] = @ + 1]
  /\ Become(p, IF job[p].streams = {s} THEN IdleJob
               ELSE [job[p] EXCEPT !.streams = @ \ {s}])
  /\ UNCHANGED <<stream, claimed, ticked, goal, completed, clock, faults>>

-----------------------------------------------------------------------------
(* Goals.                                                                  *)

(* pre reads the stream of the new goal.                                   *)
ReadStreamOfGoal(p, g) ==
  LET s == StreamOf[g]
  IN /\ goal[g] = "none"
     /\ \A q \in Procs : InRequest(q) => job[q].goal # g
     /\ state[s] \in Stored \ {"completed"}
     /\ Enter(p, "findOther", s, g, state[s], 0)
     /\ UNCHANGED <<stream, cron, goal, completed, clock, faults>>

(* Mutant: the check for another goal looks at the new one only.           *)
OwnActive(s, g) == goal[g] = "active" /\ StreamOf[g] = s

OtherActive(s, g) == \E h \in Goals : goal[h] = "active" /\ StreamOf[h] = s

(* A request that finds another active goal is refused.                    *)
FindOther(p) ==
  /\ At(p, "findOther")
  /\ IF OtherActive(job[p].stream, job[p].goal)
     THEN Finish(p)
     ELSE Advance(p, "insertGoal")
  /\ UNCHANGED <<stream, cron, goal, completed, clock, faults>>

InsertGoal(p) ==
  /\ At(p, "insertGoal")
  /\ goal' = [goal EXCEPT ![job[p].goal] = "active"]
  /\ Finish(p)
  /\ UNCHANGED <<stream, cron, completed, clock, faults>>

(* The payment molecule saves a goal that is full, or was when it was read.*)
ReachGoal(g) ==
  /\ goal[g] \in {"active", "expired"}
  /\ goal' = [goal EXCEPT ![g] = "reached"]
  /\ UNCHANGED <<stream, cron, completed, clock, job, faults>>

RemoveGoal(g) ==
  /\ goal[g] \in GoalStates \ {"none", "removed"}
  /\ goal' = [goal EXCEPT ![g] = "removed"]
  /\ UNCHANGED <<stream, cron, completed, clock, job, faults>>

(* Mutant: the goal is not touched.                                        *)
ExpireNothing(s) == completed' = completed \ {s} /\ UNCHANGED goal

(* findOneAndUpdate changes one active goal of the stream, if there is one.*)
Expire(s) ==
  LET active == {g \in Goals : goal[g] = "active" /\ StreamOf[g] = s}
  IN /\ completed' = completed \ {s}
     /\ IF active = {} THEN UNCHANGED goal
        ELSE \E g \in active : goal' = [goal EXCEPT ![g] = "expired"]

ExpireGoal(s) ==
  /\ s \in completed
  /\ Expire(s)
  /\ UNCHANGED <<stream, cron, clock, job, faults>>

-----------------------------------------------------------------------------
(* Time and faults.                                                        *)

Elapse ==
  /\ clock < MaxClock
  /\ clock' = clock + 1
  /\ UNCHANGED <<stream, cron, goal, completed, job, faults>>

(* A call is rejected or the node goes down: the rest of the process is    *)
(* dropped.                                                                *)
AbortJob(p) ==
  /\ faults < MaxFaults
  /\ faults' = faults + 1
  /\ ~Idle(p)
  /\ Finish(p)
  /\ UNCHANGED <<stream, cron, goal, completed, clock>>

LoseCompleted(s) ==
  /\ faults < MaxFaults
  /\ faults' = faults + 1
  /\ s \in completed
  /\ completed' = completed \ {s}
  /\ UNCHANGED <<stream, cron, goal, clock, job>>

-----------------------------------------------------------------------------
Begin(p) ==
  \/ \E s \in Streams : CreateChat(p, s) \/ \E to \in Stored : ReadStream(p, s, to)
  \/ \E g \in Goals : ReadStreamOfGoal(p, g)

Continue(p) ==
  \/ InsertStream(p)
  \/ SaveStream(p)
  \/ SaveFails(p)
  \/ Tell(p)
  \/ Fetch(p)
  \/ \E s \in Streams : Announce(p, s)
  \/ FindOther(p)
  \/ InsertGoal(p)

CronTick == \E p \in Procs, n \in Nodes : Tick(p, n)

Next ==
  \/ \E p \in Procs : Begin(p) \/ Continue(p) \/ AbortJob(p)
  \/ CronTick
  \/ \E s \in Streams : RemoveStream(s) \/ ExpireGoal(s) \/ LoseCompleted(s)
  \/ \E g \in Goals : ReachGoal(g) \/ RemoveGoal(g)
  \/ Elapse

Spec == Init /\ [][Next]_vars

(* Node resumes a process whose database answer has arrived, moleculer     *)
(* delivers an event, time passes and the cron job ticks.                  *)
FairSpec ==
  /\ Spec
  /\ \A p \in Procs : WF_vars(Continue(p))
  /\ \A s \in Streams : WF_vars(ExpireGoal(s))
  /\ WF_vars(CronTick)
  /\ WF_vars(Elapse)
=============================================================================
