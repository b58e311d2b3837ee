----------------------- MODULE LiveStreamsProperties ------------------------
(***************************************************************************)
(* What live streams and goals promise, over module LiveStreams.           *)
(***************************************************************************)
EXTENDS LiveStreams

(* Variables hold values of their types, and only a stream that was        *)
(* scheduled has a time of start or was claimed by the cron job.           *)
TypeOK ==
  /\ state \in [Streams -> StreamStates]
  /\ startsAt \in [Streams -> 0 .. MaxClock]
  /\ claimed \in [Streams -> 0 .. MaxClock]
  /\ announced \in [Streams -> Nat]
  /\ told \subseteq Streams \X Stored
  /\ chats \subseteq Streams
  /\ goal \in [Goals -> GoalStates]
  /\ completed \subseteq Streams
  /\ clock \in 0 .. MaxClock
  /\ ticked \in [Nodes -> 0 .. MaxClock]
  /\ job \in [Procs -> Job]
  /\ faults \in 0 .. MaxFaults
  /\ \A s \in Streams :
       /\ state[s] = "scheduled" => startsAt[s] # 0
       /\ claimed[s] # 0 => startsAt[s] # 0

(* A stream has at most one active goal, whatever tips, expirations and    *)
(* removals run meanwhile: the check of GoalController.pre                 *)
(* (goal.controller.ts:345-350) protects the insert that follows it when   *)
(* the requests about one stream come one at a time.                       *)
OneActiveGoal ==
  \A g, h \in Goals :
    /\ goal[g] = "active"
    /\ goal[h] = "active"
    /\ StreamOf[g] = StreamOf[h]
    => g = h

(* Subscribers are told at most once that a stream is starting, although   *)
(* a tick of the cron job may still be running when the next one comes     *)
(* (liveStreams.molecule.ts:26-42).                                        *)
AnnouncedOnce == \A s \in Streams : announced[s] <= 1

(* Subscribers are told that a stream is starting once its scheduled time  *)
(* has come and never before (liveStreams.molecule.ts:30).                 *)
AnnouncedWhenDue ==
  \A s \in Streams : announced[s] # 0 => startsAt[s] \in 1 .. claimed[s]

Rank == [x \in Stored |->
           CASE x = "created" -> 1 [] x = "scheduled" -> 2
             [] x = "onAir" -> 3 [] x = "completed" -> 4]

(* What subscribers were told has happened: the stream is in the state     *)
(* they heard of or in a later one (liveStream.controller.ts:786-794 and   *)
(* 816-825), so it never goes back either.                                 *)
ToldWhatHappened ==
  \A m \in told :
    state[m[1]] \in Stored => Rank[state[m[1]]] >= Rank[m[2]]

(* Subscribers are told the truth, in time and once.                       *)
SubscribersToldRight == AnnouncedOnce /\ AnnouncedWhenDue /\ ToldWhatHappened

(* The start of a scheduled stream is announced unless the stream is       *)
(* removed or a fault comes in between: no interleaving of requests and    *)
(* ticks makes the cron job miss it (liveStreams.molecule.ts:25-56).  At   *)
(* MaxClock the last tick may be over.                                     *)
DueAnnounced ==
  \A s \in Streams :
    startsAt[s] # 0 /\ clock < MaxClock
      ~> announced[s] = 1 \/ state[s] = "removed" \/ faults > 0

(* A completed stream does not keep an active goal                         *)
(* (liveStream.controller.ts:848-850, goals.molecule.ts:20-28 and          *)
(* goal.controller.ts:342-344 together), unless a fault comes in between.  *)
CompletedGoalsExpire ==
  \A g \in Goals :
    state[StreamOf[g]] = "completed" /\ goal[g] = "active"
      ~> goal[g] # "active" \/ faults > 0
=============================================================================
