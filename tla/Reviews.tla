------------------------------- MODULE Reviews --------------------------------
(***************************************************************************)
(* Reviews of users and the rating they add up to.  A request that changes *)
(* a review queues a job, and one worker computes the rating and writes    *)
(* it.  A request is a process; each of its calls, and each call of the    *)
(* worker, is one action.                                                  *)
(***************************************************************************)
EXTENDS Integers, FiniteSets, Sequences, Sums

CONSTANTS
  Rated,       \* users that are reviewed
  Reviews,
  Stars,       \* values of a rating
  Writers,       \* running requests
  MaxChanges,  \* bound: requests
  MaxFaults    \* bound: failed calls, requests cut short, crashed workers

ASSUME ReviewsAssumption == IsFiniteSet(Reviews) /\ Stars \subseteq Nat \ {0}
ASSUME ReviewsBoundsAssumption == MaxChanges \in Nat /\ MaxFaults \in Nat

VARIABLES
  reviews,  \* review |-> is it stored, of whom, with how many stars
  rating,   \* user |-> the sum and the number of stars it is the average of
  queue,    \* jobs that wait: a user, and the attempts left
  job,      \* the job of the worker, and the average it holds
  task,      \* process |-> where its request is and what it holds
  behind,   \* history: users with a change that no job followed
  changes,  \* requests so far (bounded by MaxChanges)
  faults    \* faults so far (bounded by MaxFaults)

reviewVars == <<reviews, rating, queue, job, task, behind, changes, faults>>

-----------------------------------------------------------------------------
Attempts == 3    \* the first one and retries(2)
NoWork == [pc |-> "idle"]
Jobs == [user : Rated, left : 1 .. Attempts]

StoredReviews == {r \in Reviews : reviews[r].life = "stored"}
Of(u) == {r \in StoredReviews : reviews[r].user = u}

StarsOf(u) == [r \in Of(u) |-> reviews[r].stars]

(* An average, as the sum and the number of what it is the average of.     *)
Average(stars) == <<Total(stars), Cardinality(DOMAIN stars)>>

NoRating == <<0, 0>>  \* a user who was never rated
Equal(a, b) == a # NoRating /\ b # NoRating /\ a[1] * b[2] = b[1] * a[2]

Stands(p, pc) == task[p].pc = pc
Goto(p, r) == task' = [task EXCEPT ![p] = r]

ReviewsInit ==
  /\ reviews = [r \in Reviews |-> [life |-> "new"]]
  /\ rating = [u \in Rated |-> NoRating]
  /\ queue = <<>>
  /\ job = NoWork
  /\ task = [p \in Writers |-> NoWork]
  /\ behind = {}
  /\ changes = 0
  /\ faults = 0

-----------------------------------------------------------------------------
(* Writing                                                                *)

(* An insertion, or a change or removal of a review that was located.      *)
StartChange(p) ==
  /\ Stands(p, "idle")
  /\ changes < MaxChanges
  /\ changes' = changes + 1
  /\ \E r \in Reviews, u \in Rated, s \in Stars :
       \/ /\ reviews[r].life = "new"
          /\ \A q \in Writers : Stands(q, "insert") => task[q].review # r
          /\ Goto(p, [pc |-> "insert", review |-> r, user |-> u, stars |-> s])
       \/ /\ reviews[r].life = "stored"
          /\ \/ Goto(p, [pc |-> "update", review |-> r, user |-> u,
                           stars |-> s, was |-> reviews[r]])
             \/ Goto(p, [pc |-> "remove", review |-> r,
                           user |-> reviews[r].user])
  /\ UNCHANGED <<reviews, rating, queue, job, behind, faults>>

(* A save writes the fields that differ from what was located.             *)
Saved(r, old) ==
  CASE r.pc = "insert" ->
         [life |-> "stored", user |-> r.user, stars |-> r.stars]
    [] r.pc = "update" ->
         [life |-> "stored",
          user |-> IF r.user = r.was.user THEN old.user ELSE r.user,
          stars |-> IF r.stars = r.was.stars THEN old.stars ELSE r.stars]
    [] r.pc = "remove" -> [old EXCEPT !.life = "removed"]

(* The document is saved; an update of one that was removed fails, a       *)
(* second removal does not.  The job will rate the user that the request   *)
(* knows, not another one whose review this was or is.                     *)
SaveReview(p) ==
  LET r == task[p]
      old == reviews[r.review]
      new == Saved(r, old)
      rated == {new.user} \cup IF r.pc = "insert" THEN {} ELSE {old.user}
  IN
    /\ r.pc \in {"insert", "update", "remove"}
    /\ IF r.pc = "update" /\ old.life # "stored"
       THEN Goto(p, NoWork) /\ UNCHANGED <<reviews, behind>>
       ELSE /\ reviews' = [reviews EXCEPT ![r.review] = new]
            /\ behind' = behind \cup (rated \ {r.user})
            /\ Goto(p, [pc |-> "after", user |-> r.user])
    /\ UNCHANGED <<rating, queue, job, changes, faults>>

(* Mutant: no job is queued while one of the user is at work.              *)
QueueUnlessBusy(u) ==
  IF job # NoWork /\ job.user = u
  THEN queue ELSE Append(queue, [user |-> u, left |-> Attempts])

QueueJob(u) == Append(queue, [user |-> u, left |-> Attempts])

(* afterChange calls rating.update.                                        *)
AfterChange(p) ==
  LET u == task[p].user
  IN
    /\ Stands(p, "after")
    /\ queue' = QueueJob(u)
    /\ behind' = behind \ {u}
    /\ Goto(p, NoWork)
    /\ UNCHANGED <<reviews, rating, job, changes, faults>>

-----------------------------------------------------------------------------
(* The worker                                                              *)

TakeJob ==
  /\ job = NoWork
  /\ queue # <<>>
  /\ job' = [pc |-> "compute", user |-> Head(queue).user,
              left |-> Head(queue).left]
  /\ queue' = Tail(queue)
  /\ UNCHANGED <<reviews, rating, task, behind, changes, faults>>

Pending(u) == \E i \in 1 .. Len(queue) : queue[i].user = u

(* No other job will rate the user.                                        *)
Abandoned(u) == IF Pending(u) THEN {} ELSE {u}

(* Mutant: attempts are not counted.                                       *)
RetryForever ==
  /\ job' = NoWork
  /\ queue' = Append(queue, [user |-> job.user, left |-> job.left])
  /\ behind' = behind

(* A failed job waits again, behind the others, or is dropped.             *)
Retry ==
  /\ job' = NoWork
  /\ IF job.left > 1
     THEN /\ queue' = Append(queue, [user |-> job.user, left |-> job.left - 1])
          /\ behind' = behind
     ELSE queue' = queue /\ behind' = behind \cup Abandoned(job.user)

(* calculateRating; the average of nothing is an error.                    *)
CalculateRating ==
  /\ job.pc = "compute"
  /\ IF Of(job.user) = {}
     THEN Retry
     ELSE /\ job' = [pc |-> "write", user |-> job.user, left |-> job.left,
                     average |-> Average(StarsOf(job.user))]
          /\ UNCHANGED <<queue, behind>>
  /\ UNCHANGED <<reviews, rating, task, changes, faults>>

WriteRating ==
  /\ job.pc = "write"
  /\ rating' = [rating EXCEPT ![job.user] = job.average]
  /\ job' = NoWork
  /\ UNCHANGED <<reviews, queue, task, behind, changes, faults>>

-----------------------------------------------------------------------------
(* Faults                                                                  *)

Fault == faults < MaxFaults /\ faults' = faults + 1

(* A call of the worker fails.                                             *)
FailJob ==
  /\ Fault
  /\ job # NoWork
  /\ Retry
  /\ UNCHANGED <<reviews, rating, task, changes>>

(* The worker crashes: its job is found again, or not.                     *)
CrashWorker ==
  /\ Fault
  /\ job # NoWork
  /\ job' = NoWork
  /\ \/ /\ queue' = Append(queue, [user |-> job.user, left |-> job.left])
        /\ behind' = behind
     \/ queue' = queue /\ behind' = behind \cup Abandoned(job.user)
  /\ UNCHANGED <<reviews, rating, task, changes>>

(* A request is cut short.                                                 *)
CutRequest(p) ==
  /\ Fault
  /\ ~Stands(p, "idle")
  /\ Goto(p, NoWork)
  /\ behind' = IF Stands(p, "after")
               THEN behind \cup {task[p].user} ELSE behind
  /\ UNCHANGED <<reviews, rating, queue, job, changes>>

Writing(p) == StartChange(p) \/ SaveReview(p) \/ AfterChange(p)
Worker == TakeJob \/ CalculateRating \/ WriteRating

ReviewsNext ==
  \/ \E p \in Writers : Writing(p) \/ CutRequest(p)
  \/ Worker
  \/ FailJob
  \/ CrashWorker
=============================================================================
