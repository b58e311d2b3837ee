------------------------------- MODULE Banning ------------------------------
(***************************************************************************)
(* Strikes and bans: admins give strikes to users, confirm or revoke them, *)
(* ban users and contents by hand; the banning molecule consumes           *)
(* "strikes.created" and "strikes.revoked" and bans or unbans the user.    *)
(*                                                                         *)
(* As in module Payments, a request or an event handler is a process, each *)
(* of its database calls is one action, events are delivered at most once  *)
(* and in any order, and a fault cuts a handler or loses an event.  An     *)
(* event is named by the strike it is about: two emissions for the same    *)
(* strike that are both in flight are one.                                 *)
(***************************************************************************)
EXTENDS Integers, FiniteSets

CONSTANTS
  Users,      \* users that may get strikes
  Strikes,    \* the strikes that may be created
  Contents,   \* albums, photos, videos and messages
  Procs,      \* running requests and handlers
  None,       \* no content referenced
  Target,     \* the targetUser of a strike
  Ref,        \* the content a strike refers to, or None
  Threshold,  \* strikeThreshold of the configuration
  Moderated,  \* the users admins ban and unban by hand
  MaxEdits,   \* bound: strikes patched or deleted by an admin
  MaxFaults   \* bound: handlers cut short and events lost

ASSUME StrikesAssumption ==
  /\ IsFiniteSet(Strikes)
  /\ Target \in [Strikes -> Users]
  /\ Ref \in [Strikes -> Contents \cup {None}]
  /\ None \notin Contents
ASSUME ThresholdAssumption == Threshold \in Nat \ {0}
ASSUME ModeratedAssumption == Moderated \subseteq Users
ASSUME BanBoundsAssumption == MaxEdits \in Nat /\ MaxFaults \in Nat

VARIABLES
  strike,     \* strike |-> state, with "none" before and "removed" after
  suspended,  \* user |-> suspendedAt is set
  reason,     \* user |-> banningReasonType
  hidden,     \* contents whose suspendedAt is set
  sessions,   \* users with a refresh token
  created,    \* strikes.created events in flight, by strike
  revoked,    \* strikes.revoked events in flight, by strike
  job,        \* handler |-> where it is and what it holds
  edits,      \* admin edits made (bounded by MaxEdits)
  faults      \* faults suffered (bounded by MaxFaults)

vars == <<strike, suspended, reason, hidden, sessions,
          created, revoked, job, edits, faults>>

-----------------------------------------------------------------------------
StoredStates == {"created", "confirmed", "revoked"}
StrikeStates == StoredStates \cup {"none", "removed"}
Reasons == {"byAdmin", "byStrikes"}

IdleJob == [pc |-> "idle"]
Job == {IdleJob}
         \cup [pc : {"save"}, strike : Strikes, to : {"confirmed", "revoked"}]
         \cup [pc : {"ban", "logout", "recount", "readReason", "unban"},
               user : Users]

Idle(p) == job[p].pc = "idle"
Become(p, j) == job' = [job EXCEPT ![p] = j]
Finish(p) == Become(p, IdleJob)
Goto(p, pc, u) == Become(p, [pc |-> pc, user |-> u])

(* Mutant: revoked strikes counted too.                                    *)
AllStrikesOf(u) == {s \in Strikes : Target[s] = u /\ strike[s] \in StoredStates}

(* The strikes countDocuments counts.                                      *)
ActiveStrikes(u) ==
  {s \in Strikes : Target[s] = u /\ strike[s] \in StoredStates \ {"revoked"}}
Count(u) == Cardinality(ActiveStrikes(u))

Init ==
  /\ strike = [s \in Strikes |-> "none"]
  /\ suspended = [u \in Users |-> FALSE]
  /\ reason = [u \in Users |-> "none"]
  /\ hidden = {}
  /\ sessions = {}
  /\ created = {}
  /\ revoked = {}
  /\ job = [p \in Procs |-> IdleJob]
  /\ edits = 0
  /\ faults = 0

-----------------------------------------------------------------------------
(* Requests about strikes.                                                 *)

(* POST /admin/strikes: insert, then afterSave emits.                      *)
CreateStrike(s) ==
  /\ strike[s] = "none"
  /\ strike' = [strike EXCEPT ![s] = "created"]
  /\ created' = created \cup {s}
  /\ UNCHANGED <<suspended, reason, hidden, sessions, revoked,
                 job, edits, faults>>

(* confirm and revoke: locateModel, then changeState on that snapshot.     *)
ReadStrike(p, s, to) ==
  /\ Idle(p)
  /\ strike[s] = "created"
  /\ Become(p, [pc |-> "save", strike |-> s, to |-> to])
  /\ UNCHANGED <<strike, suspended, reason, hidden, sessions,
                 created, revoked, edits, faults>>

(* save() writes the new state over whatever it has become, and fails if   *)
(* the strike is gone; revoke then emits.                                  *)
SaveStrike(p) ==
  LET s == job[p].strike
  IN /\ job[p].pc = "save"
     /\ IF strike[s] = "removed"
        THEN UNCHANGED <<strike, revoked>>
        ELSE /\ strike' = [strike EXCEPT ![s] = job[p].to]
             /\ revoked' = IF job[p].to = "revoked" THEN revoked \cup {s}
                                                    ELSE revoked
     /\ Finish(p)
     /\ UNCHANGED <<suspended, reason, hidden, sessions, created, edits, faults>>

(* PATCH and DELETE by an admin: any state, and no event.                  *)
EditStrike(s, st) ==
  /\ edits < MaxEdits
  /\ edits' = edits + 1
  /\ strike[s] \in StoredStates
  /\ strike' = [strike EXCEPT ![s] = st]
  /\ UNCHANGED <<suspended, reason, hidden, sessions,
                 created, revoked, job, faults>>

-----------------------------------------------------------------------------
(* Requests about users and contents.                                      *)

BanUser(p, u) ==
  /\ Idle(p)
  /\ suspended' = [suspended EXCEPT ![u] = TRUE]
  /\ reason' = [reason EXCEPT ![u] = "byAdmin"]
  /\ Goto(p, "logout", u)
  /\ UNCHANGED <<strike, hidden, sessions, created, revoked, edits, faults>>

ClearBan(u) ==
  /\ suspended' = [suspended EXCEPT ![u] = FALSE]
  /\ reason' = [reason EXCEPT ![u] = "none"]

UnbanUser(u) ==
  /\ ClearBan(u)
  /\ UNCHANGED <<strike, hidden, sessions, created, revoked, job, edits, faults>>

(* ban of an album, photo, video or message: the content is suspended, and *)
(* afterBan fails, the strike it creates having no targetUser and no type. *)
BanContent(c) ==
  /\ hidden' = hidden \cup {c}
  /\ UNCHANGED <<strike, suspended, reason, sessions,
                 created, revoked, job, edits, faults>>

(* The password grant, which does not look at suspendedAt.                 *)
LogIn(u) ==
  /\ sessions' = sessions \cup {u}
  /\ UNCHANGED <<strike, suspended, reason, hidden,
                 created, revoked, job, edits, faults>>

-----------------------------------------------------------------------------
(* The handler of strikes.created: count, ban, log out.                    *)

(* Mutants: one strike too late; one strike too early.                     *)
AboveThreshold(u) == Count(u) > Threshold
NearThreshold(u) == Count(u) + 1 >= Threshold

AtThreshold(u) == Count(u) >= Threshold

CountOnCreated(p, s) ==
  /\ Idle(p)
  /\ s \in created
  /\ created' = created \ {s}
  /\ IF AtThreshold(Target[s])
     THEN Goto(p, "ban", Target[s])
     ELSE UNCHANGED job
  /\ UNCHANGED <<strike, suspended, reason, hidden, sessions,
                 revoked, edits, faults>>

(* Mutant: a user is logged out only when the ban is the first one.        *)
BanQuietly(p) ==
  LET u == job[p].user
  IN /\ job[p].pc = "ban"
     /\ suspended' = [suspended EXCEPT ![u] = TRUE]
     /\ reason' = [reason EXCEPT ![u] = "byStrikes"]
     /\ Finish(p)
     /\ UNCHANGED <<strike, hidden, sessions, created, revoked, edits, faults>>

(* suspendedAt is a new date, so the update always modifies the user.      *)
BanByStrikes(p) ==
  LET u == job[p].user
  IN /\ job[p].pc = "ban"
     /\ suspended' = [suspended EXCEPT ![u] = TRUE]
     /\ reason' = [reason EXCEPT ![u] = "byStrikes"]
     /\ Goto(p, "logout", u)
     /\ UNCHANGED <<strike, hidden, sessions, created, revoked, edits, faults>>

LogOut(p) ==
  /\ job[p].pc = "logout"
  /\ sessions' = sessions \ {job[p].user}
  /\ Finish(p)
  /\ UNCHANGED <<strike, suspended, reason, hidden,
                 created, revoked, edits, faults>>

-----------------------------------------------------------------------------
(* The handler of strikes.revoked: show the content, count, read the       *)
(* reason, unban.                                                          *)

(* Mutant: the content stays hidden.                                       *)
IgnoreContent(p, s) ==
  /\ Idle(p)
  /\ s \in revoked
  /\ revoked' = revoked \ {s}
  /\ Goto(p, "recount", Target[s])
  /\ UNCHANGED <<strike, suspended, reason, hidden, sessions,
                 created, edits, faults>>

ShowContent(p, s) ==
  /\ Idle(p)
  /\ s \in revoked
  /\ revoked' = revoked \ {s}
  /\ hidden' = hidden \ {Ref[s]}
  /\ Goto(p, "recount", Target[s])
  /\ UNCHANGED <<strike, suspended, reason, sessions, created, edits, faults>>

Recount(p) ==
  LET u == job[p].user
  IN /\ job[p].pc = "recount"
     /\ IF Count(u) < Threshold THEN Goto(p, "readReason", u) ELSE Finish(p)
     /\ UNCHANGED <<strike, suspended, reason, hidden, sessions,
                    created, revoked, edits, faults>>

(* Mutant: a ban by an admin lifted too.                                   *)
IgnoreReason(p) ==
  /\ job[p].pc = "readReason"
  /\ Goto(p, "unban", job[p].user)
  /\ UNCHANGED <<strike, suspended, reason, hidden, sessions,
                 created, revoked, edits, faults>>

ReadReason(p) ==
  LET u == job[p].user
  IN /\ job[p].pc = "readReason"
     /\ IF reason[u] = "byStrikes" THEN Goto(p, "unban", u) ELSE Finish(p)
     /\ UNCHANGED <<strike, suspended, reason, hidden, sessions,
                    created, revoked, edits, faults>>

Unban(p) ==
  /\ job[p].pc = "unban"
  /\ ClearBan(job[p].user)
  /\ Finish(p)
  /\ UNCHANGED <<strike, hidden, sessions, created, revoked, edits, faults>>

-----------------------------------------------------------------------------
(* Faults.                                                                 *)

Fault == faults < MaxFaults /\ faults' = faults + 1

AbortJob(p) ==
  /\ Fault
  /\ ~Idle(p)
  /\ Finish(p)
  /\ UNCHANGED <<strike, suspended, reason, hidden, sessions,
                 created, revoked, edits>>

LoseCreated(s) ==
  /\ Fault
  /\ created' = created \ {s}
  /\ UNCHANGED <<strike, suspended, reason, hidden, sessions,
                 revoked, job, edits>>

LoseRevoked(s) ==
  /\ Fault
  /\ revoked' = revoked \ {s}
  /\ UNCHANGED <<strike, suspended, reason, hidden, sessions,
                 created, job, edits>>

-----------------------------------------------------------------------------
AdminRequest(p) ==
  \/ \E s \in Strikes, to \in {"confirmed", "revoked"} : ReadStrike(p, s, to)
  \/ \E u \in Moderated : BanUser(p, u)

Request ==
  \/ \E s \in Strikes : CreateStrike(s)
  \/ \E s \in Strikes, st \in StoredStates \cup {"removed"} : EditStrike(s, st)
  \/ \E u \in Moderated : UnbanUser(u)
  \/ \E c \in Contents : BanContent(c)
  \/ \E u \in Users : LogIn(u)

Handle(p) ==
  \/ \E s \in created : CountOnCreated(p, s)
  \/ \E s \in revoked : ShowContent(p, s)

Continue(p) ==
  \/ SaveStrike(p)
  \/ BanByStrikes(p)
  \/ LogOut(p)
  \/ Recount(p)
  \/ ReadReason(p)
  \/ Unban(p)

Break ==
  \/ \E p \in Procs : AbortJob(p)
  \/ \E s \in created : LoseCreated(s)
  \/ \E s \in revoked : LoseRevoked(s)

Next ==
  \/ \E p \in Procs : AdminRequest(p) \/ Handle(p) \/ Continue(p)
  \/ Request
  \/ Break

Spec == Init /\ [][Next]_vars

(* Node resumes every handler; the transporter delivers every event it     *)
(* does not lose.  Each event has a handler of its own, so that no other   *)
(* event and no request can hold it back for ever.                         *)
FairSpec ==
  /\ Spec
  /\ \A p \in Procs : WF_vars(Continue(p))
  /\ \A s \in Strikes : /\ SF_vars(\E p \in Procs : CountOnCreated(p, s))
                        /\ SF_vars(\E p \in Procs : ShowContent(p, s))
=============================================================================
