---------------------------- MODULE BanningProofs -----------------------------
(***************************************************************************)
(* Proofs about strikes and bans: for any users, strikes and contents, any *)
(* threshold, and any number of handlers that interleave, lose events or   *)
(* are cut short.                                                          *)
(***************************************************************************)
EXTENDS BanningProperties, FiniteSetTheorems, TLAPS

(* The actions that run in a handler p, and the others.                    *)
Step(p) == AdminRequest(p) \/ Handle(p) \/ Continue(p)

-----------------------------------------------------------------------------
(* Types                                                                   *)

LEMMA InitTyped == Init => TypeOK
BY ThresholdAssumption, BanBoundsAssumption
   DEF Init, TypeOK, StrikeStates, StoredStates, Reasons, Job, IdleJob

(* What a handler becomes is a handler.                                    *)
LEMMA BecomeTyped ==
  ASSUME TypeOK, NEW p \in Procs, NEW j \in Job, Become(p, j)
  PROVE  job' \in [Procs -> Job]
BY DEF TypeOK, Become

LEMMA GotoJob ==
  ASSUME NEW pc \in {"ban", "logout", "recount", "readReason", "unban"},
         NEW u \in Users
  PROVE  [pc |-> pc, user |-> u] \in Job
BY DEF Job

LEMMA IdleIsJob == IdleJob \in Job
BY DEF Job

(* A handler past "save" is about a user.                                  *)
LEMMA JobOfUser ==
  ASSUME TypeOK, NEW p \in Procs,
         job[p].pc \in {"ban", "logout", "recount", "readReason", "unban"}
  PROVE  job[p].user \in Users
BY DEF TypeOK, Job, IdleJob

LEMMA JobOfStrike ==
  ASSUME TypeOK, NEW p \in Procs, job[p].pc = "save"
  PROVE  job[p].strike \in Strikes /\ job[p].to \in {"confirmed", "revoked"}
BY DEF TypeOK, Job, IdleJob

LEMMA NextTyped == TypeOK /\ [Next]_vars => TypeOK'
<1> SUFFICES ASSUME TypeOK, [Next]_vars PROVE TypeOK'
  OBVIOUS
<1> USE DEF StrikeStates, StoredStates, Reasons
<1>1. ASSUME NEW p \in Procs, AdminRequest(p) PROVE TypeOK'
  <2>1. ASSUME NEW s \in Strikes, NEW to \in {"confirmed", "revoked"},
               ReadStrike(p, s, to)
        PROVE  TypeOK'
    <3>1. [pc |-> "save", strike |-> s, to |-> to] \in Job
      BY DEF Job
    <3>2. job' \in [Procs -> Job]
      BY <2>1, <3>1, BecomeTyped DEF ReadStrike
    <3> QED
      BY <2>1, <3>2 DEF ReadStrike, TypeOK
  <2>2. ASSUME NEW u \in Moderated, BanUser(p, u) PROVE TypeOK'
    <3>1. u \in Users
      BY ModeratedAssumption
    <3>2. job' \in [Procs -> Job]
      BY <2>2, <3>1, GotoJob, BecomeTyped DEF BanUser, Goto
    <3> QED
      BY <2>2, <3>1, <3>2 DEF BanUser, TypeOK
  <2> QED
    BY <1>1, <2>1, <2>2 DEF AdminRequest
<1>2. ASSUME NEW p \in Procs, Handle(p) PROVE TypeOK'
  <2>1. ASSUME NEW s \in created, CountOnCreated(p, s) PROVE TypeOK'
    <3>1. Target[s] \in Users
      BY StrikesAssumption DEF TypeOK
    <3>2. job' \in [Procs -> Job]
      BY <2>1, <3>1, GotoJob, BecomeTyped DEF CountOnCreated, Goto, TypeOK
    <3> QED
      BY <2>1, <3>2 DEF CountOnCreated, TypeOK
  <2>2. ASSUME NEW s \in revoked, ShowContent(p, s) PROVE TypeOK'
    <3>1. Target[s] \in Users
      BY StrikesAssumption DEF TypeOK
    <3>2. job' \in [Procs -> Job]
      BY <2>2, <3>1, GotoJob, BecomeTyped DEF ShowContent, Goto
    <3> QED
      BY <2>2, <3>2 DEF ShowContent, TypeOK
  <2> QED
    BY <1>2, <2>1, <2>2 DEF Handle
<1>3. ASSUME NEW p \in Procs, Continue(p) PROVE TypeOK'
  <2>1. CASE SaveStrike(p)
    <3>1. job' \in [Procs -> Job]
      BY <2>1, IdleIsJob, BecomeTyped DEF SaveStrike, Finish
    <3>2. job[p].strike \in Strikes /\ job[p].to \in {"confirmed", "revoked"}
      BY <2>1, JobOfStrike DEF SaveStrike
    <3>3. strike' \in [Strikes -> StrikeStates] /\ revoked' \subseteq Strikes
      BY <2>1, <3>2 DEF SaveStrike, TypeOK
    <3> QED
      BY <2>1, <3>1, <3>3 DEF SaveStrike, TypeOK
  <2>2. CASE BanByStrikes(p)
    <3>1. job[p].user \in Users
      BY <2>2, JobOfUser DEF BanByStrikes
    <3>2. job' \in [Procs -> Job]
      BY <2>2, <3>1, GotoJob, BecomeTyped DEF BanByStrikes, Goto
    <3> QED
      BY <2>2, <3>1, <3>2 DEF BanByStrikes, TypeOK
  <2>3. CASE LogOut(p)
    <3>1. job' \in [Procs -> Job]
      BY <2>3, IdleIsJob, BecomeTyped DEF LogOut, Finish
    <3> QED
      BY <2>3, <3>1 DEF LogOut, TypeOK
  <2>4. CASE Recount(p)
    <3>1. job[p].user \in Users
      BY <2>4, JobOfUser DEF Recount
    <3>2. job' \in [Procs -> Job]
      BY <2>4, <3>1, GotoJob, IdleIsJob, BecomeTyped DEF Recount, Goto, Finish
    <3> QED
      BY <2>4, <3>2 DEF Recount, TypeOK
  <2>5. CASE ReadReason(p)
    <3>1. job[p].user \in Users
      BY <2>5, JobOfUser DEF ReadReason
    <3>2. job' \in [Procs -> Job]
      BY <2>5, <3>1, GotoJob, IdleIsJob, BecomeTyped
         DEF ReadReason, Goto, Finish
    <3> QED
      BY <2>5, <3>2 DEF ReadReason, TypeOK
  <2>6. CASE Unban(p)
    <3>1. job[p].user \in Users
      BY <2>6, JobOfUser DEF Unban
    <3>2. job' \in [Procs -> Job]
      BY <2>6, IdleIsJob, BecomeTyped DEF Unban, Finish
    <3> QED
      BY <2>6, <3>1, <3>2 DEF Unban, ClearBan, TypeOK
  <2> QED
    BY <1>3, <2>1, <2>2, <2>3, <2>4, <2>5, <2>6 DEF Continue
<1>4. CASE Request
  <2>1. ASSUME NEW s \in Strikes, CreateStrike(s) PROVE TypeOK'
    BY <2>1 DEF CreateStrike, TypeOK
  <2>2. ASSUME NEW s \in Strikes, NEW st \in StoredStates \cup {"removed"},
               EditStrike(s, st)
        PROVE  TypeOK'
    BY <2>2, BanBoundsAssumption DEF EditStrike, TypeOK
  <2>3. ASSUME NEW u \in Moderated, UnbanUser(u) PROVE TypeOK'
    BY <2>3, ModeratedAssumption DEF UnbanUser, ClearBan, TypeOK
  <2>4. ASSUME NEW c \in Contents, BanContent(c) PROVE TypeOK'
    BY <2>4 DEF BanContent, TypeOK
  <2>5. ASSUME NEW u \in Users, LogIn(u) PROVE TypeOK'
    BY <2>5 DEF LogIn, TypeOK
  <2> QED
    BY <1>4, <2>1, <2>2, <2>3, <2>4, <2>5 DEF Request
<1>5. CASE Break
  <2>0. Fault => faults' \in 0 .. MaxFaults
    BY BanBoundsAssumption DEF Fault, TypeOK
  <2>1. ASSUME NEW p \in Procs, AbortJob(p) PROVE TypeOK'
    <3>1. job' \in [Procs -> Job]
      BY <2>1, IdleIsJob, BecomeTyped DEF AbortJob, Finish
    <3> QED
      BY <2>0, <2>1, <3>1 DEF AbortJob, TypeOK
  <2>2. ASSUME NEW s \in created, LoseCreated(s) PROVE TypeOK'
    BY <2>0, <2>2 DEF LoseCreated, TypeOK
  <2>3. ASSUME NEW s \in revoked, LoseRevoked(s) PROVE TypeOK'
    BY <2>0, <2>3 DEF LoseRevoked, TypeOK
  <2> QED
    BY <1>5, <2>1, <2>2, <2>3 DEF Break
<1>6. CASE UNCHANGED vars
  BY <1>6 DEF vars, TypeOK
<1> QED
  BY <1>1, <1>2, <1>3, <1>4, <1>5, <1>6 DEF Next

(* Strikes, users, contents, sessions, events and handlers hold values of  *)
(* their types, and a user has a banning reason exactly while suspended    *)
(* (user.model.ts:888-890).                                                *)
THEOREM BanningTyped == Spec => []TypeOK
BY InitTyped, NextTyped, PTL DEF Spec

-----------------------------------------------------------------------------
(* The strikes a user was ever given only grow: whatever an admin does to  *)
(* a strike, it is never again one that was not given.  A count that once  *)
(* reached the threshold therefore stays true, however late the handler   *)
(* that made it writes.                                                    *)

Enough(u) == Cardinality(GivenTo(u)) >= Threshold

LEMMA GivenFinite ==
  ASSUME NEW u
  PROVE  IsFiniteSet(GivenTo(u)) /\ Cardinality(GivenTo(u)) \in Nat
BY StrikesAssumption, FS_Subset, FS_CardinalityType DEF GivenTo

(* No step takes a strike back to where it was not given.                  *)
LEMMA StrikesStay ==
  ASSUME TypeOK, [Next]_vars, NEW s \in Strikes, strike[s] # "none"
  PROVE  strike'[s] # "none"
<1>1. ASSUME NEW p \in Procs, AdminRequest(p) \/ Handle(p) PROVE strike' = strike
  BY <1>1 DEF AdminRequest, ReadStrike, BanUser, Handle, CountOnCreated,
              ShowContent
<1>2. ASSUME NEW p \in Procs, Continue(p) PROVE strike'[s] # "none"
  <2>1. CASE SaveStrike(p)
    <3>1. job[p].strike \in Strikes /\ job[p].to \in {"confirmed", "revoked"}
      BY <2>1, JobOfStrike DEF SaveStrike
    <3> QED
      BY <2>1, <3>1 DEF SaveStrike, TypeOK
  <2>2. CASE ~SaveStrike(p)
    BY <1>2, <2>2 DEF Continue, BanByStrikes, LogOut, Recount, ReadReason, Unban
  <2> QED
    BY <2>1, <2>2
<1>3. CASE Request
  BY <1>3 DEF Request, CreateStrike, EditStrike, UnbanUser, BanContent, LogIn,
              StoredStates, TypeOK
<1>4. CASE Break
  BY <1>4 DEF Break, AbortJob, LoseCreated, LoseRevoked
<1> QED
  BY <1>1, <1>2, <1>3, <1>4 DEF Next, vars

LEMMA EnoughStays ==
  ASSUME TypeOK, [Next]_vars, NEW u, Enough(u)
  PROVE  Enough(u)'
<1> PICK now : now = GivenTo(u)
  OBVIOUS
<1> PICK next : next = GivenTo(u)'
  OBVIOUS
<1>1. now \subseteq next
  BY StrikesStay DEF GivenTo
<1>2. IsFiniteSet(next)
  BY StrikesAssumption, FS_Subset DEF GivenTo
<1>3. Cardinality(now) \in Nat /\ Cardinality(next) \in Nat
  BY <1>1, <1>2, FS_Subset, FS_CardinalityType
<1>4. Cardinality(now) <= Cardinality(next)
  BY <1>1, <1>2, FS_Subset
<1> QED
  BY <1>3, <1>4, ThresholdAssumption DEF Enough

(* What countDocuments counts was given.                                   *)
LEMMA CountedWereGiven ==
  ASSUME NEW u, AtThreshold(u)
  PROVE  Enough(u)
<1>1. ActiveStrikes(u) \subseteq GivenTo(u)
  BY DEF ActiveStrikes, GivenTo, StoredStates
<1>2. IsFiniteSet(GivenTo(u)) /\ Cardinality(GivenTo(u)) \in Nat
  BY GivenFinite
<1>3. Cardinality(ActiveStrikes(u)) <= Cardinality(GivenTo(u))
  BY <1>1, <1>2, FS_Subset
<1>4. Cardinality(ActiveStrikes(u)) \in Nat
  BY <1>1, <1>2, FS_Subset, FS_CardinalityType
<1> QED
  BY <1>2, <1>3, <1>4, ThresholdAssumption DEF AtThreshold, Count, Enough

-----------------------------------------------------------------------------
(* The invariant: not only a user banned by strikes, but also one whom a   *)
(* handler is about to ban by strikes, and one whose ban a handler is      *)
(* about to lift because it read that reason, were given enough strikes.   *)

Decided(p) == job[p].pc \in {"ban", "unban"}

StrikesInv ==
  /\ BanNeedsStrikes
  /\ \A p \in Procs : Decided(p) => Enough(job[p].user)

LEMMA InitStrikesInv == Init => StrikesInv
BY DEF Init, StrikesInv, BanNeedsStrikes, Decided, IdleJob

(* A step that decides nothing new and bans nobody by strikes keeps it.    *)
LEMMA Undecided ==
  ASSUME TypeOK, StrikesInv, [Next]_vars,
         \A u \in Users : reason'[u] = "byStrikes"
           => reason[u] = "byStrikes" \/ Enough(u),
         \A p \in Procs : Decided(p)'
           => \/ job'[p] = job[p]
              \/ Enough(job'[p].user)
  PROVE  StrikesInv'
<1>1. \A u : Enough(u) => Enough(u)'
  BY EnoughStays
<1>2. BanNeedsStrikes'
  <2> SUFFICES ASSUME NEW u \in Users, reason'[u] = "byStrikes"
               PROVE  Enough(u)'
    BY DEF BanNeedsStrikes, Enough
  <2>1. Enough(u)
    BY DEF StrikesInv, BanNeedsStrikes, Enough
  <2> QED
    BY <1>1, <2>1
<1>3. ASSUME NEW p \in Procs, Decided(p)' PROVE Enough(job[p].user)'
  <2> PICK u : u = job'[p].user
    OBVIOUS
  <2>1. Enough(u)
    BY <1>3 DEF StrikesInv, Decided
  <2>2. Enough(u)'
    BY <1>1, <2>1
  <2> QED
    BY <2>2 DEF Enough, GivenTo
<1> QED
  BY <1>2, <1>3 DEF StrikesInv

LEMMA StepStrikesInv ==
  TypeOK /\ StrikesInv /\ [Next]_vars => StrikesInv'
<1> SUFFICES ASSUME TypeOK, StrikesInv, [Next]_vars PROVE StrikesInv'
  OBVIOUS
<1> USE DEF Decided, Become, Goto, Finish, IdleJob
<1> DEFINE Reasoned == \A u \in Users : reason'[u] = "byStrikes"
                         => reason[u] = "byStrikes" \/ Enough(u)
           Founded == \A p \in Procs : Decided(p)'
                        => job'[p] = job[p] \/ Enough(job'[p].user)
<1>1. ASSUME NEW p \in Procs, AdminRequest(p) PROVE Reasoned /\ Founded
  BY <1>1, ModeratedAssumption DEF AdminRequest, ReadStrike, BanUser, TypeOK
<1>2. ASSUME NEW p \in Procs, Handle(p) PROVE Reasoned /\ Founded
  <2>1. ASSUME NEW s \in created, CountOnCreated(p, s) PROVE Reasoned /\ Founded
    <3>1. AtThreshold(Target[s]) => Enough(Target[s])
      BY CountedWereGiven
    <3> QED
      BY <2>1, <3>1 DEF CountOnCreated, TypeOK
  <2>2. ASSUME NEW s \in revoked, ShowContent(p, s) PROVE Reasoned /\ Founded
    BY <2>2 DEF ShowContent, TypeOK
  <2> QED
    BY <1>2, <2>1, <2>2 DEF Handle
<1>3. ASSUME NEW p \in Procs, Continue(p) PROVE Reasoned /\ Founded
  <2>1. CASE SaveStrike(p)
    BY <2>1 DEF SaveStrike, TypeOK
  <2>2. CASE BanByStrikes(p)
    <3>1. job[p].user \in Users /\ Enough(job[p].user)
      BY <2>2, JobOfUser DEF BanByStrikes, StrikesInv
    <3> QED
      BY <2>2, <3>1 DEF BanByStrikes, TypeOK
  <2>3. CASE LogOut(p)
    BY <2>3 DEF LogOut, TypeOK
  <2>4. CASE Recount(p)
    BY <2>4 DEF Recount, TypeOK
  <2>5. CASE ReadReason(p)
    <3>1. reason[job[p].user] = "byStrikes" => Enough(job[p].user)
      BY <2>5, JobOfUser DEF ReadReason, StrikesInv, BanNeedsStrikes, Enough
    <3> QED
      BY <2>5, <3>1 DEF ReadReason, TypeOK
  <2>6. CASE Unban(p)
    BY <2>6, JobOfUser DEF Unban, ClearBan, TypeOK
  <2> QED
    BY <1>3, <2>1, <2>2, <2>3, <2>4, <2>5, <2>6 DEF Continue
<1>4. Request => Reasoned /\ Founded
  BY ModeratedAssumption DEF Request, CreateStrike, EditStrike, UnbanUser,
     ClearBan, BanContent, LogIn, TypeOK
<1>5. Break => Reasoned /\ Founded
  BY DEF Break, AbortJob, LoseCreated, LoseRevoked, TypeOK
<1>6. UNCHANGED vars => Reasoned /\ Founded
  BY DEF vars
<1>7. Reasoned /\ Founded
  BY <1>1, <1>2, <1>3, <1>4, <1>5, <1>6 DEF Next
<1> HIDE DEF Decided
<1> QED
  BY <1>7, Undecided

LEMMA StrikesInvAlways == Spec => [](TypeOK /\ StrikesInv)
<1>1. Init => TypeOK /\ StrikesInv
  BY InitTyped, InitStrikesInv
<1>2. TypeOK /\ StrikesInv /\ [Next]_vars => (TypeOK /\ StrikesInv)'
  BY NextTyped, StepStrikesInv
<1> QED
  BY <1>1, <1>2, PTL DEF Spec

(* Whatever the order of requests, events and faults, a user is banned by  *)
(* strikes only after getting Threshold of them (banning.molecule.ts:34).  *)
THEOREM BanNeedsStrikesAlways == Spec => []BanNeedsStrikes
<1>1. TypeOK /\ StrikesInv => BanNeedsStrikes
  BY DEF StrikesInv
<1> QED
  BY <1>1, StrikesInvAlways, PTL

-----------------------------------------------------------------------------
(* A handler lifts a ban only after it read that the reason was the        *)
(* strikes; by StrikesInv its user was then given enough of them, and was  *)
(* so ever after, even if an admin has banned the user in the meantime.    *)

LEMMA LiftedAfterStrikes ==
  ASSUME TypeOK, StrikesInv, [Next]_vars, job' # job,
         NEW u \in Users, reason[u] = "byAdmin", ~Enough(u)
  PROVE  suspended'[u]
<1>1. suspended[u]
  BY DEF TypeOK
<1>2. ASSUME NEW p \in Procs, AdminRequest(p) \/ Handle(p) PROVE suspended'[u]
  BY <1>1, <1>2, ModeratedAssumption
     DEF AdminRequest, ReadStrike, BanUser, Handle, CountOnCreated, ShowContent,
         TypeOK
<1>3. ASSUME NEW p \in Procs, Continue(p) PROVE suspended'[u]
  <2>1. CASE Unban(p)
    <3>1. Enough(job[p].user)
      BY <2>1 DEF Unban, StrikesInv, Decided
    <3>2. job[p].user # u
      BY <3>1
    <3> QED
      BY <1>1, <2>1, <3>2 DEF Unban, ClearBan, TypeOK
  <2>2. CASE BanByStrikes(p)
    BY <1>1, <2>2, JobOfUser DEF BanByStrikes, TypeOK
  <2>3. CASE SaveStrike(p) \/ LogOut(p) \/ Recount(p) \/ ReadReason(p)
    BY <1>1, <2>3 DEF SaveStrike, LogOut, Recount, ReadReason
  <2> QED
    BY <1>3, <2>1, <2>2, <2>3 DEF Continue
<1>4. ~Request
  BY DEF Request, CreateStrike, EditStrike, UnbanUser, BanContent, LogIn
<1>5. Break => suspended' = suspended
  BY DEF Break, AbortJob, LoseCreated, LoseRevoked
<1>6. ~UNCHANGED vars
  BY DEF vars
<1> QED
  BY <1>1, <1>2, <1>3, <1>4, <1>5, <1>6 DEF Next

(* While a user has fewer than Threshold strikes, no handler lifts a ban   *)
(* decided by an admin, whichever revocations and bans race with it        *)
(* (banning.molecule.ts:61-63).                                            *)
THEOREM AdminBanHoldsAlways == Spec => AdminBanHolds
<1> DEFINE Holds == \A u \in Users :
             reason[u] = "byAdmin" /\ Cardinality(GivenTo(u)) < Threshold
               => suspended'[u] \/ ByRequest
<1>1. TypeOK /\ StrikesInv /\ [Next]_vars => [Holds]_vars
  <2> SUFFICES ASSUME TypeOK, StrikesInv, [Next]_vars, NEW u \in Users,
                      reason[u] = "byAdmin", Cardinality(GivenTo(u)) < Threshold,
                      ~ByRequest
               PROVE  suspended'[u]
    OBVIOUS
  <2>1. ~Enough(u)
    BY GivenFinite, ThresholdAssumption DEF Enough
  <2>2. job' # job
    BY DEF ByRequest
  <2> QED
    BY <2>1, <2>2, LiftedAfterStrikes
<1>2. Spec => [][Holds]_vars
  BY <1>1, StrikesInvAlways, PTL DEF Spec
<1> QED
  BY <1>2 DEF AdminBanHolds

-----------------------------------------------------------------------------
(* Handlers one at a time.  A ban that is missing, or one too many, has an *)
(* event or the handler at work still to answer for it: what raises the    *)
(* count of a user leaves a strikes.created event behind, what lowers it a *)
(* strikes.revoked event, and a handler that has counted is overtaken by   *)
(* new strikes only.                                                       *)

OneHandler == \A p, q \in Procs : p = q

About(p, pcs, u) == job[p].pc \in pcs /\ job[p].user = u
CreatedFor(u) == \E s \in created : Target[s] = u
RevokedFor(u) == \E s \in revoked : Target[s] = u

MissingBan(u) ==
  ~suspended[u] /\ AtThreshold(u)
    => CreatedFor(u) \/ \E p \in Procs : About(p, {"ban"}, u)
NeedlessBan(u) ==
  suspended[u] /\ ~AtThreshold(u)
    => \/ RevokedFor(u)
       \/ \E p \in Procs : About(p, {"recount", "readReason", "unban"}, u)
CountStands(u) ==
  \A p \in Procs :
    /\ About(p, {"ban"}, u) => AtThreshold(u)
    /\ About(p, {"readReason", "unban"}, u) => ~AtThreshold(u) \/ CreatedFor(u)

BansByStrikesOnly == \A u \in Users \ Moderated : reason[u] # "byAdmin"
RuledOnce == \A p \in Procs : job[p].pc = "save" => strike[job[p].strike] = "created"

Answered(u) == MissingBan(u) /\ NeedlessBan(u) /\ CountStands(u)

SettledInv ==
  /\ BansByStrikesOnly
  /\ faults = 0 /\ edits = 0 =>
       RuledOnce /\ \A u \in Users \ Moderated : Answered(u)

LEMMA InitSettled == Init => SettledInv
<1> SUFFICES ASSUME Init PROVE SettledInv
  OBVIOUS
<1>1. ASSUME NEW u PROVE ~AtThreshold(u)
  <2>1. ActiveStrikes(u) = {}
    BY DEF Init, ActiveStrikes, StoredStates
  <2> QED
    BY <2>1, FS_EmptySet, ThresholdAssumption DEF AtThreshold, Count
<1> QED
  BY <1>1 DEF Init, SettledInv, BansByStrikesOnly, RuledOnce, Answered,
              MissingBan, NeedlessBan, CountStands, About, IdleJob

(* More strikes that count cannot make the count fall below the threshold. *)
LEMMA MoreCount ==
  ASSUME NEW S \in SUBSET Strikes, NEW T \in SUBSET S, Cardinality(T) >= Threshold
  PROVE  Cardinality(S) >= Threshold
<1>1. IsFiniteSet(S)
  BY StrikesAssumption, FS_Subset
<1>2. IsFiniteSet(T) /\ Cardinality(T) <= Cardinality(S)
  BY <1>1, FS_Subset
<1>3. Cardinality(S) \in Nat /\ Cardinality(T) \in Nat
  BY <1>1, <1>2, FS_CardinalityType
<1> QED
  BY <1>2, <1>3, ThresholdAssumption

LEMMA CountAfter ==
  ASSUME NEW u
  PROVE  /\ ActiveStrikes(u) \subseteq ActiveStrikes(u)'
              => (AtThreshold(u) => AtThreshold(u)')
         /\ ActiveStrikes(u)' \subseteq ActiveStrikes(u)
              => (AtThreshold(u)' => AtThreshold(u))
<1> PICK now : now = ActiveStrikes(u)
  OBVIOUS
<1> PICK next : next = ActiveStrikes(u)'
  OBVIOUS
<1>1. now \in SUBSET Strikes /\ next \in SUBSET Strikes
  BY DEF ActiveStrikes
<1>2. AtThreshold(u) <=> Cardinality(now) >= Threshold
  BY DEF AtThreshold, Count
<1>3. AtThreshold(u)' <=> Cardinality(next) >= Threshold
  BY DEF AtThreshold, Count
<1> QED
  BY <1>1, <1>2, <1>3, MoreCount

LEMMA SameCount ==
  ASSUME UNCHANGED strike, NEW u
  PROVE  AtThreshold(u)' <=> AtThreshold(u)
BY DEF AtThreshold, Count, ActiveStrikes

(* Steps that change no strike, no event and no handler, and the ban of no *)
(* user whom admins leave alone.                                           *)
LEMMA ElsewhereSettled ==
  ASSUME SettledInv, UNCHANGED <<strike, created, revoked, job, edits, faults>>,
         \A u \in Users \ Moderated : suspended'[u] = suspended[u] /\ reason'[u] = reason[u]
  PROVE  SettledInv'
<1>1. \A u : AtThreshold(u)' <=> AtThreshold(u)
  BY SameCount
<1> QED
  BY <1>1 DEF SettledInv, BansByStrikesOnly, RuledOnce, Answered, MissingBan,
              NeedlessBan, CountStands, About, CreatedFor, RevokedFor

LEMMA CreateSettled ==
  ASSUME TypeOK, SettledInv, NEW s \in Strikes, CreateStrike(s)
  PROVE  SettledInv'
<1>1. BansByStrikesOnly'
  BY DEF SettledInv, BansByStrikesOnly, CreateStrike
<1>2. /\ strike'[s] = "created"
      /\ \A t \in Strikes \ {s} : strike'[t] = strike[t]
      /\ strike[s] = "none"
      /\ UNCHANGED <<suspended, revoked, job, faults, edits>>
      /\ created' = created \cup {s}
  BY DEF CreateStrike, TypeOK
<1>3. ASSUME faults = 0, edits = 0, NEW u \in Users \ Moderated PROVE Answered(u)'
  <2>1. Answered(u)
    BY <1>3 DEF SettledInv
  <2>2. AtThreshold(u) => AtThreshold(u)'
    BY <1>2, CountAfter DEF ActiveStrikes, StoredStates
  <2>3. Target[s] # u => (AtThreshold(u)' => AtThreshold(u))
    BY <1>2, CountAfter DEF ActiveStrikes
  <2>4. Target[s] = u => CreatedFor(u)'
    BY <1>2 DEF CreatedFor
  <2>5. CreatedFor(u) => CreatedFor(u)'
    BY <1>2 DEF CreatedFor
  <2> QED
    BY <1>2, <2>1, <2>2, <2>3, <2>4, <2>5
       DEF Answered, MissingBan, NeedlessBan, CountStands, About, RevokedFor
<1>4. faults = 0 /\ edits = 0 => RuledOnce'
  BY <1>2, JobOfStrike DEF SettledInv, RuledOnce
<1> QED
  BY <1>1, <1>2, <1>3, <1>4 DEF SettledInv

(* A ruling is saved over a strike that still waits for it, and a revoked  *)
(* strike leaves its event.                                                *)
LEMMA SaveSettled ==
  ASSUME TypeOK, SettledInv, OneHandler, NEW p \in Procs, SaveStrike(p)
  PROVE  SettledInv'
<1> DEFINE s == job[p].strike
           to == job[p].to
<1>1. s \in Strikes /\ to \in {"confirmed", "revoked"} /\ job[p].pc = "save"
  BY JobOfStrike DEF SaveStrike
<1>2. BansByStrikesOnly'
  BY DEF SettledInv, BansByStrikesOnly, SaveStrike
<1>3. \A q \in Procs : q = p /\ job'[q] = IdleJob
  BY DEF OneHandler, SaveStrike, Finish, Become, TypeOK
<1>4. ASSUME faults = 0, edits = 0, NEW u \in Users \ Moderated PROVE Answered(u)'
  <2>1. Answered(u) /\ strike[s] = "created"
    BY <1>1, <1>4 DEF SettledInv, RuledOnce
  <2>2. /\ strike'[s] = to
        /\ \A t \in Strikes \ {s} : strike'[t] = strike[t]
        /\ revoked' = IF to = "revoked" THEN revoked \cup {s} ELSE revoked
    BY <1>1, <2>1 DEF SaveStrike, TypeOK
  <2>3. AtThreshold(u)' => AtThreshold(u)
    BY <1>1, <2>1, <2>2, CountAfter DEF ActiveStrikes, StoredStates
  <2>4. to # "revoked" \/ Target[s] # u => (AtThreshold(u) => AtThreshold(u)')
    BY <1>1, <2>2, CountAfter DEF ActiveStrikes, StoredStates
  <2>5. to = "revoked" /\ Target[s] = u => RevokedFor(u)'
    BY <2>2 DEF RevokedFor
  <2>6. RevokedFor(u) => RevokedFor(u)'
    BY <2>2 DEF RevokedFor
  <2>8. MissingBan(u)'
    BY <1>1, <1>3, <2>1, <2>3
       DEF Answered, MissingBan, About, CreatedFor, SaveStrike
  <2>9. NeedlessBan(u)'
    BY <1>1, <1>3, <2>1, <2>4, <2>5, <2>6
       DEF Answered, NeedlessBan, About, SaveStrike
  <2>10. CountStands(u)'
    BY <1>3 DEF CountStands, About, IdleJob
  <2> QED
    BY <2>8, <2>9, <2>10 DEF Answered
<1>5. RuledOnce'
  BY <1>3 DEF RuledOnce, IdleJob
<1> QED
  BY <1>2, <1>4, <1>5 DEF SettledInv, SaveStrike

(* The handler of p moves on, and no strike changes.                       *)
LEMMA HandlerSettled ==
  ASSUME TypeOK, SettledInv, OneHandler, NEW p \in Procs,
         AdminRequest(p) \/ Handle(p) \/ (Continue(p) /\ ~SaveStrike(p))
  PROVE  SettledInv'
<1> USE DEF Become, Finish, Goto, IdleJob
<1>1. \A u : AtThreshold(u)' <=> AtThreshold(u)
  <2>1. UNCHANGED strike
    BY DEF AdminRequest, ReadStrike, BanUser, Handle, CountOnCreated,
           ShowContent, Continue, BanByStrikes, LogOut, Recount, ReadReason, Unban
  <2> QED
    BY <2>1, SameCount
<1>2. /\ \A q \in Procs : q = p
      /\ UNCHANGED <<strike, edits, faults>>
  BY DEF OneHandler, AdminRequest, ReadStrike, BanUser, Handle, CountOnCreated,
         ShowContent, Continue, BanByStrikes, LogOut, Recount, ReadReason, Unban
<1>3. BansByStrikesOnly'
  BY ModeratedAssumption, JobOfUser
     DEF SettledInv, BansByStrikesOnly, AdminRequest, ReadStrike, BanUser,
         Handle, CountOnCreated, ShowContent, Continue, BanByStrikes, LogOut,
         Recount, ReadReason, Unban, ClearBan, TypeOK
<1>4. ASSUME faults = 0, edits = 0 PROVE RuledOnce'
  BY <1>2, <1>4 DEF SettledInv, RuledOnce, AdminRequest, ReadStrike, BanUser,
         Handle, CountOnCreated, ShowContent, Continue, BanByStrikes, LogOut,
         Recount, ReadReason, Unban, TypeOK
<1>5. ASSUME faults = 0, edits = 0, NEW u \in Users \ Moderated PROVE Answered(u)'
  <2>1. Answered(u)
    BY <1>5 DEF SettledInv
  <2> USE <1>1, <1>2, <2>1 DEF Answered, MissingBan, NeedlessBan, CountStands,
                               About, CreatedFor, RevokedFor
  <2>2. CASE AdminRequest(p)
    <3>1. ASSUME NEW s \in Strikes, NEW to \in {"confirmed", "revoked"},
                 ReadStrike(p, s, to)
          PROVE  Answered(u)'
      BY <3>1 DEF ReadStrike, Idle, TypeOK
    <3>2. ASSUME NEW v \in Moderated, BanUser(p, v) PROVE Answered(u)'
      <4>1. suspended'[u] = suspended[u]
        BY <3>2, ModeratedAssumption DEF BanUser, TypeOK
      <4> QED
        BY <3>2, <4>1 DEF BanUser, Idle, TypeOK
    <3> QED
      BY <2>2, <3>1, <3>2 DEF AdminRequest
  <2>3. ASSUME NEW s \in created, CountOnCreated(p, s) PROVE Answered(u)'
    <3>1. job'[p] = IF AtThreshold(Target[s])
                    THEN [pc |-> "ban", user |-> Target[s]] ELSE job[p]
      BY <2>3 DEF CountOnCreated, TypeOK
    <3>2. /\ job[p].pc = "idle"
          /\ created' = created \ {s}
          /\ UNCHANGED <<suspended, revoked>>
      BY <2>3 DEF CountOnCreated, Idle
    <3> QED
      BY <3>1, <3>2
  <2>4. ASSUME NEW s \in revoked, ShowContent(p, s) PROVE Answered(u)'
    <3>1. /\ job'[p] = [pc |-> "recount", user |-> Target[s]]
          /\ job[p].pc = "idle"
          /\ revoked' = revoked \ {s}
          /\ UNCHANGED <<suspended, created>>
      BY <2>4 DEF ShowContent, Idle, TypeOK
    <3> QED
      BY <3>1
  <2>5. CASE BanByStrikes(p)
    <3>1. /\ job[p].user \in Users
          /\ job[p].pc = "ban"
          /\ job'[p] = [pc |-> "logout", user |-> job[p].user]
          /\ UNCHANGED <<created, revoked>>
      BY <2>5, JobOfUser DEF BanByStrikes, TypeOK
    <3>2. suspended'[u] = IF u = job[p].user THEN TRUE ELSE suspended[u]
      BY <2>5 DEF BanByStrikes, TypeOK
    <3> QED
      BY <3>1, <3>2
  <2>6. CASE LogOut(p)
    BY <2>6 DEF LogOut, TypeOK
  <2>7. CASE Recount(p)
    <3>1. /\ job[p].pc = "recount"
          /\ UNCHANGED <<suspended, created, revoked>>
      BY <2>7 DEF Recount
    <3>2. job'[p] = IF ~AtThreshold(job[p].user)
                    THEN [pc |-> "readReason", user |-> job[p].user]
                    ELSE [pc |-> "idle"]
      <4>1. IsFiniteSet(ActiveStrikes(job[p].user))
        BY StrikesAssumption, FS_Subset DEF ActiveStrikes
      <4>2. Count(job[p].user) \in Nat
        BY <4>1, FS_CardinalityType DEF Count
      <4>3. Count(job[p].user) < Threshold <=> ~AtThreshold(job[p].user)
        BY <4>2, ThresholdAssumption DEF AtThreshold
      <4> QED
        BY <2>7, <4>3 DEF Recount, TypeOK
    <3> QED
      BY <3>1, <3>2
  <2>8. CASE ReadReason(p)
    <3>1. /\ job[p].pc = "readReason"
          /\ UNCHANGED <<suspended, created, revoked>>
      BY <2>8 DEF ReadReason
    <3>2. job'[p] = IF reason[job[p].user] = "byStrikes"
                    THEN [pc |-> "unban", user |-> job[p].user]
                    ELSE [pc |-> "idle"]
      BY <2>8 DEF ReadReason, TypeOK
    <3>3. suspended[u] => reason[u] = "byStrikes"
      BY DEF TypeOK, Reasons, SettledInv, BansByStrikesOnly
    <3> QED
      BY <3>1, <3>2, <3>3
  <2>9. CASE Unban(p)
    <3>1. /\ job[p].user \in Users
          /\ job[p].pc = "unban"
          /\ job'[p] = [pc |-> "idle"]
          /\ UNCHANGED <<created, revoked>>
      BY <2>9, JobOfUser DEF Unban, TypeOK
    <3>2. suspended'[u] = IF u = job[p].user THEN FALSE ELSE suspended[u]
      BY <2>9 DEF Unban, ClearBan, TypeOK
    <3> QED
      BY <3>1, <3>2
  <2> QED
    BY <2>2, <2>3, <2>4, <2>5, <2>6, <2>7, <2>8, <2>9 DEF Handle, Continue
<1> QED
  BY <1>2, <1>3, <1>4, <1>5 DEF SettledInv

LEMMA StepSettled ==
  ASSUME TypeOK, SettledInv, OneHandler, [Next]_vars
  PROVE  SettledInv'
<1>1. ASSUME NEW p \in Procs, AdminRequest(p) \/ Handle(p) \/ Continue(p)
      PROVE  SettledInv'
  BY <1>1, SaveSettled, HandlerSettled
<1>2. CASE Request
  <2>1. ASSUME NEW s \in Strikes, CreateStrike(s) PROVE SettledInv'
    BY <2>1, CreateSettled
  <2>2. ASSUME NEW s \in Strikes, NEW st \in StoredStates \cup {"removed"},
               EditStrike(s, st)
        PROVE  SettledInv'
    <3>1. edits' # 0
      BY <2>2, BanBoundsAssumption DEF EditStrike, TypeOK
    <3> QED
      BY <2>2, <3>1 DEF EditStrike, SettledInv, BansByStrikesOnly
  <2>3. ASSUME NEW u \in Moderated, UnbanUser(u) PROVE SettledInv'
    BY <2>3, ModeratedAssumption, ElsewhereSettled
       DEF UnbanUser, ClearBan, TypeOK
  <2>4. ASSUME NEW c \in Contents, BanContent(c) PROVE SettledInv'
    BY <2>4, ElsewhereSettled DEF BanContent
  <2>5. ASSUME NEW u \in Users, LogIn(u) PROVE SettledInv'
    BY <2>5, ElsewhereSettled DEF LogIn
  <2> QED
    BY <1>2, <2>1, <2>2, <2>3, <2>4, <2>5 DEF Request
<1>3. CASE Break
  <2>1. faults' # 0 /\ UNCHANGED reason
    BY <1>3, BanBoundsAssumption
       DEF Break, AbortJob, LoseCreated, LoseRevoked, Fault, TypeOK
  <2> QED
    BY <2>1 DEF SettledInv, BansByStrikesOnly
<1>4. CASE UNCHANGED vars
  BY <1>4, ElsewhereSettled DEF vars
<1> QED
  BY <1>1, <1>2, <1>3, <1>4 DEF Next

(* When all events are handled, in whatever order they came but one at a   *)
(* time, a user no admin bans by hand is banned exactly when the active    *)
(* strikes reach the threshold (banning.molecule.ts:30-65).                *)
THEOREM BanMatchesStrikesAlways ==
  ASSUME OneHandler
  PROVE  Spec => []BanMatchesStrikes
<1>1. Init => TypeOK /\ SettledInv
  BY InitTyped, InitSettled
<1>2. TypeOK /\ SettledInv /\ [Next]_vars => (TypeOK /\ SettledInv)'
  BY NextTyped, StepSettled
<1>3. TypeOK /\ SettledInv => BanMatchesStrikes
  <2> SUFFICES ASSUME TypeOK, SettledInv, NothingInFlight, faults = 0, edits = 0,
                      NEW u \in Users \ Moderated
               PROVE  suspended[u] <=> Standing(u) >= Threshold
    BY DEF BanMatchesStrikes
  <2>1. ActiveStrikes(u)
          = {s \in Strikes : Target[s] = u /\ strike[s] \in {"created", "confirmed"}}
    BY DEF ActiveStrikes, StoredStates
  <2>2. Standing(u) >= Threshold <=> AtThreshold(u)
    BY <2>1 DEF Standing, AtThreshold, Count
  <2>3. ~CreatedFor(u) /\ ~RevokedFor(u) /\ \A p \in Procs : job[p].pc = "idle"
    BY DEF NothingInFlight, CreatedFor, RevokedFor, Idle
  <2>4. suspended[u] \in BOOLEAN
    BY DEF TypeOK
  <2> QED
    BY <2>2, <2>3, <2>4
       DEF SettledInv, Answered, MissingBan, NeedlessBan, About
<1> QED
  BY <1>1, <1>2, <1>3, PTL DEF Spec
=============================================================================
